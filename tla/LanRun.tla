------------------------------- MODULE LanRun -------------------------------
(***************************************************************************)
(* One run of `mcpscan lan` (src/mcpscan/lan): the gates that a manifest    *)
(* passes in order (parse, expiry, signature, scope and budget), the dry    *)
(* run, and the probe loop with its abort switch, deadline and cooldown.    *)
(*                                                                          *)
(* Time is one clock, advanced by the steps that take time: the signature   *)
(* check, a probe and the cooldown. `request.now` is the instant the caller *)
(* passes to run_lan, the clock's value 0. Two things the code waits for    *)
(* have no limit: a peer that keeps sending (each receive is timed, their   *)
(* number is not), and the listing of a range, which is made in full before *)
(* it is counted.                                                           *)
(***************************************************************************)
EXTENDS Naturals, Sequences, SequencesExt

CONSTANTS
  Host,        \* addresses
  Port,        \* port numbers
  Target,      \* target strings a manifest or policy may hold
  Expansion,   \* [Target -> SUBSET Host]: the hosts ip_network(t) stands for
  Invalid,     \* targets ip_network refuses
  Single,      \* targets whose prefix is a whole address
  Private,     \* targets whose network is private
  Endless,     \* ranges whose addresses are never listed to the end (fd00::/64)
  Manifest,    \* manifests a run may be given
  Policy,      \* what --enterprise-policy may cover: sets of targets
  Budget,      \* compiled ceilings: [Invoker -> record]
  VerifyTime,  \* longest a signature check takes
  ProbeTime,   \* longest one probe takes when the peer is silent or answers at once
  StallTime    \* longest a peer that trickles its answer holds a probe and then ends

Invoker == {"human", "agent"}
Signature == {"good", "rejected", "missing"}
Answer == {"closed", "open", "mcp"}
Endpoint == Host \X Port

Ceilings == [max_hosts : Nat, max_ports_per_host : Nat, max_total_connections : Nat,
             max_runtime_s : Nat, per_target_cooldown_s : Nat]

ManifestType == [valid : BOOLEAN, expires_at : Nat, targets : SUBSET Target,
                 ports : Seq(Port)]

ASSUME LanAssumption ==
  /\ IsFiniteSet(Host)
  /\ Expansion \in [Target -> SUBSET Host]
  /\ Manifest \subseteq ManifestType
  /\ Policy \subseteq SUBSET Target
  /\ Budget \in [Invoker -> Ceilings]
  /\ \A m \in Manifest : m.valid => m.ports # <<>> /\ m.targets # {}
  /\ Endless \subseteq Target /\ Endless \cap Single = {}
  /\ VerifyTime \in Nat
  /\ ProbeTime \in Nat
  /\ StallTime \in Nat

\* What one invocation of the command brings: the manifest file, who invokes it,
\* the state of the detached signature, the public targets the enterprise policy
\* covers (none without a policy) and --dry-run.
Request == [manifest : Manifest, invoker : Invoker, signature : Signature,
            public_allowlist : Policy, dry_run : BOOLEAN]

VARIABLES
  request,      \* the invocation's inputs
  phase,        \* where run_lan is
  clock,        \* time since run_lan's `now`
  aborted,      \* what should_abort() returns
  started,      \* clock when the loop began
  hosts,        \* scope.hosts
  h, p,         \* the loop's position in hosts and ports
  connections,  \* the loop's counter
  results,      \* per-endpoint results, the audit record's payload
  servers,      \* exposed servers, the report's payload
  wire,         \* history: every probe sent, in order
  late,         \* history: probes sent with the abort switch already set
  stall         \* history: how long the last probe outlasted its timeouts

vars == <<request, phase, clock, aborted, started, hosts, h, p, connections,
          results, servers, wire, late, stall>>
scope == <<hosts, h, p, started>>
sent == <<connections, results, servers, wire, late>>
found == <<sent, stall>>

manifest == request.manifest
ports == manifest.ports
budgets == Budget[request.invoker]

Gates == {"parse", "expiry", "signature", "scope", "listing", "plan"}
Loop == {"check", "probe", "stalled", "cooldown"}
Ended == {"refused", "dry_run", "report", "killed"}

-----------------------------------------------------------------------------
(* The decisions of the gates.                                              *)

\* Manifest.is_expired: at the stated instant the manifest has expired already.
IsExpired(m, now) == now >= m.expires_at

\* A public target is allowed only under a policy that covers it.
Allowed(t) == t \in Private \/ t \in request.public_allowlist

ResolvedHosts(m) == UNION {Expansion[t] : t \in m.targets}

\* The errors resolve_scope returns, for one target and for the whole set.
TargetRefused(t) ==
  \/ t \in Invalid
  \/ t \notin Single /\ request.invoker = "agent"
  \/ ~Allowed(t)
  \/ Expansion[t] = {}

ScopeRefusedPortsOnly ==
  \/ Len(ports) > budgets.max_ports_per_host
  \/ \E t \in manifest.targets : TargetRefused(t)
  \/ Cardinality(ResolvedHosts(manifest)) > budgets.max_hosts
  \/ ResolvedHosts(manifest) = {}

ScopeRefused ==
  \/ Len(ports) > budgets.max_ports_per_host
  \/ \E t \in manifest.targets : TargetRefused(t)
  \/ Cardinality(ResolvedHosts(manifest)) > budgets.max_hosts
  \/ ResolvedHosts(manifest) = {}
  \/ Cardinality(ResolvedHosts(manifest)) * Len(ports) > budgets.max_total_connections

\* A range that nothing is wrong with is listed before its hosts are counted.
ListsForever ==
  /\ Len(ports) <= budgets.max_ports_per_host
  /\ \E t \in manifest.targets \cap Endless : ~TargetRefused(t)

\* What may be met before such a range, in the order of the manifest.
RefusedBefore ==
  \/ \E t \in manifest.targets : TargetRefused(t)
  \/ Cardinality(UNION {Expansion[t] : t \in manifest.targets \ Endless}) > budgets.max_hosts

-----------------------------------------------------------------------------
Init ==
  /\ request \in Request
  /\ phase = "parse"
  /\ clock = 0
  /\ aborted = FALSE
  /\ started = 0
  /\ hosts = <<>>
  /\ h = 1 /\ p = 1
  /\ connections = 0
  /\ results = [e \in {} |-> "closed"]
  /\ servers = <<>>
  /\ wire = <<>>
  /\ late = 0 /\ stall = 0

\* A gate: refuse, or go on to the next one.
Gate(at, refuse, next) ==
  /\ phase = at
  /\ phase' = IF refuse THEN "refused" ELSE next

\* load_manifest: a malformed manifest is an error, never a partial manifest.
ParseManifest ==
  /\ Gate("parse", ~manifest.valid, "expiry")
  /\ UNCHANGED <<request, clock, aborted, scope, found>>

\* The expiry is compared with the caller's `now`, once.
CheckExpiryStrict ==
  /\ Gate("expiry", 0 > manifest.expires_at, "signature")
  /\ UNCHANGED <<request, clock, aborted, scope, found>>

CheckExpiry ==
  /\ Gate("expiry", IsExpired(manifest, 0), "signature")
  /\ UNCHANGED <<request, clock, aborted, scope, found>>

\* verify_manifest fails closed: a missing file, a rejected signature and a
\* verifier that cannot run all refuse.
VerifySignature ==
  /\ Gate("signature", request.signature # "good", "scope")
  /\ \E d \in 0..VerifyTime : clock' = clock + d
  /\ UNCHANGED <<request, aborted, scope, found>>

\* resolve_scope: hosts are listed once each. The order, that of the manifest in
\* the code, is left open, and so is whether an error comes before an endless range.
ResolveScope ==
  /\ ListsForever => RefusedBefore
  /\ Gate("scope", ScopeRefused \/ ListsForever, "plan")
  /\ IF ScopeRefused \/ ListsForever
       THEN UNCHANGED hosts
       ELSE hosts' \in SetToSeqs(ResolvedHosts(manifest))
  /\ UNCHANGED <<request, clock, aborted, h, p, started, found>>

\* resolve_scope begins to list an endless range, and goes on for as long as it is let.
ListHosts ==
  /\ phase = "scope" /\ ListsForever
  /\ phase' = "listing"
  /\ UNCHANGED <<request, clock, aborted, scope, found>>

\* --dry-run returns the plan; otherwise the loop starts its deadline clock.
Plan ==
  /\ phase = "plan"
  /\ phase' = IF request.dry_run THEN "dry_run" ELSE "check"
  /\ started' = IF request.dry_run THEN started ELSE clock
  /\ UNCHANGED <<request, clock, aborted, hosts, h, p, found>>

\* The loop without its deadline.
OverLimitNoDeadline ==
  \/ aborted
  \/ connections >= budgets.max_total_connections

OverLimit ==
  \/ aborted
  \/ connections >= budgets.max_total_connections
  \/ clock - started > budgets.max_runtime_s

\* Checks the limits once per host instead of once per probe.
CheckLimitsPerHost ==
  /\ phase = "check"
  /\ phase' = IF p = 1 /\ OverLimit THEN "report" ELSE "probe"
  /\ UNCHANGED <<request, clock, aborted, scope, found>>

\* Waits for the abort switch to be released instead of halting.
CheckLimitsWaits ==
  /\ phase = "check"
  /\ phase' = IF aborted THEN "check" ELSE IF OverLimit THEN "report" ELSE "probe"
  /\ UNCHANGED <<request, clock, aborted, scope, found>>

\* Before each probe: abort, budget or deadline halts the whole run. A manifest
\* always has a port and a resolved host, so the loop has a first endpoint.
CheckLimits ==
  /\ phase = "check"
  /\ phase' = IF OverLimit THEN "report" ELSE "probe"
  /\ UNCHANGED <<request, clock, aborted, scope, found>>

here == <<hosts[h], ports[p]>>

\* Only an exposed endpoint reaches the results, the others are dropped.
ContactForgetsMisses ==
  /\ wire' = Append(wire, here)
  /\ late' = late + (IF aborted THEN 1 ELSE 0)
  /\ connections' = connections + 1
  /\ \E a \in Answer :
       /\ results' = IF a = "mcp" THEN [e \in DOMAIN results \cup {here} |->
                        IF e = here THEN a ELSE results[e]] ELSE results
       /\ servers' = IF a = "mcp" THEN Append(servers, here) ELSE servers

\* What the loop makes of one probe, whatever the endpoint answers. The loop records it
\* when the probe returns; nobody reads its records before the run ends.
Contact ==
  /\ wire' = Append(wire, here)
  /\ late' = late + (IF aborted THEN 1 ELSE 0)
  /\ connections' = connections + 1
  /\ \E a \in Answer :
       /\ results' = [e \in DOMAIN results \cup {here} |->
                        IF e = here THEN a ELSE results[e]]
       /\ servers' = IF a = "mcp" THEN Append(servers, here) ELSE servers

\* A probe whose peer answers, closes, or is silent until the timeouts.
Probe ==
  /\ phase = "probe"
  /\ phase' = "cooldown"
  /\ Contact
  /\ \E d \in 0..ProbeTime : clock' = clock + d
  /\ stall' = 0
  /\ UNCHANGED <<request, aborted, scope>>

\* Environment: the peer sends a byte, or one more "100 Continue", within every timeout.
Trickle ==
  /\ phase = "probe"
  /\ phase' = "stalled"
  /\ Contact
  /\ stall' = 0
  /\ UNCHANGED <<request, clock, aborted, scope>>

\* Environment: it ends its answer, or the connection, at last.
Relent ==
  /\ phase = "stalled"
  /\ phase' = "cooldown"
  /\ \E d \in 0..StallTime : clock' = clock + ProbeTime + d /\ stall' = d
  /\ UNCHANGED <<request, aborted, scope, sent>>

\* The step to the next host comes one port late.
CooldownOffByOne ==
  /\ phase = "cooldown"
  /\ clock' = clock + budgets.per_target_cooldown_s
  /\ IF p <= Len(ports) THEN p' = p + 1 /\ h' = h
                        ELSE p' = 1 /\ h' = h + 1
  /\ phase' = IF p > Len(ports) /\ h = Len(hosts) THEN "report" ELSE "check"
  /\ UNCHANGED <<request, aborted, hosts, started, found>>

\* The cooldown after every probe, and the step to the next port or host.
Cooldown ==
  /\ phase = "cooldown"
  /\ clock' = clock + budgets.per_target_cooldown_s
  /\ IF p < Len(ports) THEN p' = p + 1 /\ h' = h
                       ELSE p' = 1 /\ h' = h + 1
  /\ phase' = IF p = Len(ports) /\ h = Len(hosts) THEN "report" ELSE "check"
  /\ UNCHANGED <<request, aborted, hosts, started, found>>

Runner ==
  \/ ParseManifest \/ CheckExpiry \/ VerifySignature \/ ResolveScope \/ ListHosts
  \/ Plan \/ CheckLimits \/ Probe \/ Cooldown

\* Environment: the caller's abort switch is thrown, and stays thrown.
RaiseAbort ==
  /\ phase \notin Ended
  /\ ~aborted
  /\ aborted' = TRUE
  /\ UNCHANGED <<request, phase, clock, scope, found>>

\* Environment: Ctrl-C (KeyboardInterrupt is not caught) or a kill.
Interrupt ==
  /\ phase \notin Ended
  /\ phase' = "killed"
  /\ UNCHANGED <<request, clock, aborted, scope, found>>

Done == phase \in Ended /\ UNCHANGED vars

Next == Runner \/ Trickle \/ Relent \/ RaiseAbort \/ Interrupt \/ Done

Spec == Init /\ [][Next]_vars

\* run_lan is straight-line code: what it does by itself it goes on doing, and the waits of
\* a probe that the peer does not prolong have timeouts. A peer need not relent.
FairSpec == Spec /\ WF_vars(Runner)

-----------------------------------------------------------------------------
(* Properties.                                                              *)

TypeOK ==
  /\ request \in Request
  /\ phase \in Gates \cup Loop \cup Ended
  /\ clock \in Nat /\ started \in Nat
  /\ aborted \in BOOLEAN
  /\ hosts \in Seq(Host)
  /\ h \in Nat \ {0} /\ p \in Nat \ {0}
  /\ phase \in Loop => h <= Len(hosts) /\ p <= Len(ports)
  /\ connections \in Nat /\ late \in Nat /\ stall \in Nat
  /\ DOMAIN results \subseteq Endpoint
  /\ \A e \in DOMAIN results : results[e] \in Answer
  /\ servers \in Seq(Endpoint)
  /\ wire \in Seq(Endpoint)

\* What the authorization covers, stated from the documents and not from the
\* gates: the endpoints of an authentic, current, non-dry run whose port the
\* manifest lists and whose host stands in a listed target that is private or
\* named by the policy, and exact when an agent asks.
CoveredHosts ==
  UNION {Expansion[t] : t \in {u \in manifest.targets :
           (u \in Private \/ u \in request.public_allowlist)
           /\ (request.invoker = "agent" => u \in Single)}}

Permitted ==
  IF manifest.valid /\ 0 < manifest.expires_at /\ request.signature = "good"
     /\ ~request.dry_run
    THEN CoveredHosts \X ToSet(ports)
    ELSE {}

Decision ==
  IF phase \in Gates THEN "pending" ELSE IF phase \in Loop THEN "granted" ELSE "over"

\* The run implements the promise of LanAuthority: no packet before every gate has
\* passed, none outside the authorization, none over the ceiling, none after the end.
Authority == INSTANCE LanAuthority
  WITH permitted <- Permitted, ceiling <- budgets.max_total_connections,
       decision <- Decision, contacted <- ToSet(wire), packets <- Len(wire)

ImplementsAuthority == Authority!ASpec

\* A report that does not cover the whole plan was cut short by the abort switch or
\* the deadline: the connection budget never silently truncates a run, because
\* resolve_scope has refused every plan that does not fit it.
OnlyAbortOrDeadlineCutsShort ==
  phase = "report" /\ Len(wire) < Len(hosts) * Len(ports)
    => aborted \/ clock - started > budgets.max_runtime_s

\* After the abort switch is thrown at most the probe in flight is still sent.
AbortStopsWithinOneProbe == late <= 1

\* The run overstays its runtime ceiling by one probe and one cooldown at most, however
\* many peers drag out their answers: the next check halts it.
RuntimeBounded ==
  phase \in Loop \cup {"report"} =>
    clock - started
      <= budgets.max_runtime_s + ProbeTime + stall + budgets.per_target_cooldown_s

\* The audit payload and the report say the same of the same probes: every probe
\* sent has its entry in the results, and, when the manifest lists no port twice,
\* the report's servers are exactly the endpoints recorded as MCP.
DistinctPorts == IsInjective(ports)
ReportMatchesAudit ==
  /\ DOMAIN results = ToSet(wire)
  /\ DistinctPorts => ToSet(servers) = {e \in DOMAIN results : results[e] = "mcp"}

\* A run ends, refused, halted or complete, unless a peer never ends its answer (the probe's
\* timeout is one of each receive, and the deadline is not looked at within a probe) or a
\* human gave a range that is never listed to the end: an agent's run lists no range.
Held == phase = "stalled" \/ (phase = "listing" /\ request.invoker = "human")
Termination == <>(phase \in Ended) \/ <>[]Held

\* The proposal's manifest example: "probes after this instant are refused".
\* Every probe is sent before the manifest expires.
NoProbeAfterExpiry ==
  [][wire' # wire => ~IsExpired(manifest, clock)]_vars
=============================================================================
