----------------------------- MODULE DriftProofs -----------------------------
(***************************************************************************)
(* Proofs about Drift: the verdict of the gate, for any machine, lockfile,  *)
(* release that wrote the baseline, and losses of the two scans.            *)
(***************************************************************************)
EXTENDS Drift, FiniteSetTheorems, TLAPS

\* The keys and the facts of the snapshot of a scan.
LEMMA SnapshotKeys ==
  ASSUME NEW w, NEW lost, NEW live
  PROVE  LET facts == Snapshot(w, lost, live)
         IN  /\ \A s : ServerKey(s) \in DOMAIN facts <=> s \in Servers(w, lost, live)
             /\ \A s, r : FindingKey(s, r) \in DOMAIN facts <=>
                            s \in Servers(w, lost, live) /\ r \in RulesOf(w, lost, s)
             /\ \A s, t : ToolKey(s, t) \in DOMAIN facts <=>
                            s \in Inspected(lost, live) /\ t \in Kept(w, lost, s)
             /\ \A k \in DOMAIN facts : \/ \E s : k = ServerKey(s)
                                        \/ \E s, r : k = FindingKey(s, r)
                                        \/ \E s, t : k = ToolKey(s, t)
  <1> DEFINE servers == Servers(w, lost, live)
             named == {ServerKey(s) : s \in servers}
             found == UNION {{FindingKey(s, r) : r \in RulesOf(w, lost, s)} : s \in servers}
             tools == UNION {{ToolKey(s, t) : t \in Kept(w, lost, s)} : s \in Inspected(lost, live)}
             Fact(k) == CASE Kind(k) = "server" -> ServerFact(w, lost, k[2])
                          [] Kind(k) = "finding" -> FindingFact(w, k[2], k[3])
                          [] Kind(k) = "tool" -> ToolFact(w.tools[k[2]][k[3]])
  <1>1. DOMAIN Snapshot(w, lost, live) = named \cup found \cup tools
    <2>1. Snapshot(w, lost, live) = [k \in named \cup found \cup tools |-> Fact(k)]
      BY DEF Snapshot, Fact, named, found, tools, servers
    <2> HIDE DEF Fact, named, found, tools
    <2> QED BY <2>1
  <1>2. \A s : ServerKey(s) \notin found \cup tools
    BY DEF ServerKey, FindingKey, ToolKey
  <1>3. \A s, r : FindingKey(s, r) \notin named \cup tools
    BY DEF ServerKey, FindingKey, ToolKey
  <1>4. \A s, t : ToolKey(s, t) \notin named \cup found
    BY DEF ServerKey, FindingKey, ToolKey
  <1>5. /\ \A s : ServerKey(s) \in named <=> s \in servers
        /\ \A s, r : FindingKey(s, r) \in found <=> s \in servers /\ r \in RulesOf(w, lost, s)
        /\ \A s, t : ToolKey(s, t) \in tools <=> s \in Inspected(lost, live) /\ t \in Kept(w, lost, s)
    BY DEF ServerKey, FindingKey, ToolKey
  <1>6. /\ \A k \in named : \E s : k = ServerKey(s)
        /\ \A k \in found : \E s, r : k = FindingKey(s, r)
        /\ \A k \in tools : \E s, t : k = ToolKey(s, t)
    OBVIOUS
  <1> QED BY <1>1, <1>2, <1>3, <1>4, <1>5, <1>6

\* The facts of a posture, under their keys.
LEMMA SnapshotFacts ==
  ASSUME NEW w, NEW lost, NEW live
  PROVE  LET facts == Snapshot(w, lost, live)
         IN  /\ \A s : ServerKey(s) \in DOMAIN facts =>
                         facts[ServerKey(s)] = ServerFact(w, lost, s)
             /\ \A s, t : ToolKey(s, t) \in DOMAIN facts =>
                            facts[ToolKey(s, t)] = ToolFact(w.tools[s][t])
  BY DEF Snapshot, ServerKey, FindingKey, ToolKey, Kind

\* The keys of a baseline, whatever release wrote it, before and after a lockfile is imported.
LEMMA WrittenKeys ==
  ASSUME NEW w, NEW lost, NEW live, NEW era \in Eras
  PROVE  LET facts == Snapshot(w, lost, live)
             written == AsWritten(era, facts)
         IN  /\ DOMAIN written \subseteq DOMAIN facts
             /\ \A s : ServerKey(s) \in DOMAIN written <=>
                         ServerKey(s) \in DOMAIN facts /\ (era = "first" => s \notin Live)
             /\ \A s, r : FindingKey(s, r) \in DOMAIN written <=>
                            FindingKey(s, r) \in DOMAIN facts /\ (era = "first" => s \notin Live)
             /\ \A s, t : ToolKey(s, t) \in DOMAIN written <=>
                            /\ ToolKey(s, t) \in DOMAIN facts
                            /\ era # "manifest" /\ (era = "first" => s \notin Live)
  BY DEF AsWritten, Eras, ServerKey, FindingKey, ToolKey, Kind

\* What is said of each sort of server: the sorts do not mix.
LEMMA Apart ==
  /\ \A s \in Live : s \notin Decl /\ s \notin Listener /\ s # ConfigFile
  /\ \A d \in Decl : d \notin Live /\ d \notin Listener /\ d # ConfigFile
  /\ \A l \in Listener : l \notin Live /\ l \notin Decl /\ l # ConfigFile
  BY PostureAssumption

\* The fact of a server inspected live.
LEMMA LiveFact ==
  ASSUME NEW w, NEW lost, NEW s \in Live
  PROVE  ServerFact(w, lost, s) = Plain(Failed(s) \notin lost, Dark(lost, s))
  BY Apart DEF ServerFact

\* The fact of a server a config declares.
LEMMA DeclaredFact ==
  ASSUME NEW w, NEW lost, NEW s \in Decl
  PROVE  ServerFact(w, lost, s) =
           [running |-> FALSE, exposure |-> "local", inspection_incomplete |-> FALSE,
            tool_identity |-> Identity[w.decls[s].launch]]
  BY Apart DEF ServerFact

\* The fact of a listener.
LEMMA ListenerFact ==
  ASSUME NEW w, NEW lost, NEW s \in Listener
  PROVE  ServerFact(w, lost, s) = [running |-> TRUE, exposure |-> "exposed",
                                   inspection_incomplete |-> Partial(lost)]
  <1>1. ServerFact(w, lost, s) = [Plain(TRUE, Partial(lost)) EXCEPT !.exposure = "exposed"]
    BY Apart DEF ServerFact
  <1> QED BY <1>1 DEF Plain

\* The findings of a live server the scan saw.
LEMMA LiveRules ==
  ASSUME NEW w, NEW lost, NEW s \in Live, ~Dark(lost, s)
  PROVE  \A r : r \in RulesOf(w, lost, s) <=>
           /\ r = "LIVE-TOOL-INJECTION-TEXT"
           /\ \E t \in Kept(w, lost, s) : w.tools[s][t] \in Poisoned
  <1>1. Failed(s) \notin lost
    BY DEF Dark
  <1>2. RulesOf(w, lost, s) =
          {r \in {"LIVE-TOOLS-INCOMPLETE"} : Dark(lost, s)}
            \cup {r \in {"LIVE-TOOL-INJECTION-TEXT"} :
                    \E t \in Kept(w, lost, s) : w.tools[s][t] \in Poisoned}
    BY <1>1, Apart DEF RulesOf
  <1> QED BY <1>2

\* The findings of a declared server.
LEMMA DeclaredRules ==
  ASSUME NEW w, NEW lost, NEW s \in Decl
  PROVE  RulesOf(w, lost, s) = {r \in Rule : w.decls[s].flaws[r] # <<>>}
  BY Apart DEF RulesOf

\* The findings of a listener.
LEMMA ListenerRules ==
  ASSUME NEW w, NEW lost, NEW s \in Listener
  PROVE  RulesOf(w, lost, s) = {"EXPOSE-BIND"}
  BY Apart DEF RulesOf

\* The finding of a config that could not be read.
LEMMA UnreadableRules ==
  ASSUME NEW w, NEW lost
  PROVE  RulesOf(w, lost, ConfigFile) = {"CONFIG-UNREADABLE"}
  BY PostureAssumption DEF RulesOf

\* The synthetic servers do not mix with the others.
LEMMA ServersApart ==
  ASSUME NEW w, NEW lost, NEW live \in SUBSET Live, w.listening \subseteq Listener
  PROVE  /\ \A s \in Live : s \in Servers(w, lost, live) <=> s \in Inspected(lost, live)
         /\ \A d \in Decl : d \in Servers(w, lost, live) <=> d \in Read(w, lost)
         /\ \A l \in Listener : l \in Servers(w, lost, live) <=> l \in Shown(w, lost)
         /\ ConfigFile \in Servers(w, lost, live) <=> Refused \in lost
         /\ Servers(w, lost, live) \subseteq Live \cup Decl \cup Listener \cup {ConfigFile}
  BY PostureAssumption DEF Servers, Inspected, Read, Declared, Shown, Live

\* A named server is never missed: only what its socket has to show is.
LEMMA NamedInspected ==
  ASSUME NEW lost \in SUBSET Losses, NEW live \in SUBSET Live, NEW s \in Named
  PROVE  s \in Inspected(lost, live) <=> s \in live
  <1>1. Missed(s) \notin Losses
    BY PostureAssumption DEF Losses, Missed, Failed, Cut, Refused, Live
  <1> QED BY <1>1 DEF Inspected

\* Import adds the pins of a lockfile and their servers, and changes nothing else.
KeysKnown(facts) ==
  \A k \in DOMAIN facts : \/ \E s : k = ServerKey(s)
                          \/ \E s, r : k = FindingKey(s, r)
                          \/ \E s, t : k = ToolKey(s, t)
PinFact(p) == [mcpseal |-> p.seal, provenance |-> "mcpseal-import"]
AddsPins(facts, new) ==
  /\ \A k \in DOMAIN facts : k \in DOMAIN new /\ new[k] = facts[k]
  /\ \A s : ServerKey(s) \in DOMAIN new <=>
              ServerKey(s) \in DOMAIN facts \/ \E p \in Lock : p.server = s
  /\ \A s : ServerKey(s) \in DOMAIN new /\ ServerKey(s) \notin DOMAIN facts =>
              new[ServerKey(s)] = Plain(TRUE, FALSE)
  /\ \A s, r : FindingKey(s, r) \in DOMAIN new <=> FindingKey(s, r) \in DOMAIN facts
  /\ \A s, t : ToolKey(s, t) \in DOMAIN new <=>
                 ToolKey(s, t) \in DOMAIN facts \/ \E p \in Lock : p.server = s /\ p.tool = t
  /\ \A s, t : ToolKey(s, t) \in DOMAIN new /\ ToolKey(s, t) \notin DOMAIN facts =>
                 \E p \in Lock : p.server = s /\ p.tool = t /\ new[ToolKey(s, t)] = PinFact(p)

\* The import of a lockfile adds the pins and their servers to the facts.
LEMMA ImportedFacts ==
  ASSUME NEW facts, KeysKnown(facts)
  PROVE  AddsPins(facts, ImportLock(facts, Lock))
  <1> DEFINE pins == {ToolKey(p.server, p.tool) : p \in Lock}
             servers == {ServerKey(p.server) : p \in Lock}
             Pinned(k) == CHOOSE p \in Lock : ToolKey(p.server, p.tool) = k
             new == ImportLock(facts, Lock)
  <1>1. DOMAIN new = DOMAIN facts \cup pins \cup servers
    BY DEF ImportLock
  <1>2. /\ \A s : ServerKey(s) \notin pins /\ (ServerKey(s) \in servers <=> \E p \in Lock : p.server = s)
        /\ \A s, r : FindingKey(s, r) \notin pins \cup servers
        /\ \A s, t : /\ ToolKey(s, t) \notin servers
                     /\ ToolKey(s, t) \in pins <=> \E p \in Lock : p.server = s /\ p.tool = t
    BY DEF ServerKey, FindingKey, ToolKey
  <1>3. \A k \in DOMAIN facts : k \in DOMAIN new /\ new[k] = facts[k]
    BY <1>1, <1>2 DEF ImportLock
  <1>4. \A k \in servers : k \notin DOMAIN facts => new[k] = Plain(TRUE, FALSE)
    BY DEF ImportLock
  <1>5. \A k \in pins : k \notin DOMAIN facts /\ k \notin servers => new[k] = PinFact(Pinned(k))
    BY DEF ImportLock, PinFact
  <1>6. \A s, t : ToolKey(s, t) \in pins =>
          LET p == Pinned(ToolKey(s, t)) IN p \in Lock /\ p.server = s /\ p.tool = t
    BY DEF ToolKey
  <1> HIDE DEF new, pins, servers, Pinned
  <1>7. ASSUME NEW s, NEW t, ToolKey(s, t) \in DOMAIN new, ToolKey(s, t) \notin DOMAIN facts
        PROVE  \E p \in Lock : p.server = s /\ p.tool = t /\ new[ToolKey(s, t)] = PinFact(p)
    <2> DEFINE k == ToolKey(s, t)
    <2>1. k \in pins /\ k \notin servers
      BY <1>1, <1>2, <1>7
    <2>2. Pinned(k) \in Lock /\ Pinned(k).server = s /\ Pinned(k).tool = t
      BY <2>1, <1>6
    <2>3. new[k] = PinFact(Pinned(k))
      BY <2>1, <1>5, <1>7
    <2> QED BY <2>2, <2>3
  <1>8. ASSUME NEW s, ServerKey(s) \in DOMAIN new, ServerKey(s) \notin DOMAIN facts
        PROVE  new[ServerKey(s)] = Plain(TRUE, FALSE)
    <2>1. ServerKey(s) \in servers
      BY <1>1, <1>2, <1>8
    <2> QED BY <2>1, <1>4, <1>8
  <1>9. /\ \A s : ServerKey(s) \in DOMAIN new <=>
                    ServerKey(s) \in DOMAIN facts \/ \E p \in Lock : p.server = s
        /\ \A s, r : FindingKey(s, r) \in DOMAIN new <=> FindingKey(s, r) \in DOMAIN facts
        /\ \A s, t : ToolKey(s, t) \in DOMAIN new <=>
                       ToolKey(s, t) \in DOMAIN facts
                       \/ \E p \in Lock : p.server = s /\ p.tool = t
    BY <1>1, <1>2
  <1>10. AddsPins(facts, new)
    <2>1. \A s, t : ToolKey(s, t) \in DOMAIN new /\ ToolKey(s, t) \notin DOMAIN facts =>
            \E p \in Lock : p.server = s /\ p.tool = t /\ new[ToolKey(s, t)] = PinFact(p)
      BY <1>7
    <2>2. \A s : ServerKey(s) \in DOMAIN new /\ ServerKey(s) \notin DOMAIN facts =>
            new[ServerKey(s)] = Plain(TRUE, FALSE)
      BY <1>8
    <2> QED BY ONLY <1>3, <1>9, <2>1, <2>2 DEF AddsPins
  <1> QED BY <1>10 DEF new

\* What an earlier release makes of a fact.
ServerWritten(era, s, whole) ==
  IF era = "first" THEN Without(whole, {"tool_identity", "inspection_incomplete"})
  ELSE IF era = "manifest" /\ s \in Live
  THEN [n \in DOMAIN whole \cup {"tool_identity"} |->
          IF n = "tool_identity" THEN "manifest" ELSE whole[n]]
  ELSE whole

\* The fact of a server in a baseline an earlier release wrote.
LEMMA WrittenServer ==
  ASSUME NEW w, NEW lost, NEW live, NEW era \in Eras, NEW s,
         ServerKey(s) \in DOMAIN AsWritten(era, Snapshot(w, lost, live))
  PROVE  AsWritten(era, Snapshot(w, lost, live))[ServerKey(s)] =
           ServerWritten(era, s, ServerFact(w, lost, s))
  <1> DEFINE facts == Snapshot(w, lost, live)
             key == ServerKey(s)
  <1>1. facts[key] = ServerFact(w, lost, s)
    BY WrittenKeys, SnapshotFacts
  <1>2. Kind(key) = "server" /\ key[2] = s
    BY DEF Kind, ServerKey
  <1> HIDE DEF facts, key
  <1>3. ASSUME key \in DOMAIN AsWritten(era, facts)
        PROVE  AsWritten(era, facts)[key] = ServerWritten(era, s, facts[key])
    BY <1>2, <1>3 DEF AsWritten, ServerWritten, Eras
  <1> QED BY <1>1, <1>3 DEF facts, key

\* The fact of a tool in a baseline an earlier release wrote.
LEMMA WrittenTool ==
  ASSUME NEW w, NEW lost, NEW live, NEW era \in Eras, NEW s, NEW t,
         ToolKey(s, t) \in DOMAIN AsWritten(era, Snapshot(w, lost, live))
  PROVE  AsWritten(era, Snapshot(w, lost, live))[ToolKey(s, t)] =
           IF era = "unsealed" THEN Without(ToolFact(w.tools[s][t]), {"mcpseal"})
           ELSE ToolFact(w.tools[s][t])
  <1> DEFINE facts == Snapshot(w, lost, live)
             key == ToolKey(s, t)
  <1>1. facts[key] = ToolFact(w.tools[s][t])
    BY WrittenKeys, SnapshotFacts
  <1>2. Kind(key) = "tool"
    BY DEF Kind, ToolKey
  <1> HIDE DEF facts, key
  <1>3. ASSUME key \in DOMAIN AsWritten(era, facts)
        PROVE  AsWritten(era, facts)[key] =
                 IF era = "unsealed" THEN Without(facts[key], {"mcpseal"}) ELSE facts[key]
    BY <1>2, <1>3 DEF AsWritten
  <1> QED BY <1>1, <1>3 DEF facts, key

\* Only this release imports lockfiles.
WellMade(b) == b \in Baselines /\ (b.imported => b.era = "current")

\* What a baseline holds of the tools, findings and servers its scan saw, and of those only a
\* lockfile has pinned.
ToolSeen(b, s, t) == LET fact == ToolFact(b.world.tools[s][t])
                     IN  {fact, Without(fact, {"mcpseal"})}
ServerSeen(b, s) == ServerWritten(b.era, s, ServerFact(b.world, b.lost, s))

\* The keys of the facts old of a baseline b, and what they stand for.
KeepsTools(b, old) ==
  /\ \A s, t : ToolKey(s, t) \in DOMAIN old =>
       \/ Scanned(b, s, t) /\ old[ToolKey(s, t)] \in ToolSeen(b, s, t)
       \/ \E p \in Pins(b, s) :
            ~Scanned(b, s, t) /\ p.tool = t /\ old[ToolKey(s, t)] = PinFact(p)
  /\ \A s, t : Scanned(b, s, t) =>
       (ToolKey(s, t) \in DOMAIN old <=>
          b.era # "manifest" /\ (b.era = "first" => s \notin Live))
KeepsFindings(b, old) ==
  \A s, r : FindingKey(s, r) \in DOMAIN old <=>
    /\ s \in Servers(b.world, b.lost, b.live) /\ r \in RulesOf(b.world, b.lost, s)
    /\ b.era = "first" => s \notin Live
KeepsServers(b, old) ==
  /\ \A s : s \in Servers(b.world, b.lost, b.live) /\ (b.era = "first" => s \notin Live) =>
       ServerKey(s) \in DOMAIN old /\ old[ServerKey(s)] = ServerSeen(b, s)
  /\ \A s : ServerKey(s) \in DOMAIN old /\ s \notin Servers(b.world, b.lost, b.live) =>
       Pins(b, s) # {} /\ old[ServerKey(s)] = Plain(TRUE, FALSE)
  /\ \A s : ServerKey(s) \in DOMAIN old /\ b.era = "first" => s \notin Live
  /\ \A s : Pins(b, s) # {} => ServerKey(s) \in DOMAIN old

\* The facts a gate reads from a baseline, whatever release wrote it.
LEMMA BaselineFacts ==
  ASSUME NEW b, WellMade(b)
  PROVE  KeepsTools(b, Facts(b)) /\ KeepsFindings(b, Facts(b)) /\ KeepsServers(b, Facts(b))
  <1> DEFINE facts == Snapshot(b.world, b.lost, b.live)
             written == AsWritten(b.era, facts)
  <1>1. b.era \in Eras /\ b.imported \in BOOLEAN /\ (b.imported => b.era = "current")
    BY DEF WellMade, Baselines
  <1>2. \A s, t : ToolKey(s, t) \in DOMAIN facts <=> Scanned(b, s, t)
    BY SnapshotKeys DEF Scanned
  <1>3. /\ \A s, t : ToolKey(s, t) \in DOMAIN written <=>
             Scanned(b, s, t) /\ b.era # "manifest" /\ (b.era = "first" => s \notin Live)
        /\ \A s, t : ToolKey(s, t) \in DOMAIN written =>
             written[ToolKey(s, t)] \in ToolSeen(b, s, t)
    <2>1. \A s, t : ToolKey(s, t) \in DOMAIN written <=>
            Scanned(b, s, t) /\ b.era # "manifest" /\ (b.era = "first" => s \notin Live)
      BY <1>1, <1>2, WrittenKeys
    <2>2. ASSUME NEW s, NEW t, ToolKey(s, t) \in DOMAIN written
          PROVE  written[ToolKey(s, t)] \in ToolSeen(b, s, t)
      BY <1>1, <2>2, WrittenTool DEF ToolSeen
    <2> QED BY <2>1, <2>2
  <1>4. KeepsFindings(b, written)
    BY <1>1, WrittenKeys, SnapshotKeys DEF KeepsFindings
  <1>5. /\ \A s : ServerKey(s) \in DOMAIN written <=>
             s \in Servers(b.world, b.lost, b.live) /\ (b.era = "first" => s \notin Live)
        /\ \A s : ServerKey(s) \in DOMAIN written => written[ServerKey(s)] = ServerSeen(b, s)
    <2>1. \A s : ServerKey(s) \in DOMAIN written <=>
            s \in Servers(b.world, b.lost, b.live) /\ (b.era = "first" => s \notin Live)
      BY <1>1, WrittenKeys, SnapshotKeys
    <2>2. ASSUME NEW s, ServerKey(s) \in DOMAIN written
          PROVE  written[ServerKey(s)] = ServerSeen(b, s)
      BY <1>1, <2>2, WrittenServer DEF ServerSeen
    <2> QED BY <2>1, <2>2
  <1>6. KeysKnown(written)
    BY <1>1, WrittenKeys, SnapshotKeys DEF KeysKnown
  <1>7. \A s : Pins(b, s) = IF b.imported THEN {p \in Lock : p.server = s} ELSE {}
    BY DEF Pins
  <1>8. Facts(b) = IF b.imported THEN ImportLock(written, Lock) ELSE written
    BY DEF Facts
  <1> HIDE DEF facts, written
  <1>9. CASE ~b.imported
    <2>1. Facts(b) = written /\ \A s : Pins(b, s) = {}
      BY <1>7, <1>8, <1>9
    <2>2. KeepsTools(b, written) /\ KeepsServers(b, written)
      BY <2>1, <1>3, <1>5 DEF KeepsTools, KeepsServers
    <2> QED BY <2>1, <2>2, <1>4
  <1>10. CASE b.imported
    <2>1. AddsPins(written, Facts(b)) /\ b.era = "current"
      BY <1>1, <1>6, <1>8, <1>10, ImportedFacts
    <2>2. \A s : Pins(b, s) = {p \in Lock : p.server = s}
      BY <1>7, <1>10
    <2>3. PICK old : old = Facts(b)
      OBVIOUS
    <2>4. KeepsTools(b, old)
      BY <2>1, <2>2, <2>3, <1>3 DEF AddsPins, KeepsTools
    <2>5. KeepsFindings(b, old)
      BY <2>1, <2>3, <1>4 DEF AddsPins, KeepsFindings
    <2>6. KeepsServers(b, old)
      <3>1. \A s : ServerKey(s) \in DOMAIN written <=> s \in Servers(b.world, b.lost, b.live)
        BY <1>5, <2>1
      <3>2. \A s : s \in Servers(b.world, b.lost, b.live) =>
              ServerKey(s) \in DOMAIN old /\ old[ServerKey(s)] = ServerSeen(b, s)
        BY <3>1, <2>1, <2>3, <1>5 DEF AddsPins
      <3>3. \A s : ServerKey(s) \in DOMAIN old /\ s \notin Servers(b.world, b.lost, b.live) =>
              (\E p \in Lock : p.server = s) /\ old[ServerKey(s)] = Plain(TRUE, FALSE)
        BY <3>1, <2>1, <2>3 DEF AddsPins
      <3>4. \A s : Pins(b, s) # {} <=> \E p \in Lock : p.server = s
        BY <2>2
      <3>5. \A s : Pins(b, s) # {} => ServerKey(s) \in DOMAIN old
        BY <3>4, <2>1, <2>3 DEF AddsPins
      <3> QED BY <2>1, <3>2, <3>3, <3>4, <3>5 DEF KeepsServers
    <2> QED BY <2>3, <2>4, <2>5, <2>6
  <1> QED BY <1>1, <1>9, <1>10

-----------------------------------------------------------------------------
(* A diff without regressions.                                              *)

Clean(old, new, lg, on) == Regressions(Diff(old, new), lg, on) = {}

\* What is new and a regression, somebody accepted: so it is a tool.
LEMMA CleanAdded ==
  ASSUME NEW old, NEW new, NEW lg, NEW on, Clean(old, new, lg, on),
         NEW k \in DOMAIN new, k \notin DOMAIN old, AddedIsRegression(old, k, new[k])
  PROVE  \E acc \in lg : Waives(acc, Entry(k, "regression", Comparable(k, new[k])), on)
  <1> DEFINE e == Entry(k, "regression", Comparable(k, new[k]))
  <1>1. e \in Diff(old, new)
    BY DEF Diff, Added
  <1>2. e.direction = "regression"
    BY DEF Entry
  <1> HIDE DEF e
  <1>3. \E acc \in lg : Waives(acc, e, on)
    BY <1>1, <1>2 DEF Clean, Regressions
  <1> QED BY <1>3 DEF e

\* A changed fact that is a regression is waived when the comparison is clean.
LEMMA CleanChanged ==
  ASSUME NEW old, NEW new, NEW lg, NEW on, Clean(old, new, lg, on),
         NEW k \in DOMAIN new \cap DOMAIN old, Direction(k, old[k], new[k]) = "regression",
         Aligned(k, old[k], new[k]).before # Aligned(k, old[k], new[k]).after
  PROVE  \E acc \in lg :
           Waives(acc, Entry(k, "regression", Aligned(k, old[k], new[k]).after), on)
  <1> DEFINE e == Entry(k, "regression", Aligned(k, old[k], new[k]).after)
  <1>1. e \in Diff(old, new)
    BY DEF Diff, Changed
  <1>2. e.direction = "regression"
    BY DEF Entry
  <1> HIDE DEF e
  <1>3. \E acc \in lg : Waives(acc, e, on)
    BY <1>1, <1>2 DEF Clean, Regressions
  <1> QED BY <1>3 DEF e

\* An acceptance waives a change of a tool, and of nothing else.
LEMMA OnlyToolsWaived ==
  ASSUME NEW acc, NEW k, NEW direction, NEW detail, NEW on,
         Waives(acc, Entry(k, direction, detail), on)
  PROVE  /\ Kind(k) = "tool" /\ k = ToolKey(acc.server, acc.tool)
         /\ "digest" \in DOMAIN detail /\ detail.digest = acc.digest
         /\ ~Lapsed(acc, on)
  BY DEF Waives, Entry

\* Two machines seen by two scans, the first as a baseline has it, and no regression.
Passes(b, w, lost, lg, on) ==
  /\ WellMade(b) /\ w \in World /\ lost \in SUBSET Losses
  /\ Clean(Facts(b), Snapshot(w, lost, Live), lg, on)

\* The parts of a machine.
LEMMA WorldTypes ==
  ASSUME NEW w \in World
  PROVE  /\ w.listening \subseteq Listener
         /\ \A s \in Live, t \in Tool : w.tools[s][t] \in Definition \cup {NoTool}
         /\ \A d \in Declared(w) : /\ d \in Decl /\ w.decls[d].launch \in Launch
                                  /\ \A r \in Rule : w.decls[d].flaws[r] \in Flaws
  BY DEF World, Declared, Declaration

\* The parts of a baseline.
LEMMA BaselineTypes ==
  ASSUME NEW b, WellMade(b)
  PROVE  /\ b.world \in World /\ b.lost \in SUBSET Losses /\ b.live \in {Live, {}}
         /\ b.era \in Eras /\ b.created \in Nat
  BY DriftAssumption DEF WellMade, Baselines, Losts

\* No server is reported for a rule that the baseline does not report it for.
LEMMA FindingsVouched ==
  ASSUME NEW b, NEW w, NEW lost, NEW lg, NEW on, Passes(b, w, lost, lg, on),
         NEW s \in Servers(w, lost, Live), NEW r \in RulesOf(w, lost, s)
  PROVE  s \in Servers(b.world, b.lost, b.live) /\ r \in RulesOf(b.world, b.lost, s)
  <1> DEFINE old == Facts(b)
             new == Snapshot(w, lost, Live)
             k == FindingKey(s, r)
  <1>1. k \in DOMAIN new
    BY SnapshotKeys
  <1>2. Kind(k) = "finding"
    BY DEF Kind, FindingKey
  <1>3. k \in DOMAIN old
    <2>1. SUFFICES ASSUME k \notin DOMAIN old PROVE FALSE
      OBVIOUS
    <2>2. AddedIsRegression(old, k, new[k])
      BY <1>2 DEF AddedIsRegression
    <2> HIDE DEF old, new, k
    <2>3. Clean(old, new, lg, on)
      BY DEF Passes, old, new
    <2>4. PICK acc \in lg : Waives(acc, Entry(k, "regression", Comparable(k, new[k])), on)
      BY <1>1, <2>1, <2>2, <2>3, CleanAdded
    <2> QED BY <1>2, <2>4, OnlyToolsWaived
  <1> QED BY <1>3, BaselineFacts DEF KeepsFindings, Passes

\* Two facts about a server that compare equal agree on what the classification reads.
LEMMA AlignedServers ==
  ASSUME NEW k, Kind(k) = "server", NEW before, NEW after,
         Aligned(k, before, after).before = Aligned(k, before, after).after
  PROVE  /\ Incomplete(before) = Incomplete(after)
         /\ ~IdentityChanged(before, after)
  <1> DEFINE b == Comparable(k, before)
             a == Comparable(k, after)
             dropped == CompatOptional \ (DOMAIN b \cap DOMAIN a)
  <1>1. /\ b = [n \in DOMAIN before \cup {"inspection_incomplete"} |-> ValueOr(before, n, FALSE)]
        /\ a = [n \in DOMAIN after \cup {"inspection_incomplete"} |-> ValueOr(after, n, FALSE)]
    BY DEF Comparable
  <1>2. Without(b, dropped) = Without(a, dropped)
    BY DEF Aligned, Imported
  <1>3. \A n \in (DOMAIN b \cap DOMAIN a) \ dropped : b[n] = a[n]
    <2> HIDE DEF a, b, dropped
    <2> TAKE n \in (DOMAIN b \cap DOMAIN a) \ dropped
    <2>1. Without(b, dropped)[n] = b[n] /\ Without(a, dropped)[n] = a[n]
      BY DEF Without, Restrict
    <2> QED BY <2>1, <1>2
  <1>4. "inspection_incomplete" \in (DOMAIN b \cap DOMAIN a) \ dropped
    BY <1>1 DEF CompatOptional
  <1>5. b["inspection_incomplete"] = Incomplete(before) /\ a["inspection_incomplete"] = Incomplete(after)
    BY <1>1 DEF Incomplete
  <1>6. ASSUME "tool_identity" \in DOMAIN before, "tool_identity" \in DOMAIN after
        PROVE  before.tool_identity = after.tool_identity
    <2>1. "tool_identity" \in (DOMAIN b \cap DOMAIN a) \ dropped
      BY <1>1, <1>6
    <2>2. b["tool_identity"] = before.tool_identity /\ a["tool_identity"] = after.tool_identity
      BY <1>1, <1>6 DEF ValueOr
    <2> QED BY <2>1, <2>2, <1>3
  <1> QED BY <1>3, <1>4, <1>5, <1>6 DEF IdentityChanged

\* A server the baseline has has lost neither visibility nor its identity.
LEMMA ServerVouched ==
  ASSUME NEW b, NEW w, NEW lost, NEW lg, NEW on, Passes(b, w, lost, lg, on),
         NEW s \in Servers(w, lost, Live), ServerKey(s) \in DOMAIN Facts(b)
  PROVE  LET before == Facts(b)[ServerKey(s)]
             after == ServerFact(w, lost, s)
         IN  (Incomplete(after) => Incomplete(before)) /\ ~IdentityChanged(before, after)
  <1> DEFINE old == Facts(b)
             new == Snapshot(w, lost, Live)
             k == ServerKey(s)
             before == old[k]
             after == new[k]
  <1>1. k \in DOMAIN new \cap DOMAIN old /\ after = ServerFact(w, lost, s)
    BY SnapshotKeys, SnapshotFacts
  <1>2. Kind(k) = "server"
    BY DEF Kind, ServerKey
  <1>3. Clean(old, new, lg, on)
    BY DEF Passes
  <1> HIDE DEF old, new, k
  <1>4. (Incomplete(after) => Incomplete(before)) /\ ~IdentityChanged(before, after)
    <2>1. SUFFICES ASSUME (Incomplete(after) /\ ~Incomplete(before)) \/ IdentityChanged(before, after)
                   PROVE  FALSE
      OBVIOUS
    <2>2. Direction(k, before, after) = "regression"
      BY <1>2, <2>1 DEF Direction, ServerDirection
    <2>3. Aligned(k, before, after).before # Aligned(k, before, after).after
      BY <1>2, <2>1, AlignedServers
    <2>4. PICK acc \in lg : Waives(acc, Entry(k, "regression", Aligned(k, before, after).after), on)
      BY <1>1, <1>3, <2>2, <2>3, CleanChanged
    <2> QED BY <1>2, <2>4, OnlyToolsWaived
  <1> QED BY <1>1, <1>4 DEF old, k

\* What a baseline of a late release has of a server inspected live.
LEMMA LiveServerSeen ==
  ASSUME NEW b, WellMade(b), b.era \in {"current", "unsealed"}, NEW s \in Live
  PROVE  ServerSeen(b, s) = Plain(Failed(s) \notin b.lost, Dark(b.lost, s))
  BY LiveFact DEF ServerSeen, ServerWritten

\* A live server whose tools the baseline pins is seen in full where the baseline saw it so.
LEMMA SightVouched ==
  ASSUME NEW b, NEW w, NEW lost, NEW lg, NEW on, Passes(b, w, lost, lg, on),
         NEW s \in Live, PinsTools(b, s), s \in Inspected(lost, Live), Dark(lost, s)
  PROVE  s \in b.live /\ Dark(b.lost, s)
  <1>1. b.era \in {"current", "unsealed"}
    BY DEF PinsTools
  <1>2. s \in Servers(w, lost, Live)
    BY DEF Servers
  <1>3. ServerFact(w, lost, s) = Plain(Failed(s) \notin lost, Dark(lost, s))
    BY LiveFact
  <1>4. Incomplete(ServerFact(w, lost, s))
    BY <1>3 DEF Incomplete, ValueOr, Plain
  <1>5. CASE s \in Servers(b.world, b.lost, b.live)
    <2>1. ServerKey(s) \in DOMAIN Facts(b) /\ Facts(b)[ServerKey(s)] = ServerSeen(b, s)
      BY <1>1, <1>5, BaselineFacts DEF KeepsServers, Passes
    <2>2. ServerSeen(b, s) = Plain(Failed(s) \notin b.lost, Dark(b.lost, s))
      BY <1>1, LiveServerSeen DEF Passes
    <2>3. Incomplete(ServerSeen(b, s))
      BY <1>2, <1>4, <2>1, ServerVouched
    <2>4. Dark(b.lost, s)
      BY <2>2, <2>3 DEF Incomplete, ValueOr, Plain
    <2>5. s \in b.live
      BY <1>5, BaselineTypes, WorldTypes, ServersApart DEF Inspected, Passes
    <2> QED BY <2>4, <2>5
  <1>6. CASE s \notin Servers(b.world, b.lost, b.live)
    <2>1. ServerKey(s) \in DOMAIN Facts(b)
      BY <1>6, BaselineFacts DEF KeepsServers, Passes, PinsTools, Servers
    <2>2. Facts(b)[ServerKey(s)] = Plain(TRUE, FALSE)
      BY <1>6, <2>1, BaselineFacts DEF KeepsServers, Passes
    <2>3. Incomplete(Plain(TRUE, FALSE))
      BY <1>2, <1>4, <2>1, <2>2, ServerVouched
    <2> QED BY <2>3 DEF Incomplete, ValueOr, Plain
  <1> QED BY <1>5, <1>6

\* A tool of a server whose tools the baseline pins has the definition it pins, or one accepted.
ApprovedBy(b, s, t, lg, on) ==
  (IF Scanned(b, s, t) THEN {b.world.tools[s][t]}
   ELSE {d \in Definition : \E p \in Pins(b, s) : p.tool = t /\ p.seal = Seal[d]})
    \cup {acc.digest : acc \in {a \in lg : a.server = s /\ a.tool = t /\ on <= a.expires}}

\* What is left of the details of a tool when two of them are compared.
LEMMA AlignedTools ==
  ASSUME NEW k, Kind(k) = "tool", NEW def, NEW before
  PROVE  LET pair == Aligned(k, before, ToolFact(def))
         IN  /\ \A was : /\ before \in {ToolFact(was), Without(ToolFact(was), {"mcpseal"})}
                         /\ pair.before = pair.after
                        => was = def
             /\ \A p : before = PinFact(p) =>
                    /\ pair.before = pair.after => p.seal = Seal[def]
                    /\ "digest" \notin DOMAIN pair.after
  <1> DEFINE after == ToolFact(def)
             pair == Aligned(k, before, after)
             common == CompatOptional \ (DOMAIN before \cap DOMAIN after)
  <1>1. Comparable(k, before) = before /\ Comparable(k, after) = after
    BY DEF Comparable
  <1>2. "provenance" \notin DOMAIN after /\ "digest" \in DOMAIN after /\ after["digest"] = def
        /\ "mcpseal" \in DOMAIN after /\ after["mcpseal"] = Seal[def]
    BY DEF ToolFact
  <1>3. ASSUME NEW was, before \in {ToolFact(was), Without(ToolFact(was), {"mcpseal"})},
               pair.before = pair.after
        PROVE  was = def
    <2>1. "provenance" \notin DOMAIN before /\ "digest" \in DOMAIN before /\ before["digest"] = was
      BY <1>3 DEF ToolFact, Without, Restrict
    <2> HIDE DEF after
    <2>2. Without(before, common) = Without(after, common)
      BY <1>1, <1>2, <1>3, <2>1 DEF Aligned, Imported, pair
    <2>3. /\ Without(before, common)["digest"] = before["digest"]
          /\ Without(after, common)["digest"] = after["digest"]
      BY <1>2, <2>1 DEF Without, Restrict, CompatOptional
    <2> QED BY <1>2, <2>1, <2>2, <2>3
  <1>4. ASSUME NEW p, before = PinFact(p)
        PROVE  /\ pair.before = pair.after => p.seal = Seal[def]
               /\ "digest" \notin DOMAIN pair.after
    <2>1. DOMAIN before = {"mcpseal", "provenance"} /\ before["mcpseal"] = p.seal
      BY <1>4 DEF PinFact
    <2> HIDE DEF after
    <2>2. /\ pair.before = Restrict(before, DOMAIN before \cap {"mcpseal"})
          /\ pair.after = Restrict(after, DOMAIN after \cap {"mcpseal"})
      BY <1>1, <2>1 DEF Aligned, Imported, pair
    <2>3. pair.before["mcpseal"] = p.seal /\ pair.after["mcpseal"] = Seal[def]
      BY <1>2, <2>1, <2>2 DEF Restrict
    <2>4. DOMAIN pair.after \subseteq {"mcpseal"}
      BY <2>2 DEF Restrict
    <2> QED BY <2>3, <2>4
  <1> QED BY <1>3, <1>4 DEF pair, after

\* A tool that passes is one the baseline or an acceptance in force approves.
LEMMA ToolsVouched ==
  ASSUME NEW b, NEW w, NEW lost, NEW lg, NEW on, Passes(b, w, lost, lg, on), on \in Nat,
         \A acc \in lg : acc.expires \in Nat,
         NEW s \in Live, PinsTools(b, s), s \in Inspected(lost, Live), NEW t \in Kept(w, lost, s)
  PROVE  w.tools[s][t] \in ApprovedBy(b, s, t, lg, on)
  <1> DEFINE old == Facts(b)
             new == Snapshot(w, lost, Live)
             k == ToolKey(s, t)
             def == w.tools[s][t]
             accepted == {acc.digest : acc \in {a \in lg : a.server = s /\ a.tool = t /\ on <= a.expires}}
  <1>1. k \in DOMAIN new /\ new[k] = ToolFact(def)
    BY SnapshotKeys, SnapshotFacts
  <1>2. Kind(k) = "tool" /\ k[2] = s /\ k = ToolKey(s, t)
    BY DEF Kind, ToolKey
  <1>3. Clean(old, new, lg, on) /\ KeepsTools(b, old) /\ KeepsServers(b, old)
    BY BaselineFacts DEF Passes
  <1>4. def \in Definition
    BY WorldTypes DEF Passes, Kept
  <1>5. \A acc \in lg : \A detail :
          Waives(acc, Entry(k, "regression", detail), on) =>
            /\ "digest" \in DOMAIN detail
            /\ detail = ToolFact(def) \/ detail.digest = def => def \in accepted
    <2> TAKE acc \in lg
    <2> TAKE detail
    <2> HAVE Waives(acc, Entry(k, "regression", detail), on)
    <2>1. /\ k = ToolKey(acc.server, acc.tool) /\ "digest" \in DOMAIN detail
          /\ detail.digest = acc.digest /\ ~Lapsed(acc, on)
      BY OnlyToolsWaived
    <2>2. acc.server = s /\ acc.tool = t /\ on <= acc.expires
      BY <2>1 DEF ToolKey, Lapsed
    <2>3. ToolFact(def).digest = def
      BY DEF ToolFact
    <2> QED BY <2>1, <2>2, <2>3
  <1>6. CASE k \notin DOMAIN old
    <2>1. ServerKey(s) \in DOMAIN old /\ "tool_identity" \notin DOMAIN old[ServerKey(s)]
      <3>1. CASE s \in Servers(b.world, b.lost, b.live)
        <4>1. b.era \in {"current", "unsealed"}
          BY DEF PinsTools
        <4>2. ServerSeen(b, s) = Plain(Failed(s) \notin b.lost, Dark(b.lost, s))
          BY <4>1, LiveServerSeen DEF Passes
        <4> QED BY <1>3, <3>1, <4>1, <4>2 DEF KeepsServers, Plain
      <3>2. CASE s \notin Servers(b.world, b.lost, b.live)
        <4>1. Pins(b, s) # {}
          BY <3>2 DEF PinsTools, Servers
        <4> QED BY <1>3, <3>2, <4>1 DEF KeepsServers, Plain
      <3> QED BY <3>1, <3>2
    <2>2. AddedIsRegression(old, k, new[k])
      BY <1>2, <2>1 DEF AddedIsRegression, PinnedTools
    <2>3. Comparable(k, new[k]) = ToolFact(def)
      BY <1>1, <1>2 DEF Comparable
    <2> HIDE DEF old, new, k, def, accepted
    <2>4. PICK acc \in lg : Waives(acc, Entry(k, "regression", Comparable(k, new[k])), on)
      BY <1>1, <1>3, <1>6, <2>2, CleanAdded
    <2>5. def \in accepted
      BY <1>5, <2>3, <2>4
    <2> QED BY <2>5 DEF ApprovedBy, def, accepted
  <1>7. CASE k \in DOMAIN old
    <2> DEFINE pair == Aligned(k, old[k], ToolFact(def))
    <2>1. pair.before # pair.after =>
            \E acc \in lg : Waives(acc, Entry(k, "regression", pair.after), on)
      <3>1. Direction(k, old[k], new[k]) = "regression"
        BY <1>2 DEF Direction
      <3> HIDE DEF old, new, k, def
      <3> QED BY <1>1, <1>3, <1>7, <3>1, CleanChanged
    <2>2. CASE Scanned(b, s, t) /\ old[k] \in ToolSeen(b, s, t)
      <3> DEFINE was == b.world.tools[s][t]
      <3>1. pair.before = pair.after => was = def
        BY <1>2, <2>2, AlignedTools DEF ToolSeen
      <3>2. CASE pair.before = pair.after
        BY <2>2, <3>1, <3>2 DEF ApprovedBy
      <3>3. CASE pair.before # pair.after
        <4>1. pair.after.digest = def
          <5>1. /\ "provenance" \notin DOMAIN old[k] /\ "provenance" \notin DOMAIN ToolFact(def)
            BY <2>2 DEF ToolSeen, ToolFact, Without, Restrict
          <5>2. Comparable(k, ToolFact(def)) = ToolFact(def)
            BY <1>2 DEF Comparable
          <5>3. "digest" \in DOMAIN ToolFact(def) /\ ToolFact(def)["digest"] = def
            BY DEF ToolFact
          <5> HIDE DEF old, k, def
          <5>4. \E dropped \in SUBSET CompatOptional : pair.after = Without(ToolFact(def), dropped)
            BY <1>2, <5>1, <5>2 DEF Aligned, Imported
          <5> QED BY <5>3, <5>4 DEF Without, Restrict, CompatOptional
        <4> HIDE DEF pair, accepted, k, def
        <4>2. def \in accepted
          BY <1>5, <2>1, <3>3, <4>1
        <4> QED BY <4>2 DEF ApprovedBy, accepted, def
      <3> QED BY <3>2, <3>3
    <2>3. ASSUME NEW p \in Pins(b, s), ~Scanned(b, s, t), p.tool = t, old[k] = PinFact(p)
          PROVE  def \in ApprovedBy(b, s, t, lg, on)
      <3>1. /\ pair.before = pair.after => p.seal = Seal[def]
            /\ "digest" \notin DOMAIN pair.after
        BY <1>2, <2>3, AlignedTools
      <3>2. pair.before = pair.after
        <4> HIDE DEF pair, k, def, old, accepted
        <4> QED BY <1>5, <2>1, <3>1
      <3> QED BY <1>4, <2>3, <3>1, <3>2 DEF ApprovedBy
    <2> QED BY <1>3, <1>7, <2>2, <2>3 DEF KeepsTools
  <1> QED BY <1>6, <1>7

\* A server declared in a config both scans could read has the identity it had.
LEMMA LaunchVouched ==
  ASSUME NEW b, NEW w, NEW lost, NEW lg, NEW on, Passes(b, w, lost, lg, on), b.era # "first",
         NEW d \in Read(w, lost), d \in Read(b.world, b.lost)
  PROVE  Identity[w.decls[d].launch] = Identity[b.world.decls[d].launch]
  <1>1. d \in Decl /\ d \notin Live
    BY PostureAssumption DEF Read, Declared
  <1>2. d \in Servers(w, lost, Live) /\ d \in Servers(b.world, b.lost, b.live)
    BY DEF Servers
  <1>3. /\ ServerFact(w, lost, d).tool_identity = Identity[w.decls[d].launch]
        /\ "tool_identity" \in DOMAIN ServerFact(w, lost, d)
    BY <1>1, DeclaredFact
  <1>4. /\ ServerFact(b.world, b.lost, d).tool_identity = Identity[b.world.decls[d].launch]
        /\ "tool_identity" \in DOMAIN ServerFact(b.world, b.lost, d)
    BY <1>1, DeclaredFact
  <1>5. ServerSeen(b, d) = ServerFact(b.world, b.lost, d)
    BY <1>1 DEF ServerSeen, ServerWritten
  <1>6. ServerKey(d) \in DOMAIN Facts(b) /\ Facts(b)[ServerKey(d)] = ServerSeen(b, d)
    BY <1>1, <1>2, BaselineFacts DEF KeepsServers, Passes
  <1>7. ~IdentityChanged(ServerSeen(b, d), ServerFact(w, lost, d))
    BY <1>2, <1>6, ServerVouched
  <1> QED BY <1>3, <1>4, <1>5, <1>7 DEF IdentityChanged

-----------------------------------------------------------------------------
(* A machine that has less.                                                 *)

Unmoved(b, w) ==
  /\ WellMade(b) /\ w \in World /\ b.lost = {} /\ b.live = Live /\ Less(w, b.world)
  /\ b.era = "first" => \A s \in Live, t \in Tool : w.tools[s][t] \notin Poisoned

\* All is seen by a scan that loses nothing.
LEMMA AllSeen ==
  ASSUME NEW w \in World
  PROVE  /\ Servers(w, {}, Live) = Live \cup Declared(w) \cup w.listening
         /\ Inspected({}, Live) = Live
         /\ \A s \in Live : ~Dark({}, s) /\ Kept(w, {}, s) = {t \in Tool : w.tools[s][t] # NoTool}
  BY DEF Servers, Inspected, Read, Shown, Dark, Kept

\* A machine that has less has no server more.
LEMMA LessServers ==
  ASSUME NEW b, NEW w, Unmoved(b, w)
  PROVE  /\ Servers(w, {}, Live) \subseteq Servers(b.world, b.lost, b.live)
         /\ \A s \in Live, t \in Tool : t \in Kept(w, {}, s) =>
              Scanned(b, s, t) /\ w.tools[s][t] = b.world.tools[s][t]
         /\ \A s \in Live : Inspected({}, Live) = Live
  BY BaselineTypes, AllSeen DEF Unmoved, Less, Scanned

\* A machine that has less has no finding more.
LEMMA LessFindings ==
  ASSUME NEW b, NEW w, Unmoved(b, w), NEW s \in Servers(w, {}, Live), NEW r \in RulesOf(w, {}, s)
  PROVE  FindingKey(s, r) \in DOMAIN Facts(b)
  <1>1. s \in Servers(b.world, {}, Live) /\ b.world \in World /\ w \in World
    BY LessServers, BaselineTypes DEF Unmoved
  <1>2. CASE s \in Live
    <2>1. /\ r = "LIVE-TOOL-INJECTION-TEXT"
          /\ \E t \in Kept(w, {}, s) : w.tools[s][t] \in Poisoned
      BY <1>1, <1>2, AllSeen, LiveRules
    <2>2. PICK t \in Tool : t \in Kept(w, {}, s) /\ w.tools[s][t] \in Poisoned
      BY <2>1 DEF Kept
    <2>3. b.era # "first"
      BY <1>2, <2>2 DEF Unmoved
    <2>4. t \in Kept(b.world, {}, s) /\ b.world.tools[s][t] \in Poisoned
      <3>1. Scanned(b, s, t) /\ w.tools[s][t] = b.world.tools[s][t]
        BY <1>2, <2>2, LessServers
      <3>2. t \in Kept(b.world, b.lost, s) /\ b.lost = {}
        BY <3>1 DEF Scanned, Unmoved
      <3> QED BY <2>2, <3>1, <3>2
    <2>5. r \in RulesOf(b.world, {}, s)
      BY <1>1, <1>2, <2>1, <2>4, AllSeen, LiveRules
    <2> QED BY <1>1, <2>3, <2>5, BaselineFacts DEF KeepsFindings, Unmoved
  <1>3. CASE s \in Declared(w)
    <2>1. s \in Decl /\ s \notin Live /\ s \in Declared(b.world)
      BY <1>3, PostureAssumption DEF Declared, Unmoved, Less
    <2>2. r \in Rule /\ w.decls[s].flaws[r] # <<>>
      BY <2>1, DeclaredRules
    <2>3. /\ w.decls[s].flaws[r] \in Flaws /\ b.world.decls[s].flaws[r] \in Flaws
          /\ Len(w.decls[s].flaws[r]) <= Len(b.world.decls[s].flaws[r])
      BY <1>1, <1>3, <2>1, <2>2, WorldTypes DEF Unmoved, Less
    <2>4. b.world.decls[s].flaws[r] # <<>>
      <3>1. PICK seq : seq = w.decls[s].flaws[r]
        OBVIOUS
      <3>2. PICK n \in Nat : seq \in [1..n -> Severity]
        BY <2>3, <3>1, PostureAssumption DEF Flaws
      <3>3. Len(seq) # 0
        BY <2>2, <3>1, <3>2
      <3>4. Len(seq) \in Nat
        BY <3>2
      <3> QED BY <2>3, <3>1, <3>3, <3>4
    <2>5. r \in RulesOf(b.world, {}, s)
      BY <2>1, <2>2, <2>4, DeclaredRules
    <2> QED BY <1>1, <2>1, <2>5, BaselineFacts DEF KeepsFindings, Unmoved
  <1>4. CASE s \in w.listening
    <2>1. s \in Listener /\ s \notin Live
      BY <1>1, <1>4, WorldTypes, PostureAssumption
    <2>2. r \in RulesOf(b.world, {}, s)
      BY <2>1, ListenerRules
    <2> QED BY <1>1, <2>1, <2>2, BaselineFacts DEF KeepsFindings, Unmoved
  <1> QED BY <1>1, <1>2, <1>3, <1>4, AllSeen

\* The tools of a machine that has less are those of the baseline, or the baseline keeps none.
LEMMA LessTools ==
  ASSUME NEW b, NEW w, Unmoved(b, w), NEW s \in Live, NEW t \in Kept(w, {}, s)
  PROVE  LET old == Facts(b)
             k == ToolKey(s, t)
             after == ToolFact(w.tools[s][t])
         IN  /\ k \notin DOMAIN old => ~AddedIsRegression(old, k, after)
             /\ k \in DOMAIN old => Aligned(k, old[k], after).before = Aligned(k, old[k], after).after
  <1> DEFINE old == Facts(b)
             k == ToolKey(s, t)
             def == w.tools[s][t]
             after == ToolFact(def)
  <1>1. Kind(k) = "tool" /\ k[2] = s
    BY DEF Kind, ToolKey
  <1>2. Scanned(b, s, t) /\ def = b.world.tools[s][t]
    BY LessServers DEF Kept
  <1>3. KeepsTools(b, old) /\ KeepsServers(b, old)
    BY BaselineFacts DEF Unmoved
  <1>4. ASSUME k \notin DOMAIN old
        PROVE  ~AddedIsRegression(old, k, after)
    <2>1. b.era = "manifest" \/ (b.era = "first" /\ s \in Live)
      BY <1>2, <1>3, <1>4 DEF KeepsTools
    <2>2. CASE b.era = "first"
      <3>1. ServerKey(s) \notin DOMAIN old
        BY <1>3, <2>2 DEF KeepsServers
      <3> QED BY <1>1, <3>1 DEF AddedIsRegression, PinnedTools
    <2>3. CASE b.era = "manifest"
      <3>1. ~b.imported
        BY <2>3 DEF Unmoved, WellMade
      <3>2. Pins(b, s) = {}
        BY <3>1 DEF Pins
      <3>3. \A u \in Tool : ToolKey(s, u) \notin DOMAIN old
        BY <1>3, <2>3, <3>2 DEF KeepsTools
      <3>4. ServerKey(s) \in DOMAIN old => "tool_identity" \in DOMAIN old[ServerKey(s)]
        <4>1. ServerKey(s) \in DOMAIN old => old[ServerKey(s)] = ServerSeen(b, s)
          BY <1>3, <2>3, <3>2 DEF KeepsServers
        <4>2. "tool_identity" \in DOMAIN ServerSeen(b, s)
          BY <2>3 DEF ServerSeen, ServerWritten
        <4> QED BY <4>1, <4>2
      <3> HIDE DEF old, k, after
      <3> QED BY <1>1, <3>3, <3>4 DEF AddedIsRegression, PinnedTools
    <2> QED BY <2>1, <2>2, <2>3
  <1>5. ASSUME k \in DOMAIN old
        PROVE  Aligned(k, old[k], after).before = Aligned(k, old[k], after).after
    <2>1. old[k] \in ToolSeen(b, s, t)
      BY <1>2, <1>3, <1>5 DEF KeepsTools
    <2>2. old[k] = after \/ old[k] = Without(after, {"mcpseal"})
      BY <1>2, <2>1 DEF ToolSeen
    <2>3. DOMAIN after = {"digest", "mcpseal"}
      BY DEF ToolFact
    <2> HIDE DEF old, k, after
    <2>4. /\ "provenance" \notin DOMAIN old[k] /\ "provenance" \notin DOMAIN after
          /\ Comparable(k, old[k]) = old[k] /\ Comparable(k, after) = after
      BY <1>1, <2>2, <2>3 DEF Without, Restrict, Comparable
    <2>5. LET dropped == CompatOptional \ (DOMAIN old[k] \cap DOMAIN after)
          IN  /\ Aligned(k, old[k], after).before = Without(old[k], dropped)
              /\ Aligned(k, old[k], after).after = Without(after, dropped)
      BY <2>4 DEF Aligned, Imported
    <2>6. CASE old[k] = after
      BY <2>5, <2>6
    <2>7. CASE old[k] = Without(after, {"mcpseal"})
      <3> DEFINE was == old[k]
                 dropped == CompatOptional \ (DOMAIN was \cap DOMAIN after)
      <3>1. DOMAIN was = {"digest"} /\ was["digest"] = after["digest"]
        BY <2>3, <2>7 DEF Without, Restrict
      <3>2. "digest" \notin dropped /\ "mcpseal" \in dropped
        BY <2>3, <3>1 DEF CompatOptional
      <3> HIDE DEF was, dropped
      <3>3. Without(was, dropped) = [n \in {"digest"} |-> after["digest"]]
        BY <3>1, <3>2 DEF Without, Restrict
      <3>4. Without(after, dropped) = [n \in {"digest"} |-> after["digest"]]
        BY <2>3, <3>2 DEF Without, Restrict
      <3> QED BY <2>5, <3>3, <3>4 DEF was, dropped
    <2> QED BY <2>2, <2>6, <2>7
  <1> QED BY <1>4, <1>5

\* Its servers were there, as exposed, as visible and with the identity they have.
LEMMA LessOfServers ==
  ASSUME NEW b, NEW w, Unmoved(b, w), NEW s \in Servers(w, {}, Live)
  PROVE  LET old == Facts(b)
             k == ServerKey(s)
             after == ServerFact(w, {}, s)
         IN  /\ k \notin DOMAIN old => ~AddedIsRegression(old, k, after)
             /\ k \in DOMAIN old => ServerDirection(old[k], after) # "regression"
  <1> DEFINE old == Facts(b)
             k == ServerKey(s)
             after == ServerFact(w, {}, s)
             whole == ServerFact(b.world, {}, s)
  <1>1. Kind(k) = "server"
    BY DEF Kind, ServerKey
  <1>2. /\ s \in Servers(b.world, b.lost, b.live) /\ b.era \in Eras
        /\ b.lost = {} /\ b.world \in World /\ w \in World
    BY LessServers, BaselineTypes DEF Unmoved
  <1>3. /\ (b.era = "first" => s \notin Live) => k \in DOMAIN old
        /\ k \in DOMAIN old => old[k] = ServerSeen(b, s) /\ (b.era = "first" => s \notin Live)
    BY <1>2, BaselineFacts DEF KeepsServers, Unmoved
  <1>4. CASE s \in Live
    <2>1. after = Plain(TRUE, FALSE)
      <3>1. Dark({}, s) = FALSE /\ (Failed(s) \notin {}) = TRUE
        BY DEF Dark
      <3> QED BY <1>4, <3>1, LiveFact
    <2>2. after = [running |-> TRUE, exposure |-> "local", inspection_incomplete |-> FALSE]
      BY <2>1 DEF Plain
    <2>3. ~AddedIsRegression(old, k, after)
      BY <1>1, <2>2 DEF AddedIsRegression, Exposed
    <2>4. ASSUME k \in DOMAIN old
          PROVE  ServerDirection(old[k], after) # "regression"
      <3>1. /\ ~Incomplete(after) /\ ~Exposed(after) /\ "tool_identity" \notin DOMAIN after
        BY <2>2 DEF Incomplete, ValueOr, Exposed
      <3> HIDE DEF after
      <3> QED BY <3>1 DEF ServerDirection, IdentityChanged
    <2> QED BY <2>3, <2>4
  <1>5. CASE s \in Declared(w)
    <2>1. /\ s \in Decl /\ s \notin Live
          /\ Identity[w.decls[s].launch] = Identity[b.world.decls[s].launch]
      BY <1>5, Apart DEF Declared, Unmoved, Less
    <2>2. /\ after = [running |-> FALSE, exposure |-> "local", inspection_incomplete |-> FALSE,
                      tool_identity |-> Identity[w.decls[s].launch]]
          /\ whole = after
      BY <2>1, DeclaredFact
    <2>3. k \in DOMAIN old
      BY <1>3, <2>1
    <2>4. old[k] = after \/ old[k] = Without(after, {"tool_identity", "inspection_incomplete"})
      BY <1>2, <1>3, <2>1, <2>2, <2>3 DEF ServerSeen, ServerWritten
    <2>5. ~Incomplete(after) /\ ~Exposed(after)
      BY <2>2 DEF Incomplete, ValueOr, Exposed
    <2>6. ~IdentityChanged(old[k], after)
      <3> HIDE DEF old, k, after
      <3> QED BY <2>4 DEF IdentityChanged, Without, Restrict
    <2> QED BY <2>3, <2>5, <2>6 DEF ServerDirection
  <1>6. CASE s \in w.listening
    <2>1. s \in Listener /\ s \notin Live
      BY <1>2, <1>6, WorldTypes, Apart
    <2>2. Partial({}) = FALSE
      BY DEF Partial
    <2>3. /\ after = [running |-> TRUE, exposure |-> "exposed", inspection_incomplete |-> FALSE]
          /\ whole = after
      BY <2>1, <2>2, ListenerFact
    <2>4. k \in DOMAIN old
      BY <1>3, <2>1
    <2>5. old[k] = after \/ old[k] = Without(after, {"tool_identity", "inspection_incomplete"})
      BY <1>2, <1>3, <2>1, <2>3, <2>4 DEF ServerSeen, ServerWritten
    <2>6. ~Incomplete(after) /\ "tool_identity" \notin DOMAIN after /\ "exposure" \in DOMAIN after
      BY <2>3 DEF Incomplete, ValueOr
    <2>7. Exposed(old[k]) <=> Exposed(after)
      <3> HIDE DEF old, k, after
      <3> QED BY <2>5, <2>6 DEF Exposed, Without, Restrict
    <2>8. ~IdentityChanged(old[k], after)
      BY <2>6 DEF IdentityChanged
    <2>9. ServerDirection(old[k], after) # "regression"
      <3> HIDE DEF after, old, k
      <3> QED BY <2>6, <2>7, <2>8 DEF ServerDirection
    <2> QED BY <2>4, <2>9
  <1> QED BY <1>2, <1>4, <1>5, <1>6, AllSeen

\* So no entry of the diff is a regression, whatever the ledger says.
LEMMA LessIsClean ==
  ASSUME NEW b, NEW w, Unmoved(b, w), NEW lg, NEW on
  PROVE  Clean(Facts(b), Snapshot(w, {}, Live), lg, on)
  <1> DEFINE old == Facts(b)
             new == Snapshot(w, {}, Live)
  <1>1. \A k \in DOMAIN new : \/ \E s : k = ServerKey(s)
                              \/ \E s, r : k = FindingKey(s, r)
                              \/ \E s, t : k = ToolKey(s, t)
    BY SnapshotKeys
  <1>2. w \in World
    BY DEF Unmoved
  <1>3. ASSUME NEW k \in DOMAIN new
        PROVE  /\ k \notin DOMAIN old => ~AddedIsRegression(old, k, new[k])
               /\ k \in DOMAIN old => \/ Direction(k, old[k], new[k]) # "regression"
                                      \/ LET pair == Aligned(k, old[k], new[k])
                                         IN  pair.before = pair.after
    <2>1. CASE \E s : k = ServerKey(s)
      <3>1. PICK s : k = ServerKey(s)
        BY <2>1
      <3>2. s \in Servers(w, {}, Live) /\ new[k] = ServerFact(w, {}, s)
        BY <3>1, SnapshotKeys, SnapshotFacts
      <3>3. Kind(k) = "server"
        BY <3>1 DEF Kind, ServerKey
      <3>4. /\ k \notin DOMAIN old => ~AddedIsRegression(old, k, new[k])
            /\ k \in DOMAIN old => ServerDirection(old[k], new[k]) # "regression"
        BY <3>1, <3>2, LessOfServers
      <3> HIDE DEF old, new
      <3> QED BY <3>3, <3>4 DEF Direction
    <2>2. CASE \E s, r : k = FindingKey(s, r)
      <3>1. PICK s, r : k = FindingKey(s, r)
        BY <2>2
      <3>2. k \in DOMAIN old
        BY <3>1, SnapshotKeys, LessFindings
      <3>3. Kind(k) = "finding"
        BY <3>1 DEF Kind, FindingKey
      <3> HIDE DEF old, new
      <3> QED BY <3>2, <3>3 DEF Direction
    <2>3. CASE \E s, t : k = ToolKey(s, t)
      <3>1. PICK s, t : k = ToolKey(s, t)
        BY <2>3
      <3>2. s \in Live /\ t \in Kept(w, {}, s) /\ new[k] = ToolFact(w.tools[s][t])
        BY <3>1, <1>2, SnapshotKeys, SnapshotFacts, AllSeen
      <3> QED BY <3>1, <3>2, LessTools
    <2> QED BY <1>1, <2>1, <2>2, <2>3
  <1> HIDE DEF old, new
  <1>4. ASSUME NEW e \in Diff(old, new) PROVE e.direction # "regression"
    <2>1. CASE e \in Added(old, new)
      BY <1>3, <2>1 DEF Added, Entry
    <2>2. CASE e \in Removed(old, new)
      BY <2>2 DEF Removed, Entry
    <2>3. CASE e \in Changed(old, new)
      BY <1>3, <2>3 DEF Changed, Entry
    <2> QED BY <2>1, <2>2, <2>3 DEF Diff
  <1>5. Clean(old, new, lg, on)
    BY <1>4 DEF Clean, Regressions
  <1> QED BY <1>5 DEF old, new

-----------------------------------------------------------------------------
(* The two commands.                                                        *)

\* A verdict is that of its diff: a pass had no regression the ledger did not accept then, and
\* none that a longer ledger does not; a failure had one, or a baseline too old.
Verdict(b, w, lost) ==
  /\ exit = 0 => /\ Clean(Facts(b), Snapshot(w, lost, Live), ledger, today)
                 /\ ~(FailOnStale /\ Stale(b, began))
  /\ exit = 1 => \/ ~Clean(Facts(b), Snapshot(w, lost, Live), {}, today)
                 \/ FailOnStale /\ Stale(b, began)

Judgement ==
  /\ gate = "idle" => exit = 0
  /\ gate = "scan" => exit = 0 /\ held \in Baselines
  /\ Judged => held \in Baselines /\ current \in Scans
              /\ Verdict(held, current.world, current.lost)

\* Whatever a command holds or has written was made by one scan; and the ledger is finite.
Pedigree ==
  /\ IsFiniteSet(ledger)
  /\ writer \in {"open", "write"} => draft \in Baselines
  /\ \A b \in {baseline, draft, held} : b \in Baselines => WellMade(b)

IInv == TypeOK /\ Judgement /\ Pedigree

\* A longer ledger leaves no more regressions.
LEMMA LedgerGrows ==
  ASSUME NEW old, NEW new, NEW on, NEW lg, NEW more, lg \subseteq more, Clean(old, new, lg, on)
  PROVE  Clean(old, new, more, on)
  BY DEF Clean, Regressions

\* The file that is not there is no baseline.
LEMMA NothingIsNoBaseline ==
  Nothing \notin Baselines
  BY DEF Nothing, Baselines

\* There is neither a baseline nor a verdict at first.
THEOREM Initialization == Init => IInv
  <1> SUFFICES ASSUME Init PROVE IInv
    OBVIOUS
  <1>1. 0 \in 0..MaxDay /\ 0 \in 0..MaxChanges /\ Cardinality({}) = 0 /\ MaxAcceptances >= 0
    BY DriftAssumption, FS_EmptySet
  <1>2. TypeOK
    BY <1>1, DriftAssumption DEF Init, TypeOK
  <1>3. Judgement /\ Pedigree
    BY NothingIsNoBaseline, FS_EmptySet DEF Init, Judgement, Judged, Pedigree
  <1> QED BY <1>2, <1>3 DEF IInv

\* The machine moves: no command sees it before its next scan.
LEMMA ChangeStep ==
  IInv /\ Change => IInv'
  <1> SUFFICES ASSUME IInv, Change PROVE IInv'
    OBVIOUS
  <1>1. world' \in World
    <2>1. CASE \E s \in Live, t \in Tool, d \in Definition \cup {NoTool} :
                 world' = [world EXCEPT !.tools[s][t] = d]
      <3>1. PICK s \in Live, t \in Tool, d \in Definition \cup {NoTool} :
              world' = [world EXCEPT !.tools[s][t] = d]
        BY <2>1
      <3>2. world \in World
        BY DEF IInv, TypeOK
      <3> DEFINE tools == [world.tools EXCEPT ![s] = [world.tools[s] EXCEPT ![t] = d]]
      <3>3. world' = [tools |-> tools, decls |-> world.decls, listening |-> world.listening]
        BY <3>1, <3>2 DEF World
      <3>4. tools \in [Live -> [Tool -> Definition \cup {NoTool}]]
        BY <3>2 DEF World
      <3> HIDE DEF tools
      <3> QED BY <3>2, <3>3, <3>4 DEF World
    <2>2. CASE \E d \in Decl, new \in Declaration \cup {NoDecl} :
                 world' = [world EXCEPT !.decls[d] = new]
      BY <2>2 DEF IInv, TypeOK, World
    <2>3. CASE \E l \in Listener :
                 world' = [world EXCEPT !.listening = (@ \ {l}) \cup ({l} \ @)]
      BY <2>3 DEF IInv, TypeOK, World
    <2> QED BY <2>1, <2>2, <2>3 DEF Change
  <1>2. changes' \in 0..MaxChanges
    BY DriftAssumption DEF Change, IInv, TypeOK
  <1> USE DEF Change, files, writing, gating
  <1>3. TypeOK'
    BY <1>1, <1>2 DEF IInv, TypeOK
  <1>4. Judgement' /\ Pedigree'
    BY DEF IInv, Judgement, Judged, Verdict, Pedigree
  <1> QED BY <1>3, <1>4 DEF IInv

\* The day turns.
LEMMA NextDayStep ==
  IInv /\ NextDay => IInv'
  <1> SUFFICES ASSUME IInv, NextDay PROVE IInv'
    OBVIOUS
  <1> USE DEF NextDay, files, writing, gating
  <1>1. TypeOK'
    BY DriftAssumption DEF IInv, TypeOK
  <1>2. Judgement' /\ Pedigree'
    BY DEF IInv, Judgement, Judged, Verdict, Pedigree
  <1> QED BY <1>1, <1>2 DEF IInv

\* An acceptance that comes after a verdict cannot take the pass back.
LEMMA AcceptStep ==
  IInv /\ Accept => IInv'
  <1> SUFFICES ASSUME IInv, Accept PROVE IInv'
    OBVIOUS
  <1>1. PICK s \in Live, t \in Tool, last \in day..MaxDay :
          /\ world.tools[s][t] # NoTool
          /\ ledger' = ledger \cup {[server |-> s, tool |-> t, digest |-> world.tools[s][t],
                                    expires |-> last]}
    BY DEF Accept
  <1> DEFINE acc == [server |-> s, tool |-> t, digest |-> world.tools[s][t], expires |-> last]
  <1>2. acc \in Acceptances
    <2>1. world.tools[s][t] \in Definition
      BY <1>1, WorldTypes DEF IInv, TypeOK
    <2>2. last \in 0..MaxDay
      BY DriftAssumption DEF IInv, TypeOK
    <2> QED BY <2>1, <2>2 DEF Acceptances
  <1> HIDE DEF acc
  <1>3. IsFiniteSet(ledger) /\ ledger' = ledger \cup {acc} /\ Cardinality(ledger) < MaxAcceptances
    BY <1>1 DEF acc, Accept, IInv, Pedigree
  <1>4. IsFiniteSet(ledger') /\ Cardinality(ledger') <= MaxAcceptances
    <2>1. Cardinality(ledger) \in Nat
      BY <1>3, FS_CardinalityType
    <2>2. IsFiniteSet(ledger \cup {acc})
          /\ \/ Cardinality(ledger \cup {acc}) = Cardinality(ledger)
             \/ Cardinality(ledger \cup {acc}) = Cardinality(ledger) + 1
      BY <1>3, FS_AddElement
    <2> QED BY <1>3, <2>1, <2>2, DriftAssumption
  <1> USE DEF Accept, machine, writing, gating
  <1>5. TypeOK'
    BY <1>2, <1>3, <1>4 DEF IInv, TypeOK
  <1>6. ledger \subseteq ledger'
    BY <1>3
  <1>7. \A b, w, lost : Verdict(b, w, lost) => Verdict(b, w, lost)'
    BY <1>6, LedgerGrows DEF Verdict
  <1>8. Judgement'
    BY <1>7 DEF IInv, Judgement, Judged
  <1>9. Pedigree'
    BY <1>4 DEF IInv, Pedigree
  <1> QED BY <1>5, <1>8, <1>9 DEF IInv

\* A scan for a baseline ends.
LEMMA BaselineStep ==
  ASSUME NEW lost \in Losts, NEW live \in {Live, {}}, NEW era \in Eras, NEW imported \in BOOLEAN,
         IInv, Baseline(lost, live, era, imported)
  PROVE  IInv'
  <1> USE DEF Baseline, machine, files, gating
  <1>1. baseline.no + 1 \in 1..MaxBaselines
    <2>1. baseline.no \in 0..MaxBaselines
      BY DriftAssumption DEF IInv, TypeOK, Nothing, Baselines
    <2> QED BY <2>1, DriftAssumption
  <1>2. WellMade(draft') 
    BY <1>1 DEF WellMade, Baselines, IInv, TypeOK
  <1>3. TypeOK'
    BY <1>2 DEF IInv, TypeOK, WellMade
  <1>4. Judgement'
    BY DEF IInv, Judgement, Judged, Verdict
  <1>5. Pedigree'
    BY <1>2 DEF IInv, Pedigree, WellMade
  <1> QED BY <1>3, <1>4, <1>5 DEF IInv

\* The baseline's file is truncated.
LEMMA OpenStep ==
  IInv /\ Open => IInv'
  <1> SUFFICES ASSUME IInv, Open PROVE IInv'
    OBVIOUS
  <1> USE DEF Open, machine, gating
  <1>1. WellMade(draft)
    BY DEF IInv, Pedigree
  <1>2. WellMade(baseline')
    BY <1>1 DEF WellMade, Baselines
  <1>3. TypeOK'
    BY <1>2 DEF IInv, TypeOK, WellMade
  <1>4. Judgement'
    BY DEF IInv, Judgement, Judged, Verdict
  <1>5. Pedigree'
    BY <1>1, <1>2 DEF IInv, Pedigree, WellMade
  <1> QED BY <1>3, <1>4, <1>5 DEF IInv

\* The baseline is written.
LEMMA WriteStep ==
  IInv /\ Write => IInv'
  <1> SUFFICES ASSUME IInv, Write PROVE IInv'
    OBVIOUS
  <1> USE DEF Write, machine, gating
  <1>1. TypeOK'
    BY DEF IInv, TypeOK
  <1>2. Judgement'
    BY DEF IInv, Judgement, Judged, Verdict
  <1>3. Pedigree'
    BY NothingIsNoBaseline DEF IInv, Pedigree
  <1> QED BY <1>1, <1>2, <1>3 DEF IInv

\* The command that writes it is killed.
LEMMA KilledStep ==
  IInv /\ Killed => IInv'
  <1> SUFFICES ASSUME IInv, Killed PROVE IInv'
    OBVIOUS
  <1> USE DEF Killed, machine, files, gating
  <1>1. TypeOK'
    BY DEF IInv, TypeOK
  <1>2. Judgement'
    BY DEF IInv, Judgement, Judged, Verdict
  <1>3. Pedigree'
    BY NothingIsNoBaseline DEF IInv, Pedigree
  <1> QED BY <1>1, <1>2, <1>3 DEF IInv

\* The gate takes a baseline that is whole, or ends with the code of a run that cannot judge.
LEMMA ReadBaselineStep ==
  IInv /\ ReadBaseline => IInv'
  <1> SUFFICES ASSUME IInv, ReadBaseline PROVE IInv'
    OBVIOUS
  <1> USE DEF ReadBaseline, machine, files, writing
  <1>1. TypeOK'
    BY DEF IInv, TypeOK
  <1>2. Judgement'
    BY DEF IInv, TypeOK, Judgement, Judged
  <1>3. Pedigree'
    BY DEF IInv, Pedigree
  <1> QED BY <1>1, <1>2, <1>3 DEF IInv

\* The verdict.
LEMMA JudgeStep ==
  ASSUME NEW lost \in Losts, IInv, Judge(lost)
  PROVE  IInv'
  <1> DEFINE new == Snapshot(world, lost, Live)
             late == FailOnStale /\ Stale(held, began)
  <1>1. /\ gate = "scan" /\ gate' = "done" /\ held' = held /\ began' = began /\ ledger' = ledger
        /\ current' = [world |-> world, lost |-> lost] /\ today' = day
        /\ UNCHANGED <<machine, files, writing>>
    BY DEF Judge, files
  <1>2. exit' = IF Regressions(Diff(Facts(held), new), ledger, day) # {} \/ late THEN 1 ELSE 0
    BY DEF Judge
  <1> HIDE DEF new
  <1>3. /\ exit' = 0 => Clean(Facts(held), new, ledger, day) /\ ~late
        /\ exit' = 1 => ~Clean(Facts(held), new, ledger, day) \/ late
    BY <1>2 DEF Clean
  <1>4. ~Clean(Facts(held), new, ledger, day) => ~Clean(Facts(held), new, {}, day)
    BY LedgerGrows
  <1>5. held \in Baselines /\ current' \in Scans
    BY <1>1 DEF IInv, TypeOK, Judgement, Scans
  <1>6. Snapshot(current'.world, current'.lost, Live) = new
    BY <1>1 DEF new
  <1>7. late' <=> late
    BY <1>1 DEF Stale
  <1> HIDE DEF late
  <1>8. Judgement'
    <2>1. /\ exit' = 0 => Clean(Facts(held'), Snapshot(current'.world, current'.lost, Live),
                                ledger', today') /\ ~late'
          /\ exit' = 1 => ~Clean(Facts(held'), Snapshot(current'.world, current'.lost, Live),
                                 {}, today') \/ late'
      BY <1>1, <1>3, <1>4, <1>6, <1>7
    <2>2. Verdict(held, current.world, current.lost)'
      BY <2>1 DEF Verdict, late
    <2> QED BY <1>1, <1>5, <2>2 DEF Judgement, Judged
  <1>9. TypeOK'
    BY <1>1, <1>2, <1>5 DEF IInv, TypeOK, machine, files, writing
  <1>10. Pedigree'
    BY <1>1 DEF IInv, Pedigree, files, writing
  <1> QED BY <1>8, <1>9, <1>10 DEF IInv

\* The verdict is given, and the gate is free for another run.
LEMMA RerunStep ==
  IInv /\ Rerun => IInv'
  <1> SUFFICES ASSUME IInv, Rerun PROVE IInv'
    OBVIOUS
  <1> USE DEF Rerun, machine, files, writing
  <1>1. TypeOK'
    BY DriftAssumption DEF IInv, TypeOK
  <1>2. Judgement'
    BY DEF Judgement, Judged
  <1>3. Pedigree'
    BY NothingIsNoBaseline DEF IInv, Pedigree
  <1> QED BY <1>1, <1>2, <1>3 DEF IInv

\* Stuttering.
LEMMA StutterStep ==
  IInv /\ UNCHANGED vars => IInv'
  BY DEF IInv, TypeOK, Judgement, Judged, Verdict, Pedigree, vars, machine, files, writing, gating

\* The verdict, and the baseline it is about, are what the invariant says, always.
THEOREM Invariance == Spec => []IInv
  <1>1. IInv /\ [Next]_vars => IInv'
    BY ChangeStep, NextDayStep, AcceptStep, BaselineStep, OpenStep, WriteStep, KilledStep,
       ReadBaselineStep, JudgeStep, RerunStep, StutterStep DEF Next
  <1> QED BY <1>1, Initialization, PTL DEF Spec

\* Type correctness.
THEOREM TypeCorrect == Spec => []TypeOK
  <1>1. IInv => TypeOK
    BY DEF IInv
  <1> QED BY <1>1, Invariance, PTL

-----------------------------------------------------------------------------
(* What a verdict means.                                                    *)

\* A gate that ends with 0 has found its comparison clean and its baseline young enough.
LEMMA GreenPasses ==
  ASSUME IInv, Green
  PROVE  /\ Passes(held, current.world, current.lost, ledger, today)
         /\ FailOnStale => began <= held.created + MaxAge
  <1>1. /\ held \in Baselines /\ current \in Scans /\ WellMade(held)
        /\ Clean(Facts(held), Snapshot(current.world, current.lost, Live), ledger, today)
        /\ ~(FailOnStale /\ Stale(held, began))
    BY DEF Green, IInv, Judgement, Judged, Verdict, Pedigree
  <1>2. current.world \in World /\ current.lost \in SUBSET Losses
    BY <1>1 DEF Scans, Losts
  <1>3. began \in Nat /\ held.created \in Nat /\ MaxAge \in Nat
    BY <1>1, BaselineTypes, DriftAssumption DEF IInv, TypeOK
  <1> QED BY <1>1, <1>2, <1>3 DEF Passes, Stale

\* A config the gate's scan could not read fails it, unless the baseline's could not either.
LEMMA UnreadableVouched ==
  ASSUME NEW b, NEW w, NEW lost, NEW lg, NEW on, Passes(b, w, lost, lg, on), Refused \in lost
  PROVE  Refused \in b.lost
  <1>1. ConfigFile \in Servers(w, lost, Live) /\ "CONFIG-UNREADABLE" \in RulesOf(w, lost, ConfigFile)
    BY UnreadableRules DEF Servers
  <1>2. ConfigFile \in Servers(b.world, b.lost, b.live)
    BY <1>1, FindingsVouched
  <1>3. b.live \in SUBSET Live /\ b.world.listening \subseteq Listener
    BY BaselineTypes, WorldTypes DEF Passes
  <1> QED BY <1>2, <1>3, ServersApart

\* A gate that passes has passed only what somebody vouched for.
THEOREM PassMeansVouched == Spec => []GreenMeansVouched
  <1>1. ASSUME IInv, Green
        PROVE  GreenMeansVouched
    <2> DEFINE w == current.world
               lost == current.lost
    <2>1. Passes(held, w, lost, ledger, today)
      BY <1>1, GreenPasses
    <2>2. /\ WellMade(held) /\ w \in World /\ lost \in SUBSET Losses
          /\ held.world \in World /\ held.lost \in SUBSET Losses /\ held.live \in SUBSET Live
      BY <2>1, BaselineTypes DEF Passes
    <2>3. today \in Nat /\ \A acc \in ledger : acc.expires \in Nat
      BY <1>1, DriftAssumption DEF IInv, TypeOK, Acceptances
    <2> HIDE DEF w, lost
    <2>4. ASSUME NEW s \in Live, PinsTools(held, s), NEW t \in Advertised(s)
          PROVE  w.tools[s][t] \in Approved(held, s, t)
      <3>1. t \in Tool /\ w.tools[s][t] # NoTool
        BY <2>4 DEF Advertised, w
      <3>2. s \in Inspected(lost, Live) /\ t \in Kept(w, lost, s)
        <4>1. SUFFICES ASSUME s \in Named, ~(s \in held.live /\ Dark(held.lost, s)),
                              t \notin Kept(w, lost, s)
                       PROVE  FALSE
          BY <2>2, <2>4, NamedInspected DEF Advertised, w, lost
        <4>2. s \in Inspected(lost, Live)
          BY <2>2, <4>1, NamedInspected
        <4>3. Dark(lost, s)
          BY <3>1, <4>1 DEF Kept, Dark
        <4> QED BY <2>1, <2>4, <4>1, <4>2, <4>3, SightVouched
      <3>3. w.tools[s][t] \in ApprovedBy(held, s, t, ledger, today)
        BY <2>1, <2>3, <2>4, <3>2, ToolsVouched
      <3> QED BY <3>3 DEF ApprovedBy, Approved
    <2>5. \A d \in Present : d \in Read(w, lost)
      <3>1. Refused \in lost => Refused \in held.lost
        BY <2>1, UnreadableVouched
      <3> QED BY <3>1 DEF Present, Read, w, lost
    <2>6. ASSUME NEW d \in Present, d \in Read(held.world, held.lost), held.era # "first"
          PROVE  Identity[w.decls[d].launch] = Identity[held.world.decls[d].launch]
      BY <2>1, <2>5, <2>6, LaunchVouched
    <2>7. ASSUME NEW d \in Present, NEW r \in RulesOf(w, {}, d)
          PROVE  d \in Read(held.world, held.lost) /\ r \in RulesOf(held.world, {}, d)
      <3>1. d \in Decl /\ d \in Servers(w, lost, Live)
        BY <2>5 DEF Read, Declared, Servers
      <3>2. r \in RulesOf(w, lost, d)
        BY <2>7, <3>1, DeclaredRules
      <3>3. d \in Servers(held.world, held.lost, held.live) /\ r \in RulesOf(held.world, held.lost, d)
        BY <2>1, <3>1, <3>2, FindingsVouched
      <3>4. held.world.listening \subseteq Listener
        BY <2>2, WorldTypes
      <3>5. d \in Read(held.world, held.lost)
        BY <2>2, <3>1, <3>3, <3>4, ServersApart
      <3> QED BY <3>1, <3>3, <3>5, DeclaredRules
    <2>8. ASSUME NEW l \in Shown(w, lost)
          PROVE  l \in Shown(held.world, held.lost)
      <3>1. l \in Listener /\ l \in Servers(w, lost, Live)
        BY <2>2, <2>8, WorldTypes DEF Shown, Servers
      <3>2. "EXPOSE-BIND" \in RulesOf(w, lost, l)
        BY <3>1, ListenerRules
      <3>3. l \in Servers(held.world, held.lost, held.live)
        BY <2>1, <3>1, <3>2, FindingsVouched
      <3>4. held.world.listening \subseteq Listener
        BY <2>2, WorldTypes
      <3> QED BY <2>2, <3>1, <3>3, <3>4, ServersApart
    <2>9. FailOnStale => began <= held.created + MaxAge
      BY <1>1, GreenPasses
    <2> QED BY <2>4, <2>6, <2>7, <2>8, <2>9 DEF GreenMeansVouched, w, lost
  <1>2. IInv => GreenMeansVouched
    BY <1>1 DEF GreenMeansVouched
  <1> QED BY <1>2, Invariance, PTL

\* The gate fails when its scan lost sight of what the baseline's had seen.
THEOREM LossFailsTheGate == Spec => []LostSightIsRed
  <1>1. ASSUME IInv, Judged, exit # 1
        PROVE  /\ \A s \in Named : ~(PinsTools(held, s) /\ ~Dark(held.lost, s) /\ Dark(current.lost, s))
               /\ ~(Refused \notin held.lost /\ Refused \in current.lost)
    <2>1. Green
      BY <1>1 DEF Judged, Green
    <2>2. Passes(held, current.world, current.lost, ledger, today)
      BY <1>1, <2>1, GreenPasses
    <2>3. ~(Refused \notin held.lost /\ Refused \in current.lost)
      BY <2>2, UnreadableVouched
    <2>4. ASSUME NEW s \in Named, PinsTools(held, s), ~Dark(held.lost, s), Dark(current.lost, s)
          PROVE  FALSE
      <3>1. s \in Live /\ s \in Inspected(current.lost, Live)
        BY <2>2, NamedInspected DEF Passes, Live
      <3> QED BY <2>2, <2>4, <3>1, SightVouched
    <2> QED BY <2>3, <2>4
  <1>2. IInv => LostSightIsRed
    BY <1>1 DEF LostSightIsRed
  <1> QED BY <1>2, Invariance, PTL

\* A machine that is what it was, or has less, passes, whatever release wrote the baseline.
THEOREM UpgradeIsQuiet == Spec => []LessIsNeverRed
  <1>1. ASSUME IInv, Judged, held.lost = {}, current.lost = {}, Less(current.world, held.world),
               held.live = Live,
               held.era = "first" =>
                 \A s \in Live, t \in Tool : current.world.tools[s][t] \notin Poisoned,
               FailOnStale => began <= held.created + MaxAge
        PROVE  exit = 0
    <2>1. /\ WellMade(held) /\ current.world \in World
          /\ Verdict(held, current.world, current.lost)
      BY <1>1 DEF IInv, Judgement, Pedigree, Scans
    <2>2. Unmoved(held, current.world)
      BY <1>1, <2>1 DEF Unmoved
    <2>3. Clean(Facts(held), Snapshot(current.world, current.lost, Live), {}, today)
      BY <1>1, <2>2, LessIsClean
    <2>4. ~(FailOnStale /\ Stale(held, began))
      <3>1. began \in Nat /\ held.created \in Nat /\ MaxAge \in Nat
        BY <1>1, <2>1, BaselineTypes, DriftAssumption DEF IInv, TypeOK
      <3> QED BY <1>1, <3>1 DEF Stale
    <2> QED BY <1>1, <2>1, <2>3, <2>4 DEF Verdict, Judged
  <1>2. IInv => LessIsNeverRed
    BY <1>1 DEF LessIsNeverRed
  <1> QED BY <1>2, Invariance, PTL
=============================================================================
