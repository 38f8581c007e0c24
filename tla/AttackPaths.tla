---------------------------- MODULE AttackPaths ----------------------------
(***************************************************************************)
(* The search for attack chains (graph/paths.py): from every entry, depth  *)
(* first over simple paths, in a fixed order, up to MaxHops edges deep and *)
(* Ceiling chains in all; the chains found are ranked and the MaxPaths     *)
(* worst of them kept.  The recursion of `visit' is a stack of frames, one *)
(* per node of the chain it is in; a step of the specification is what     *)
(* `visit' does with one successor.                                        *)
(*                                                                         *)
(* The machine is chosen once: the search runs on a graph in memory.       *)
(***************************************************************************)
EXTENDS TrustGraph, SequencesExt

CONSTANTS
    Machines,  \* the machines searched
    MaxHops,   \* MAX_HOPS
    MaxPaths,  \* MAX_PATHS
    Ceiling    \* _ENUMERATION_CEILING

ASSUME CapsAssumption ==
    /\ MaxHops \in Nat \ {0}
    /\ MaxPaths \in Nat \ {0}
    /\ Ceiling \in Nat /\ Ceiling >= MaxPaths

\* What is numbered is numbered, and a machine is finite.
ASSUME MachineAssumption ==
    /\ LocalShell \in Nat
    /\ IsFiniteSet(DOMAIN Catalog) /\ DOMAIN Catalog \subseteq Nat
    /\ \A i \in DOMAIN Catalog : Catalog[i].target \in Nat
    /\ \A m \in Machines :
          /\ IsFiniteSet(DOMAIN m.server) /\ DOMAIN m.server \subseteq Nat
          /\ \A s \in DOMAIN m.server :
                LET d == m.server[s]
                IN  /\ d.config \in Nat
                    /\ IsFiniteSet(DOMAIN d.env) /\ Range(d.env) \subseteq Nat
                    /\ d.args \in Seq(Token) /\ d.binds \subseteq Address
          /\ IsFiniteSet(DOMAIN m.socket)
          /\ \A i \in DOMAIN m.socket : m.socket[i].location \in Nat /\ m.socket[i].addr \in Address

VARIABLES
    machine,      \* what was collected
    graph,        \* its graph
    pc,           \* "search" until the report is made, then "done"
    entries,      \* entries not yet visited
    stack,        \* frames: the node, the edge it was reached by, successors left
    found,        \* chains found, in order
    ceiling_hit,
    depth_capped,
    report        \* the chains kept, the mark, the grade and the exit codes

vars == <<machine, graph, pc, entries, stack, found, ceiling_hit, depth_capped, report>>

-----------------------------------------------------------------------------
(* Orders.  Kinds of nodes and edges sort by name, nodes by id.  A sorted  *)
(* list that is gone through from its head is a set whose first is taken.  *)

KindRank == [cred |-> 1, entry |-> 2, host |-> 3, server |-> 4, target |-> 5]
EdgeRank == [can_act |-> 1, holds |-> 2, hosts |-> 3, reaches |-> 4,
             shared_with |-> 5, unlocks |-> 6]

NodeBefore(m, n) ==
    \/ KindRank[m[1]] < KindRank[n[1]]
    \/ m[1] = n[1] /\ m[2] < n[2]

SuccessorBefore(s, t) ==
    \/ EdgeRank[s.kind] < EdgeRank[t.kind]
    \/ s.kind = t.kind /\ NodeBefore(s.dst, t.dst)

FirstNode(nodes) == CHOOSE n \in nodes : \A m \in nodes : ~NodeBefore(m, n)
FirstSuccessor(successors) == CHOOSE s \in successors : \A t \in successors : ~SuccessorBefore(t, s)

NodesBefore(p, q) ==
    \E i \in DOMAIN p \cap DOMAIN q :
        /\ NodeBefore(p[i], q[i])
        /\ \A j \in 1..(i - 1) : p[j] = q[j]

\* _rank_key: severity, then length, then the ids along the chain.
RankedBefore(p, q) ==
    \/ weight[p.severity] > weight[q.severity]
    \/ /\ p.severity = q.severity
       /\ \/ Len(p.nodes) < Len(q.nodes)
          \/ Len(p.nodes) = Len(q.nodes) /\ NodesBefore(p.nodes, q.nodes)

\* The sort keeps the order of chains that rank alike.
Ranked(paths) ==
    LET Earlier(i, j) == \/ RankedBefore(paths[i], paths[j])
                         \/ i < j /\ ~RankedBefore(paths[j], paths[i])
        place == [i \in DOMAIN paths |-> Cardinality({j \in DOMAIN paths : Earlier(j, i)}) + 1]
    IN  [k \in DOMAIN paths |-> paths[CHOOSE i \in DOMAIN paths : place[i] = k]]

-----------------------------------------------------------------------------
(* Chains of a machine m and its graph g.                                  *)

Actionable(edges) == Range(edges) \cap {"shared_with", "can_act"} # {}

PathSeverity(m, nodes, edges) ==
    IF "shared_with" \in Range(edges) THEN "critical"
    ELSE LET reach == entry_reach(m, nodes[1])
         IN  IF reach \in {"wildcard", "public_routable"} THEN "critical"
             ELSE IF reach = "private_lan" THEN "high" ELSE "medium"

MakePath(m, nodes, edges) ==
    [nodes |-> nodes, edges |-> edges, severity |-> PathSeverity(m, nodes, edges)]

\* _adjacency: edges that differ in nothing but their detail are one.
Adjacent(g, node) == {[kind |-> e.kind, dst |-> e.dst] : e \in {e \in g.edge : e.src = node}}

\* nodes_acc and edges_acc.
ChainNodes(frames) == [i \in DOMAIN frames |-> frames[i].node]
ChainEdges(frames) == [i \in 1..(Len(frames) - 1) |-> frames[i + 1].via]

FrameRevisits(g, node, via, visited) ==
    [node |-> node, via |-> via, left |-> Adjacent(g, node)]

\* The frame of a visit to `node' from a chain whose nodes are `visited': what the
\* loop over the successors will not pass over.
Frame(g, node, via, visited) ==
    [node |-> node, via |-> via,
     left |-> {s \in Adjacent(g, node) : s.dst \notin visited \union {node}}]

EntriesOf(g) == {n \in g.node : n[1] = "entry"}

-----------------------------------------------------------------------------
Pending == [paths |-> <<>>, truncated |-> FALSE, grade |-> "A", failed |-> {}]

Init ==
    /\ machine \in Machines
    /\ graph = build_graph(machine)
    /\ pc = "search"
    /\ entries = EntriesOf(graph)
    /\ stack = <<>>
    /\ found = <<>>
    /\ ceiling_hit = FALSE
    /\ depth_capped = FALSE
    /\ report = Pending

\* The loop over the entries.  Once the ceiling was hit, a visit returns at once.
NextEntry ==
    /\ pc = "search" /\ stack = <<>> /\ entries # {}
    /\ entries' = entries \ {FirstNode(entries)}
    /\ stack' = IF ceiling_hit THEN <<>> ELSE <<Frame(graph, FirstNode(entries), "none", {})>>
    /\ UNCHANGED <<machine, graph, pc, found, ceiling_hit, depth_capped, report>>

\* The loop of `visit' takes its next successor.
Looping == pc = "search" /\ stack # <<>> /\ ~ceiling_hit /\ Last(stack).left # {}
Successor == FirstSuccessor(Last(stack).left)
Advanced == [stack EXCEPT ![Len(stack)].left = @ \ {Successor}]

\* A target ends the chain; it is kept if it has a pivot and there is room.
VisitTarget ==
    /\ Looping /\ Successor.dst[1] = "target"
    /\ LET nodes == Append(ChainNodes(stack), Successor.dst)
           edges == Append(ChainEdges(stack), Successor.kind)
       IN  IF ~Actionable(edges)
           THEN UNCHANGED <<found, ceiling_hit>>
           ELSE IF Len(found) >= Ceiling
           THEN ceiling_hit' = TRUE /\ UNCHANGED found
           ELSE found' = Append(found, MakePath(machine, nodes, edges)) /\ UNCHANGED ceiling_hit
    /\ stack' = Advanced
    /\ UNCHANGED <<machine, graph, pc, entries, depth_capped, report>>

VisitAtDepthSilent ==
    /\ Looping /\ Successor.dst[1] # "target"
    /\ Len(stack) >= MaxHops
    /\ stack' = Advanced
    /\ UNCHANGED <<machine, graph, pc, entries, found, ceiling_hit, depth_capped, report>>

\* A chain of MaxHops edges goes no further, and says so if it could.
VisitAtDepth ==
    /\ Looping /\ Successor.dst[1] # "target"
    /\ Len(stack) >= MaxHops
    /\ depth_capped' = \/ depth_capped
                       \/ \E s \in Adjacent(graph, Successor.dst) :
                              s.dst \notin Range(ChainNodes(stack)) \union {Successor.dst}
    /\ stack' = Advanced
    /\ UNCHANGED <<machine, graph, pc, entries, found, ceiling_hit, report>>

Descend ==
    /\ Looping /\ Successor.dst[1] # "target"
    /\ Len(stack) < MaxHops
    /\ stack' = Append(Advanced, Frame(graph, Successor.dst, Successor.kind, Range(ChainNodes(stack))))
    /\ UNCHANGED <<machine, graph, pc, entries, found, ceiling_hit, depth_capped, report>>

\* The loop is over, or the ceiling ends it.
Return ==
    /\ pc = "search" /\ stack # <<>>
    /\ ceiling_hit \/ Last(stack).left = {}
    /\ stack' = Front(stack)
    /\ UNCHANGED <<machine, graph, pc, entries, found, ceiling_hit, depth_capped, report>>

SeverityGrade == [critical |-> "F", high |-> "D", medium |-> "C", low |-> "B", info |-> "A"]

overall_grade_for_paths(paths) ==
    IF paths = {} THEN "A"
    ELSE SeverityGrade[(CHOOSE p \in paths :
                          \A q \in paths : weight[q.severity] <= weight[p.severity]).severity]

\* The thresholds at which `graph --fail-on' would exit 1.
FailedAt(paths) ==
    {t \in Severity \ {"info"} : \E p \in paths : p.severity \in blocking(t)}

\* What is said of the chains kept.
Report(kept) ==
    [paths     |-> kept,
     truncated |-> ceiling_hit \/ depth_capped \/ Len(found) > MaxPaths,
     grade     |-> overall_grade_for_paths(Range(kept)),
     failed    |-> FailedAt(Range(kept))]

FinishUnranked ==
    /\ pc = "search" /\ stack = <<>> /\ entries = {}
    /\ report' = Report(Ranked(SubSeq(found, 1, Least(MaxPaths, Len(found)))))
    /\ pc' = "done"
    /\ UNCHANGED <<machine, graph, entries, stack, found, ceiling_hit, depth_capped>>

Finish ==
    /\ pc = "search" /\ stack = <<>> /\ entries = {}
    /\ report' = Report(SubSeq(Ranked(found), 1, Least(MaxPaths, Len(found))))
    /\ pc' = "done"
    /\ UNCHANGED <<machine, graph, entries, stack, found, ceiling_hit, depth_capped>>

Done == pc = "done" /\ UNCHANGED vars

Next == NextEntry \/ VisitTarget \/ VisitAtDepth \/ Descend \/ Return \/ Finish \/ Done

Spec == Init /\ [][Next]_vars

-----------------------------------------------------------------------------
(* Properties.                                                             *)

ChainOf(g, nodes, edges) ==
    /\ Len(nodes) = Len(edges) + 1
    /\ nodes[1][1] = "entry" /\ Last(nodes)[1] = "target"
    /\ IsInjective(nodes)
    /\ \A i \in DOMAIN edges :
          [src |-> nodes[i], kind |-> edges[i], dst |-> nodes[i + 1]] \in g.edge
    /\ Actionable(edges)

\* Every state of the search is one the code's variables can be in: the stack is
\* a simple path of the graph within the cap, what is found is chains.
TypeOK ==
    /\ pc \in {"search", "done"}
    /\ {ceiling_hit, depth_capped} \subseteq BOOLEAN
    /\ entries \subseteq EntriesOf(graph)
    /\ Len(stack) <= MaxHops
    /\ IsInjective(ChainNodes(stack))
    /\ \A i \in 2..Len(stack) :
          [src |-> stack[i - 1].node, kind |-> stack[i].via, dst |-> stack[i].node] \in graph.edge
    /\ Len(found) <= Ceiling
    /\ \A p \in Range(found) : ChainOf(graph, p.nodes, p.edges)

\* What the search is to find, with no order, no caps and no stack: the simple
\* paths of any length from an entry to a target, with a pivot.
Longer(g, paths) ==
    {[nodes |-> Append(pe[1].nodes, pe[2].dst), edges |-> Append(pe[1].edges, pe[2].kind)] :
        pe \in {pe \in paths \X g.edge :
                   /\ pe[2].src = Last(pe[1].nodes)
                   /\ pe[2].dst \notin Range(pe[1].nodes)}}

SimplePaths(g) ==
    LET paths[n \in Nat] ==
            IF n = 0 THEN {[nodes |-> <<e>>, edges |-> <<>>] : e \in EntriesOf(g)}
            ELSE Longer(g, paths[n - 1])
    IN  UNION {paths[n] : n \in 1..(Cardinality(g.node) - 1)}

Chains(m, g) ==
    {MakePath(m, p.nodes, p.edges) :
        p \in {p \in SimplePaths(g) : Last(p.nodes)[1] = "target" /\ Actionable(p.edges)}}

\* Nothing is left out in silence: a report without the truncation mark has
\* every chain of the machine, of whatever length, each once, and the grade and
\* exit codes are those of the worst chain there is (graph/model.py:121-123).
CompleteUnlessTruncated ==
    pc = "done" /\ ~report.truncated =>
        /\ Range(report.paths) = Chains(machine, graph)
        /\ IsInjective(report.paths)
        /\ report.grade = overall_grade_for_paths(Chains(machine, graph))
        /\ report.failed = FailedAt(Chains(machine, graph))

\* When the cap on chains kept or on depth bites and the ceiling does not, what
\* is kept is the worst: every chain within the depth that is not kept ranks
\* after every chain that is, so the grade and the exit codes are those of all
\* the chains within the depth (graph/paths.py:45).
WorstSurvive ==
    pc = "done" /\ ~ceiling_hit =>
        LET within == {c \in Chains(machine, graph) : Len(c.edges) <= MaxHops}
        IN  /\ \A c \in within \ Range(report.paths), i \in DOMAIN report.paths :
                  RankedBefore(report.paths[i], c)
            /\ Len(report.paths) = Least(MaxPaths, Cardinality(within))
            /\ report.grade = overall_grade_for_paths(within)
            /\ report.failed = FailedAt(within)

\* The servers that hold a credential of s and can do something with it.
Pivots(s) ==
    {t \in peers(machine, s) :
        \/ Dangerous(machine.server[t])
        \/ /\ privilege_risk(machine.server[t]) > 0
           /\ \E c \in credential_fingerprints(machine, t) : cred_targets(machine, c) # {}}

\* The promise of the command, stated on the declarations and not on the graph:
\* an exposed server that shares a credential with a server that can act fails
\* the graph, at any threshold: no cap but the ceiling on all chains can hide it.
ExposedPivotIsCritical ==
    pc = "done" /\ MaxHops >= 4 /\ (\E s \in Exposed(machine) : Pivots(s) # {}) =>
        \/ report.grade = "F" /\ report.failed = Severity \ {"info"}
        \/ ceiling_hit

\* `trust' and `graph' judge the same servers: one that trust calls exposed and
\* privileged has a chain of its own as soon as there is something to act on, a
\* server crossed by a shared credential carries the relationship that says so.
TrustAndGraphAgree ==
    pc = "done" /\ MaxHops >= 2 =>
        LET trust == build_trust_report(machine)
        IN  /\ \A s \in Subjects(machine) :
                  /\ "exposed_privileged" \in trust.related[s]
                  /\ \/ Dangerous(machine.server[s])
                     \/ \E c \in credential_fingerprints(machine, s) : cred_targets(machine, c) # {}
                  => report.grade \in {"D", "F"} \/ ceiling_hit
            /\ \A p \in Range(report.paths) : \A i \in DOMAIN p.edges :
                  p.edges[i] = "shared_with" =>
                      \A n \in {p.nodes[i - 1], p.nodes[i + 1]} :
                          "shared_credential" \in trust.related[n[2]]
=============================================================================
