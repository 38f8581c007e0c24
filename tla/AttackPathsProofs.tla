-------------------------- MODULE AttackPathsProofs --------------------------
(***************************************************************************)
(* Proofs about AttackPaths, for any machines, catalog and caps.           *)
(*                                                                         *)
(* The argument: a machine's graph is finite, ends in its targets and has  *)
(* one edge at most from a node to a node (GraphIs).  The search then has  *)
(* each of its chains either found or ahead of it, once, or too deep and   *)
(* marked so (Covered, Once), and when nothing is ahead the list found is  *)
(* the set of chains.  The sort is a permutation in rank order (RankedIs)  *)
(* and the grade of what it keeps is that of all (SameGrade).              *)
(***************************************************************************)
EXTENDS AttackPaths, SequenceTheorems, FiniteSetTheorems, WellFoundedInduction, TLAPS

\* The kinds there are; a node, a successor and a chain of any graph.
NodeKind == {"cred", "entry", "host", "server", "target"}
EdgeKind == {"can_act", "holds", "hosts", "reaches", "shared_with", "unlocks"}
Node == NodeKind \X Nat
Onward == [kind : EdgeKind, dst : Node]
Path == [nodes : Seq(Node), edges : Seq(EdgeKind), severity : Severity]

-----------------------------------------------------------------------------
(* Orders.                                                                  *)

\* A set of naturals that is not empty has a least member.
LEMMA LeastMember ==
  ASSUME NEW T \in SUBSET Nat, T # {}
  PROVE  \E x \in T : \A y \in T : x <= y
<1>1. PICK x \in T : \A y \in T : <<y, x>> \notin OpToRel(<, Nat)
  BY NatLessThanWellFounded, WFMin
<1>2. \A y \in T : ~(y < x)
  BY <1>1 DEF OpToRel
<1> QED BY <1>2

\* The kinds of nodes and of edges have ranks of their own.
LEMMA Ranks ==
  /\ \A k \in NodeKind : KindRank[k] \in Nat
  /\ \A k, l \in NodeKind : KindRank[k] = KindRank[l] => k = l
  /\ \A k \in EdgeKind : EdgeRank[k] \in Nat
  /\ \A k, l \in EdgeKind : EdgeRank[k] = EdgeRank[l] => k = l
BY DEF NodeKind, EdgeKind, KindRank, EdgeRank

\* A node is its kind and its number.
LEMMA NodeIs ==
  ASSUME NEW n \in Node
  PROVE  n[1] \in NodeKind /\ n[2] \in Nat /\ n = <<n[1], n[2]>>
BY DEF Node

\* Nodes are strictly and totally ordered.
LEMMA NodeOrder ==
  /\ \A n \in Node : ~NodeBefore(n, n)
  /\ \A l, m, n \in Node : NodeBefore(l, m) /\ NodeBefore(m, n) => NodeBefore(l, n)
  /\ \A m, n \in Node : m = n \/ NodeBefore(m, n) \/ NodeBefore(n, m)
<1>1. \A n \in Node : ~NodeBefore(n, n)
  BY Ranks, NodeIs DEF NodeBefore
<1>2. ASSUME NEW l \in Node, NEW m \in Node, NEW n \in Node,
             NodeBefore(l, m), NodeBefore(m, n)
      PROVE  NodeBefore(l, n)
  <2>1. /\ l[1] \in NodeKind /\ m[1] \in NodeKind /\ n[1] \in NodeKind
        /\ l[2] \in Nat /\ m[2] \in Nat /\ n[2] \in Nat
    BY NodeIs
  <2> QED BY <1>2, <2>1, Ranks DEF NodeBefore
<1>3. ASSUME NEW m \in Node, NEW n \in Node
      PROVE  m = n \/ NodeBefore(m, n) \/ NodeBefore(n, m)
  <2>1. /\ m[1] \in NodeKind /\ n[1] \in NodeKind /\ m[2] \in Nat /\ n[2] \in Nat
        /\ m = <<m[1], m[2]>> /\ n = <<n[1], n[2]>>
    BY NodeIs
  <2>2. \/ KindRank[m[1]] < KindRank[n[1]] \/ KindRank[n[1]] < KindRank[m[1]] \/ m[1] = n[1]
    BY <2>1, Ranks
  <2>3. m[2] < n[2] \/ n[2] < m[2] \/ m[2] = n[2]
    BY <2>1
  <2> QED BY <2>1, <2>2, <2>3 DEF NodeBefore
<1> QED BY <1>1, <1>2, <1>3

\* A set of nodes has a first one.
LEMMA FirstNodeIs ==
  ASSUME NEW S \in SUBSET Node, S # {}
  PROVE  /\ FirstNode(S) \in S
         /\ \A m \in S : ~NodeBefore(m, FirstNode(S))
<1> DEFINE K == {KindRank[n[1]] : n \in S}
<1>1. K \in SUBSET Nat /\ K # {}
  BY Ranks, NodeIs
<1>2. PICK k \in K : \A j \in K : k <= j
  <2> HIDE DEF K
  <2> QED BY <1>1, LeastMember
<1> DEFINE N == {n[2] : n \in {n \in S : KindRank[n[1]] = k}}
<1>3. N \in SUBSET Nat /\ N # {}
  BY NodeIs, <1>2
<1>4. PICK i \in N : \A j \in N : i <= j
  <2> HIDE DEF N
  <2> QED BY <1>3, LeastMember
<1>5. PICK n \in S : KindRank[n[1]] = k /\ n[2] = i
  BY <1>4
<1>6. ASSUME NEW m \in S, NodeBefore(m, n) PROVE FALSE
  <2>1. KindRank[m[1]] \in Nat /\ k \in Nat /\ k <= KindRank[m[1]]
    BY <1>1, <1>2, Ranks, NodeIs
  <2>2. m[1] = n[1] /\ m[2] < n[2]
    BY <1>5, <1>6, <2>1 DEF NodeBefore
  <2>3. m[2] \in N
    BY <2>2, <1>5
  <2>4. m[2] \in Nat /\ i \in Nat /\ i <= m[2]
    BY <2>3, <1>3, <1>4
  <2> QED BY <2>2, <2>4, <1>5
<1> QED BY <1>5, <1>6 DEF FirstNode

\* A set of successors has a first one, which it holds.
LEMMA FirstSuccessorIs ==
  ASSUME NEW S \in SUBSET Onward, S # {}
  PROVE  FirstSuccessor(S) \in S
<1>0. \A s \in S : s.kind \in EdgeKind /\ s.dst \in Node
  BY DEF Onward
<1> DEFINE K == {EdgeRank[s.kind] : s \in S}
<1>1. K \in SUBSET Nat /\ K # {}
  BY Ranks, <1>0
<1>2. PICK k \in K : \A j \in K : k <= j
  <2> HIDE DEF K
  <2> QED BY <1>1, LeastMember
<1> DEFINE D == {s.dst : s \in {s \in S : EdgeRank[s.kind] = k}}
<1>3. D \in SUBSET Node /\ D # {}
  BY <1>0, <1>2
<1>4. FirstNode(D) \in D /\ \A m \in D : ~NodeBefore(m, FirstNode(D))
  <2> HIDE DEF D
  <2> QED BY <1>3, FirstNodeIs
<1>5. PICK s \in S : EdgeRank[s.kind] = k /\ s.dst = FirstNode(D)
  BY <1>4
<1>6. ASSUME NEW t \in S, SuccessorBefore(t, s) PROVE FALSE
  <2>1. EdgeRank[t.kind] \in Nat /\ k \in Nat /\ k <= EdgeRank[t.kind]
    BY <1>0, <1>1, <1>2, Ranks
  <2>2. t.kind = s.kind /\ NodeBefore(t.dst, s.dst)
    BY <1>5, <1>6, <2>1 DEF SuccessorBefore
  <2>3. t.dst \in D
    BY <2>2, <1>5
  <2> QED BY <2>2, <2>3, <1>4, <1>5
<1> QED BY <1>5, <1>6 DEF FirstSuccessor

\* Lists of nodes of one length are strictly and totally ordered.
LEMMA NodesOrder ==
  ASSUME NEW p \in Seq(Node), NEW q \in Seq(Node), Len(p) = Len(q)
  PROVE  /\ ~NodesBefore(p, p)
         /\ p = q \/ NodesBefore(p, q) \/ NodesBefore(q, p)
         /\ \A r \in Seq(Node) : Len(r) = Len(q) /\ NodesBefore(p, q) /\ NodesBefore(q, r)
                                   => NodesBefore(p, r)
<1>1. /\ Len(p) \in Nat /\ DOMAIN p = 1..Len(p) /\ DOMAIN q = 1..Len(p)
      /\ \A i \in 1..Len(p) : p[i] \in Node /\ q[i] \in Node
  BY LenProperties, ElementOfSeq
<1>2. ~NodesBefore(p, p)
  BY <1>1, NodeOrder DEF NodesBefore
<1>3. ASSUME p # q PROVE NodesBefore(p, q) \/ NodesBefore(q, p)
  <2> DEFINE T == {i \in 1..Len(p) : p[i] # q[i]}
  <2>1. T \in SUBSET Nat /\ T # {}
    BY <1>3, <1>1, SeqEqual
  <2>2. PICK i \in T : \A j \in T : i <= j
    <3> HIDE DEF T
    <3> QED BY <2>1, LeastMember
  <2>3. \A j \in 1..(i - 1) : p[j] = q[j]
    BY <2>2, <1>1
  <2>4. NodeBefore(p[i], q[i]) \/ NodeBefore(q[i], p[i])
    BY <2>2, <1>1, NodeOrder
  <2> QED BY <2>2, <2>3, <2>4, <1>1 DEF NodesBefore
<1>4. ASSUME NEW r \in Seq(Node), Len(r) = Len(q), NodesBefore(p, q), NodesBefore(q, r)
      PROVE  NodesBefore(p, r)
  <2>1. DOMAIN r = 1..Len(p) /\ \A i \in 1..Len(p) : r[i] \in Node
    BY <1>4, LenProperties, ElementOfSeq
  <2>2. PICK i \in 1..Len(p) : NodeBefore(p[i], q[i]) /\ \A j \in 1..(i - 1) : p[j] = q[j]
    BY <1>1, <1>4 DEF NodesBefore
  <2>3. PICK k \in 1..Len(p) : NodeBefore(q[k], r[k]) /\ \A j \in 1..(k - 1) : q[j] = r[j]
    BY <1>1, <2>1, <1>4 DEF NodesBefore
  <2>4. CASE i < k
    <3>1. NodeBefore(p[i], r[i]) /\ \A j \in 1..(i - 1) : p[j] = r[j]
      BY <2>2, <2>3, <2>4, <1>1
    <3> QED BY <3>1, <1>1, <2>1 DEF NodesBefore
  <2>5. CASE k < i
    <3>1. NodeBefore(p[k], r[k]) /\ \A j \in 1..(k - 1) : p[j] = r[j]
      BY <2>2, <2>3, <2>5, <1>1
    <3> QED BY <3>1, <1>1, <2>1 DEF NodesBefore
  <2>6. CASE i = k
    <3>1. NodeBefore(p[i], r[i]) /\ \A j \in 1..(i - 1) : p[j] = r[j]
      BY <2>2, <2>3, <2>6, <1>1, <2>1, NodeOrder
    <3> QED BY <3>1, <1>1, <2>1 DEF NodesBefore
  <2>7. i < k \/ k < i \/ i = k
    OBVIOUS
  <2> QED BY <2>4, <2>5, <2>6, <2>7
<1> QED BY <1>2, <1>3, <1>4

\* The weights of the severities.
LEMMA Weights ==
  /\ \A s \in Severity : weight[s] \in Nat
  /\ \A s, t \in Severity : weight[s] = weight[t] => s = t
BY DEF Severity, weight

\* Chains are strictly ordered, but for those of one severity along the same nodes.
LEMMA RankOrder ==
  /\ \A p \in Path : ~RankedBefore(p, p)
  /\ \A p, q, r \in Path : RankedBefore(p, q) /\ RankedBefore(q, r) => RankedBefore(p, r)
  /\ \A p, q \in Path : \/ RankedBefore(p, q) \/ RankedBefore(q, p)
                        \/ p.severity = q.severity /\ p.nodes = q.nodes
<1>0. \A p \in Path : /\ p.severity \in Severity /\ weight[p.severity] \in Nat
                      /\ p.nodes \in Seq(Node) /\ Len(p.nodes) \in Nat
  BY Weights, LenProperties DEF Path
<1>1. ASSUME NEW p \in Path PROVE ~RankedBefore(p, p)
  BY <1>0, NodesOrder DEF RankedBefore
<1>2. ASSUME NEW p \in Path, NEW q \in Path, NEW r \in Path, RankedBefore(p, q), RankedBefore(q, r)
      PROVE  RankedBefore(p, r)
  <2>1. Len(p.nodes) = Len(q.nodes) /\ Len(q.nodes) = Len(r.nodes)
        /\ NodesBefore(p.nodes, q.nodes) /\ NodesBefore(q.nodes, r.nodes)
        => NodesBefore(p.nodes, r.nodes)
    BY <1>0, NodesOrder
  <2> QED BY <1>0, <1>2, <2>1 DEF RankedBefore
<1>3. ASSUME NEW p \in Path, NEW q \in Path
      PROVE  \/ RankedBefore(p, q) \/ RankedBefore(q, p)
             \/ p.severity = q.severity /\ p.nodes = q.nodes
  <2>1. CASE p.severity # q.severity
    BY <2>1, <1>0, Weights DEF RankedBefore
  <2>2. CASE p.severity = q.severity /\ Len(p.nodes) # Len(q.nodes)
    BY <2>2, <1>0 DEF RankedBefore
  <2>3. CASE p.severity = q.severity /\ Len(p.nodes) = Len(q.nodes)
    <3>1. p.nodes = q.nodes \/ NodesBefore(p.nodes, q.nodes) \/ NodesBefore(q.nodes, p.nodes)
      BY <2>3, <1>0, NodesOrder
    <3> QED BY <2>3, <3>1 DEF RankedBefore
  <2> QED BY <2>1, <2>2, <2>3
<1> QED BY <1>1, <1>2, <1>3

-----------------------------------------------------------------------------
(* The sort.                                                              *)

\* R orders the members of 1..n strictly and totally.
Orders(R, n) ==
  /\ \A i \in 1..n : <<i, i>> \notin R
  /\ \A i, j, k \in 1..n : <<i, j>> \in R /\ <<j, k>> \in R => <<i, k>> \in R
  /\ \A i, j \in 1..n : i = j \/ <<i, j>> \in R \/ <<j, i>> \in R

\* The place of each: how many are before it, from 1.
PlaceIn(R, n) == [i \in 1..n |-> Cardinality({j \in 1..n : <<j, i>> \in R}) + 1]

\* Numbered by how many are before them, the members of 1..n ordered by R go to
\* places of their own, in order.
LEMMA Places ==
  ASSUME NEW n \in Nat, NEW R, Orders(R, n)
  PROVE  LET place == PlaceIn(R, n) IN
         /\ \A i \in 1..n : place[i] \in 1..n
         /\ \A i, j \in 1..n : place[i] = place[j] => i = j
         /\ \A k \in 1..n : \E i \in 1..n : place[i] = k
         /\ \A i, j \in 1..n : place[i] < place[j] => <<i, j>> \in R
<1> DEFINE place == PlaceIn(R, n)
           Below(i) == {j \in 1..n : <<j, i>> \in R}
<1>0. IsFiniteSet(1..n) /\ Cardinality(1..n) = n
  BY FS_Interval
<1>1. ASSUME NEW i \in 1..n PROVE IsFiniteSet(Below(i)) /\ Cardinality(Below(i)) \in Nat
  <2>1. Below(i) \subseteq 1..n
    OBVIOUS
  <2> HIDE DEF Below
  <2>2. IsFiniteSet(Below(i))
    BY <2>1, <1>0, FS_Subset
  <2> QED BY <2>2, FS_CardinalityType
<1>2. \A i \in 1..n : i \notin Below(i) /\ Below(i) \subseteq 1..n
  BY DEF Orders
<1>3. \A i \in 1..n : IsFiniteSet(Below(i) \cup {i})
                      /\ Cardinality(Below(i) \cup {i}) = Cardinality(Below(i)) + 1
  <2> HIDE DEF Below
  <2> QED BY <1>1, <1>2, FS_AddElement
<1>4. \A i, j \in 1..n : <<i, j>> \in R => Below(i) \cup {i} \subseteq Below(j)
  BY DEF Orders
<1>5. \A i \in 1..n : place[i] = Cardinality(Below(i)) + 1
  BY DEF PlaceIn
<1>p. DOMAIN place = 1..n /\ place = [i \in 1..n |-> place[i]]
  BY DEF PlaceIn
<1> HIDE DEF Below, place
<1>6. ASSUME NEW i \in 1..n, NEW j \in 1..n, <<i, j>> \in R PROVE place[i] < place[j]
  <2>0. Below(i) \cup {i} \subseteq Below(j) /\ IsFiniteSet(Below(j))
    BY <1>1, <1>4, <1>6
  <2>1. Cardinality(Below(i) \cup {i}) <= Cardinality(Below(j))
    BY <2>0, FS_Subset
  <2>2. Cardinality(Below(i)) + 1 <= Cardinality(Below(j))
    BY <2>1, <1>3
  <2>3. Cardinality(Below(i)) \in Nat /\ Cardinality(Below(j)) \in Nat
    BY <1>1
  <2> QED BY <2>2, <2>3, <1>5
<1>7. ASSUME NEW i \in 1..n PROVE place[i] \in 1..n
  <2>0. Below(i) \cup {i} \subseteq 1..n
    BY <1>2
  <2>1. Cardinality(Below(i) \cup {i}) <= Cardinality(1..n)
    <3> HIDE DEF Below
    <3>1. Below(i) \cup {i} \in SUBSET (1..n)
      BY <2>0
    <3> QED BY <1>0, <3>1, FS_Subset
  <2>2. Cardinality(Below(i)) + 1 <= n
    BY <2>1, <1>0, <1>3
  <2>3. Cardinality(Below(i)) \in Nat
    BY <1>1
  <2> QED BY <2>2, <2>3, <1>5
<1>8. ASSUME NEW i \in 1..n, NEW j \in 1..n, place[i] = place[j] PROVE i = j
  <2>1. place[i] \in Int /\ place[j] \in Int
    BY <1>7
  <2>2. ~(<<i, j>> \in R) /\ ~(<<j, i>> \in R)
    BY <2>1, <1>6, <1>8
  <2> QED BY <2>2 DEF Orders
<1>9. \A k \in 1..n : \E i \in 1..n : place[i] = k
  <2>1. place \in [1..n -> 1..n]
    BY <1>7, <1>p
  <2>2. place \in Injection(1..n, 1..n)
    BY <2>1, <1>8 DEF Injection, IsInjective
  <2>3. place \in Surjection(1..n, 1..n)
    BY <2>2, <1>0, FS_Injection
  <2> QED BY <2>3 DEF Surjection
<1>10. ASSUME NEW i \in 1..n, NEW j \in 1..n, place[i] < place[j] PROVE <<i, j>> \in R
  <2>1. place[i] \in 1..n /\ place[j] \in 1..n
    BY <1>7
  <2>2. i # j
    BY <2>1, <1>10
  <2>3. CASE <<j, i>> \in R
    <3>1. place[j] < place[i]
      BY <1>6, <2>3
    <3> QED BY <3>1, <2>1, <1>10
  <2> QED BY <2>2, <2>3 DEF Orders
<1> QED BY <1>7, <1>8, <1>9, <1>10 DEF place

\* The list r is the n chains of the list paths, each position once, with none after
\* one it ranks before.
Sorts(r, paths, n) ==
  /\ r \in Seq(Path) /\ Len(r) = n
  /\ \E from \in [1..n -> 1..n] :
       /\ \A i \in 1..n : \E k \in 1..n : from[k] = i
       /\ \A k, l \in 1..n : from[k] = from[l] => k = l
       /\ \A k \in 1..n : r[k] = paths[from[k]]
  /\ \A k, l \in 1..n : k < l => ~RankedBefore(r[l], r[k])

\* The sort sorts.
LEMMA RankedIs ==
  ASSUME NEW paths \in Seq(Path)
  PROVE  Sorts(Ranked(paths), paths, Len(paths))
<1>n. PICK n \in Nat : n = Len(paths)
  BY LenProperties
<1> DEFINE Before(i, j) == \/ RankedBefore(paths[i], paths[j])
                           \/ i < j /\ ~RankedBefore(paths[j], paths[i])
           R == {ij \in (1..n) \X (1..n) : Before(ij[1], ij[2])}
           place == [i \in DOMAIN paths |-> Cardinality({j \in DOMAIN paths : Before(j, i)}) + 1]
           from == [k \in DOMAIN paths |-> CHOOSE i \in DOMAIN paths : place[i] = k]
<1>0. DOMAIN paths = 1..n /\ \A i \in 1..n : paths[i] \in Path
  BY <1>n, LenProperties, ElementOfSeq
<1>1. Ranked(paths) = [k \in DOMAIN paths |-> paths[CHOOSE i \in DOMAIN paths : place[i] = k]]
  BY DEF Ranked
<1>2. \A i, j \in 1..n : <<i, j>> \in R <=> Before(i, j)
  OBVIOUS
<1>3. \A i \in 1..n : {j \in DOMAIN paths : Before(j, i)} = {j \in 1..n : <<j, i>> \in R}
  BY <1>0, <1>2
<1>4. place = [i \in 1..n |-> Cardinality({j \in 1..n : <<j, i>> \in R}) + 1]
  <2> HIDE DEF R, Before
  <2> QED BY <1>0, <1>3
<1>5. \A i \in 1..n : <<i, i>> \notin R
  BY <1>0, RankOrder
<1>6. \A i, j \in 1..n : i = j \/ <<i, j>> \in R \/ <<j, i>> \in R
  <2> TAKE i, j \in 1..n
  <2> SUFFICES i = j \/ Before(i, j) \/ Before(j, i)
    BY <1>2
  <2> QED OBVIOUS
<1>7. ASSUME NEW i \in 1..n, NEW j \in 1..n, NEW k \in 1..n, <<i, j>> \in R, <<j, k>> \in R
      PROVE  <<i, k>> \in R
  <2> DEFINE p == paths[i]  q == paths[j]  r == paths[k]
  <2>0. p \in Path /\ q \in Path /\ r \in Path
    BY <1>0
  <2>1. Before(i, j) /\ Before(j, k)
    BY <1>2, <1>7
  <2>2. (~RankedBefore(p, q) /\ ~RankedBefore(q, p)) => p.severity = q.severity /\ p.nodes = q.nodes
    BY <2>0, RankOrder
  <2>3. (~RankedBefore(q, r) /\ ~RankedBefore(r, q)) => q.severity = r.severity /\ q.nodes = r.nodes
    BY <2>0, RankOrder
  <2>4. CASE RankedBefore(p, q) /\ RankedBefore(q, r)
    <3>1. RankedBefore(p, r)
      BY <2>0, <2>4, RankOrder
    <3> QED BY <3>1, <1>2
  <2>5. CASE RankedBefore(p, q) /\ ~RankedBefore(q, r)
    <3>1. q.severity = r.severity /\ q.nodes = r.nodes
      BY <2>1, <2>3, <2>5
    <3>2. RankedBefore(p, r)
      BY <3>1, <2>5 DEF RankedBefore
    <3> QED BY <3>2, <1>2
  <2>6. CASE ~RankedBefore(p, q) /\ RankedBefore(q, r)
    <3>1. p.severity = q.severity /\ p.nodes = q.nodes
      BY <2>1, <2>2, <2>6
    <3>2. RankedBefore(p, r)
      BY <3>1, <2>6 DEF RankedBefore
    <3> QED BY <3>2, <1>2
  <2>7. CASE ~RankedBefore(p, q) /\ ~RankedBefore(q, r)
    <3>1. /\ p.severity = q.severity /\ p.nodes = q.nodes
          /\ q.severity = r.severity /\ q.nodes = r.nodes
      BY <2>1, <2>2, <2>3, <2>7
    <3>2. RankedBefore(r, p) <=> RankedBefore(p, p)
      BY <3>1 DEF RankedBefore
    <3>3. i < k /\ ~RankedBefore(r, p)
      BY <2>0, <2>1, <2>7, <3>2, RankOrder
    <3> QED BY <3>3, <1>2
  <2> QED BY <2>4, <2>5, <2>6, <2>7
<1> HIDE DEF R, place, Before
<1>8. /\ \A i \in 1..n : place[i] \in 1..n
      /\ \A i, j \in 1..n : place[i] = place[j] => i = j
      /\ \A k \in 1..n : \E i \in 1..n : place[i] = k
      /\ \A i, j \in 1..n : place[i] < place[j] => <<i, j>> \in R
  <2>0. \A i, j, k \in 1..n : <<i, j>> \in R /\ <<j, k>> \in R => <<i, k>> \in R
    BY <1>7
  <2>1. Orders(R, n) /\ place = PlaceIn(R, n)
    BY <2>0, <1>4, <1>5, <1>6 DEF Orders, PlaceIn
  <2>2. LET pl == PlaceIn(R, n) IN
        /\ \A i \in 1..n : pl[i] \in 1..n
        /\ \A i, j \in 1..n : pl[i] = pl[j] => i = j
        /\ \A k \in 1..n : \E i \in 1..n : pl[i] = k
        /\ \A i, j \in 1..n : pl[i] < pl[j] => <<i, j>> \in R
    BY <2>1, Places
  <2> QED BY <2>1, <2>2
<1>9. \A k \in 1..n : from[k] \in 1..n /\ place[from[k]] = k
  BY <1>0, <1>8
<1>10. /\ from \in [1..n -> 1..n] /\ Ranked(paths) = [k \in 1..n |-> paths[from[k]]]
       /\ \A k \in 1..n : Ranked(paths)[k] = paths[from[k]]
  <2>1. Ranked(paths) = [k \in 1..n |-> paths[from[k]]]
    BY <1>0, <1>1
  <2>2. DOMAIN from = 1..n /\ from = [k \in 1..n |-> from[k]]
    BY <1>0
  <2> HIDE DEF from
  <2> QED BY <2>1, <2>2, <1>9
<1>11. DOMAIN Ranked(paths) = 1..n
  BY <1>0, <1>1
<1> HIDE DEF from
<1>16. ASSUME NEW k \in 1..n, NEW l \in 1..n, k < l
       PROVE  ~RankedBefore(Ranked(paths)[l], Ranked(paths)[k])
  <2>0. /\ from[k] \in 1..n /\ from[l] \in 1..n
        /\ place[from[k]] = k /\ place[from[l]] = l
    BY <1>9
  <2>1. Before(from[k], from[l])
    <3>1. <<from[k], from[l]>> \in R
      <4>1. place[from[k]] < place[from[l]]
        BY <2>0, <1>16
      <4> QED BY <2>0, <4>1, <1>8
    <3> QED BY <2>0, <3>1, <1>2
  <2>2. paths[from[k]] \in Path /\ paths[from[l]] \in Path
    BY <1>0, <2>0
  <2>3. ~(RankedBefore(paths[from[l]], paths[from[k]]) /\ RankedBefore(paths[from[k]], paths[from[l]]))
    <3>1. ~RankedBefore(paths[from[l]], paths[from[l]])
      BY <2>2, RankOrder
    <3> QED BY <2>2, <3>1, RankOrder
  <2>4. ~RankedBefore(paths[from[l]], paths[from[k]])
    BY <2>1, <2>3 DEF Before
  <2> QED BY <2>4, <1>10
<1>12. Ranked(paths) \in [1..n -> Path]
  BY <1>0, <1>10
<1>13. Ranked(paths) \in Seq(Path) /\ Len(Ranked(paths)) = n
  BY <1>12, <1>11, LenProperties
<1>14. \A k, l \in 1..n : from[k] = from[l] => k = l
  BY <1>9
<1>15. ASSUME NEW i \in 1..n PROVE \E k \in 1..n : from[k] = i
  <2>1. place[i] \in 1..n
    BY <1>8
  <2>2. place[from[place[i]]] = place[i] /\ from[place[i]] \in 1..n
    BY <2>1, <1>9
  <2> QED BY <2>1, <2>2, <1>8
<1>17. \E f \in [1..n -> 1..n] :
         /\ \A i \in 1..n : \E k \in 1..n : f[k] = i
         /\ \A k, l \in 1..n : f[k] = f[l] => k = l
         /\ \A k \in 1..n : Ranked(paths)[k] = paths[f[k]]
  BY <1>10, <1>14, <1>15
<1>18. \A k, l \in 1..n : k < l => ~RankedBefore(Ranked(paths)[l], Ranked(paths)[k])
  BY <1>16
<1> HIDE DEF from
<1>19. Sorts(Ranked(paths), paths, n)
  BY <1>13, <1>17, <1>18 DEF Sorts
<1> QED BY <1>n, <1>19

-----------------------------------------------------------------------------
(* Chains, and the stack of the search.                                   *)

\* What the search takes for granted of a graph: it is finite, a target ends it, and
\* no two edges join the same nodes.
IsGraph(g) ==
  /\ g.node \in SUBSET Node /\ IsFiniteSet(g.node)
  /\ g.edge \in SUBSET [src : g.node, kind : EdgeKind, dst : g.node]
  /\ \A a \in g.edge : a.src[1] # "target"
  /\ \A a, b \in g.edge : a.src = b.src /\ a.dst = b.dst => a.kind = b.kind

\* A chain to be found, of any length.
Chain(g, n, e) ==
  /\ n \in Seq(g.node) /\ e \in Seq(EdgeKind) /\ Len(n) = Len(e) + 1
  /\ n[1] \in EntriesOf(g) /\ IsInjective(n)
  /\ \A i \in 1..Len(e) : [src |-> n[i], kind |-> e[i], dst |-> n[i + 1]] \in g.edge
  /\ n[Len(n)][1] = "target" /\ Actionable(e)

\* A frame of the stack.
Stacked == [node : Node, via : EdgeKind \cup {"none"}, left : SUBSET Onward]

\* The stack fr is a simple path from an entry that was taken; a frame has left what
\* leads off the path, and not what the next frame was reached by.
StackOK(g, ents, fr) ==
  /\ fr \in Seq(Stacked) /\ Len(fr) <= MaxHops
  /\ fr # <<>> => fr[1].node \in EntriesOf(g) \ ents
  /\ \A i \in 1..Len(fr) : fr[i].node \in g.node /\ fr[i].node[1] # "target"
  /\ \A i \in 1..(Len(fr) - 1) :
        /\ [src |-> fr[i].node, kind |-> fr[i + 1].via, dst |-> fr[i + 1].node] \in g.edge
        /\ [kind |-> fr[i + 1].via, dst |-> fr[i + 1].node] \notin fr[i].left
  /\ \A i, j \in 1..Len(fr) : fr[i].node = fr[j].node => i = j
  /\ \A i \in 1..Len(fr) : \A s \in fr[i].left :
        s \in Adjacent(g, fr[i].node) /\ \A j \in 1..i : s.dst # fr[j].node

\* The i-th step of a chain, and a chain that begins with the first i frames.
Onto(n, e, i) == [kind |-> e[i], dst |-> n[i + 1]]
Along(fr, i, n, e) ==
  /\ i <= Len(e)
  /\ \A j \in 1..i : n[j] = fr[j].node
  /\ \A j \in 1..(i - 1) : e[j] = fr[j + 1].via

\* A chain the search has not come to: its entry is not taken, or it leaves the stack
\* by a successor that is left.
Ahead(ents, fr, n, e) ==
  \/ n[1] \in ents
  \/ \E i \in 1..Len(fr) : Along(fr, i, n, e) /\ Onto(n, e, i) \in fr[i].left

\* A chain that goes on from the whole stack by the successor s.
Through(fr, s, n, e) == Along(fr, Len(fr), n, e) /\ Onto(n, e, Len(fr)) = s

\* The stack without the successor s of its last frame.
Passed(fr, s) == [fr EXCEPT ![Len(fr)].left = @ \ {s}]

-----------------------------------------------------------------------------
\* What a graph's chain is made of.
LEMMA ChainIs ==
  ASSUME NEW g, IsGraph(g), NEW n, NEW e, Chain(g, n, e)
  PROVE  /\ Len(e) \in Nat \ {0} /\ Len(n) \in Nat /\ DOMAIN n = 1..Len(n) /\ DOMAIN e = 1..Len(e)
         /\ Len(n) = Len(e) + 1
         /\ \A i \in 1..Len(n) : n[i] \in g.node /\ n[i] \in Node
         /\ \A i \in 1..Len(e) : e[i] \in EdgeKind /\ n[i][1] # "target"
<1>1. n \in Seq(g.node) /\ e \in Seq(EdgeKind) /\ Len(n) = Len(e) + 1
  BY DEF Chain
<1>2. /\ Len(n) \in Nat /\ DOMAIN n = 1..Len(n) /\ Len(e) \in Nat /\ DOMAIN e = 1..Len(e)
      /\ \A i \in 1..Len(n) : n[i] \in g.node
      /\ \A i \in 1..Len(e) : e[i] \in EdgeKind
  BY <1>1, LenProperties, ElementOfSeq
<1>3. g.node \subseteq Node
  BY DEF IsGraph
<1>4. Len(e) # 0
  <2>1. n[1][1] = "entry" /\ n[Len(n)][1] = "target"
    BY DEF Chain, EntriesOf
  <2>2. Len(n) # 1
    BY <2>1
  <2> QED BY <2>2, <1>1, <1>2
<1>5. \A i \in 1..Len(e) : n[i][1] # "target"
  <2> TAKE i \in 1..Len(e)
  <2>1. [src |-> n[i], kind |-> e[i], dst |-> n[i + 1]] \in g.edge
    BY DEF Chain
  <2>2. [src |-> n[i], kind |-> e[i], dst |-> n[i + 1]].src[1] # "target"
    BY <2>1 DEF IsGraph
  <2> QED BY <2>2
<1> QED BY <1>1, <1>2, <1>3, <1>4, <1>5

\* Successors in a graph.
LEMMA AdjacentIs ==
  ASSUME NEW g, IsGraph(g), NEW node
  PROVE  /\ Adjacent(g, node) \subseteq Onward
         /\ \A s \in Adjacent(g, node) :
               s.dst \in g.node /\ [src |-> node, kind |-> s.kind, dst |-> s.dst] \in g.edge
         /\ \A k, d : [src |-> node, kind |-> k, dst |-> d] \in g.edge
                        => [kind |-> k, dst |-> d] \in Adjacent(g, node)
<1>1. \A a \in g.edge : /\ a.kind \in EdgeKind /\ a.dst \in g.node /\ a.dst \in Node
                        /\ a = [src |-> a.src, kind |-> a.kind, dst |-> a.dst]
  BY DEF IsGraph
<1>2. ASSUME NEW s \in Adjacent(g, node)
      PROVE  /\ s \in Onward /\ s.dst \in g.node
             /\ [src |-> node, kind |-> s.kind, dst |-> s.dst] \in g.edge
  <2>1. PICK a \in g.edge : a.src = node /\ s = [kind |-> a.kind, dst |-> a.dst]
    BY <1>2 DEF Adjacent
  <2>2. s.kind = a.kind /\ s.dst = a.dst
    BY <2>1
  <2> QED BY <1>1, <2>1, <2>2 DEF Onward
<1>3. ASSUME NEW k, NEW d, [src |-> node, kind |-> k, dst |-> d] \in g.edge
      PROVE  [kind |-> k, dst |-> d] \in Adjacent(g, node)
  <2>1. /\ [src |-> node, kind |-> k, dst |-> d].src = node
        /\ [src |-> node, kind |-> k, dst |-> d].kind = k
        /\ [src |-> node, kind |-> k, dst |-> d].dst = d
    OBVIOUS
  <2> QED BY <1>3, <2>1 DEF Adjacent
<1> QED BY <1>2, <1>3

\* What a frame of the stack holds.
LEMMA StackIs ==
  ASSUME NEW g, NEW ents, NEW fr, StackOK(g, ents, fr)
  PROVE  /\ Len(fr) \in Nat /\ DOMAIN fr = 1..Len(fr) /\ (fr # <<>> <=> Len(fr) > 0)
         /\ \A i \in 1..Len(fr) : /\ fr[i] \in Stacked /\ fr[i].node \in Node /\ fr[i].left \subseteq Onward
                                  /\ fr[i].via \in EdgeKind \cup {"none"}
<1>1. fr \in Seq(Stacked)
  BY DEF StackOK
<1>2. /\ Len(fr) \in Nat /\ DOMAIN fr = 1..Len(fr) /\ (fr # <<>> <=> Len(fr) > 0)
      /\ \A i \in 1..Len(fr) : fr[i] \in Stacked
  BY <1>1, LenProperties, ElementOfSeq, EmptySeq
<1> QED BY <1>2 DEF Stacked

\* Passing over a successor changes nothing else of the stack.
LEMMA PassedIs ==
  ASSUME NEW g, NEW ents, NEW fr, StackOK(g, ents, fr), fr # <<>>, NEW s
  PROVE  LET new == Passed(fr, s) IN
         /\ new \in Seq(Stacked) /\ Len(new) = Len(fr) /\ new # <<>>
         /\ \A i \in 1..Len(fr) : new[i].node = fr[i].node /\ new[i].via = fr[i].via
         /\ \A i \in 1..(Len(fr) - 1) : new[i].left = fr[i].left
         /\ new[Len(fr)].left = fr[Len(fr)].left \ {s}
<1> DEFINE L == Len(fr)
           last == [fr[L] EXCEPT !.left = @ \ {s}]
           new == Passed(fr, s)
<1>1. L \in Nat /\ L > 0 /\ L \in 1..L /\ DOMAIN fr = 1..L /\ fr \in Seq(Stacked) /\ fr[L] \in Stacked
  BY StackIs DEF StackOK
<1>2. /\ last \in Stacked /\ last.node = fr[L].node /\ last.via = fr[L].via
      /\ last.left = fr[L].left \ {s}
  BY <1>1 DEF Stacked
<1>3. new = [fr EXCEPT ![L] = last]
  BY DEF Passed
<1> HIDE DEF last, new, L
<1>4. /\ new \in Seq(Stacked) /\ Len(new) = Len(fr)
      /\ \A i \in 1..L : new[i] = IF i = L THEN last ELSE fr[i]
  BY <1>1, <1>2, <1>3, ExceptSeq DEF L
<1>5. new # <<>>
  BY <1>4, <1>1, EmptySeq DEF L
<1>6. \A i \in 1..(L - 1) : new[i] = fr[i]
  BY <1>4, <1>1
<1> QED BY <1>1, <1>2, <1>4, <1>5, <1>6 DEF L, new

\* The stack stays well formed.
LEMMA PassedOK ==
  ASSUME NEW g, NEW ents, NEW fr, StackOK(g, ents, fr), fr # <<>>, NEW s
  PROVE  StackOK(g, ents, Passed(fr, s))
<1> DEFINE new == Passed(fr, s)
<1>1. /\ new \in Seq(Stacked) /\ Len(new) = Len(fr) /\ new # <<>>
      /\ \A i \in 1..Len(fr) : new[i].node = fr[i].node /\ new[i].via = fr[i].via
      /\ \A i \in 1..(Len(fr) - 1) : new[i].left = fr[i].left
      /\ new[Len(fr)].left = fr[Len(fr)].left \ {s}
  BY PassedIs
<1>2. Len(fr) \in Nat /\ Len(fr) > 0
  BY StackIs
<1>3. \A i \in 1..Len(fr) : new[i].left \subseteq fr[i].left
  BY <1>1, <1>2
<1> HIDE DEF new
<1>4. new[1].node \in EntriesOf(g) \ ents
  BY <1>1, <1>2 DEF StackOK
<1>5. \A i \in 1..Len(new) : new[i].node \in g.node /\ new[i].node[1] # "target"
  BY <1>1 DEF StackOK
<1>6. \A i \in 1..(Len(new) - 1) :
        /\ [src |-> new[i].node, kind |-> new[i + 1].via, dst |-> new[i + 1].node] \in g.edge
        /\ [kind |-> new[i + 1].via, dst |-> new[i + 1].node] \notin new[i].left
  <2> TAKE i \in 1..(Len(new) - 1)
  <2>1. i \in 1..Len(fr) /\ i + 1 \in 1..Len(fr) /\ i \in 1..(Len(fr) - 1)
    BY <1>1, <1>2
  <2>2. /\ [src |-> fr[i].node, kind |-> fr[i + 1].via, dst |-> fr[i + 1].node] \in g.edge
        /\ [kind |-> fr[i + 1].via, dst |-> fr[i + 1].node] \notin fr[i].left
    BY <2>1 DEF StackOK
  <2> QED BY <2>1, <2>2, <1>1
<1>7. \A i, j \in 1..Len(new) : new[i].node = new[j].node => i = j
  BY <1>1 DEF StackOK
<1>8. \A i \in 1..Len(new) : \A t \in new[i].left :
        t \in Adjacent(g, new[i].node) /\ \A j \in 1..i : t.dst # new[j].node
  <2> TAKE i \in 1..Len(new)
  <2> TAKE t \in new[i].left
  <2>1. i \in 1..Len(fr) /\ t \in fr[i].left /\ \A j \in 1..i : j \in 1..Len(fr)
    BY <1>1, <1>2, <1>3
  <2>2. t \in Adjacent(g, fr[i].node) /\ \A j \in 1..i : t.dst # fr[j].node
    BY <2>1 DEF StackOK
  <2> QED BY <2>1, <2>2, <1>1
<1>9. Len(new) <= MaxHops
  BY <1>1 DEF StackOK
<1> QED BY <1>1, <1>4, <1>5, <1>6, <1>7, <1>8, <1>9 DEF StackOK, new

\* A chain is ahead of the search until the successor it goes through is passed.
LEMMA PassedAhead ==
  ASSUME NEW g, NEW ents, NEW fr, StackOK(g, ents, fr), fr # <<>>,
         NEW s \in fr[Len(fr)].left, NEW n, NEW e
  PROVE  /\ Ahead(ents, fr, n, e) <=> Ahead(ents, Passed(fr, s), n, e) \/ Through(fr, s, n, e)
         /\ ~(Ahead(ents, Passed(fr, s), n, e) /\ Through(fr, s, n, e))
<1> DEFINE new == Passed(fr, s)
           L == Len(fr)
<1>1. /\ Len(new) = L
      /\ \A i \in 1..L : new[i].node = fr[i].node /\ new[i].via = fr[i].via
      /\ \A i \in 1..(L - 1) : new[i].left = fr[i].left
      /\ new[L].left = fr[L].left \ {s}
  BY PassedIs
<1>2. L \in Nat /\ L > 0
  BY StackIs
<1> HIDE DEF new, L
<1>3. \A i \in 1..L : Along(new, i, n, e) <=> Along(fr, i, n, e)
  <2> TAKE i \in 1..L
  <2>1. \A j \in 1..i : new[j].node = fr[j].node
    BY <1>1, <1>2
  <2>2. \A j \in 1..(i - 1) : new[j + 1].via = fr[j + 1].via
    BY <1>1, <1>2
  <2> QED BY <2>1, <2>2 DEF Along
<1>4. ASSUME Ahead(ents, fr, n, e) PROVE Ahead(ents, new, n, e) \/ Through(fr, s, n, e)
  <2>1. CASE n[1] \in ents
    BY <2>1 DEF Ahead
  <2>2. ASSUME NEW i \in 1..L, Along(fr, i, n, e), Onto(n, e, i) \in fr[i].left
        PROVE  Ahead(ents, new, n, e) \/ Through(fr, s, n, e)
    <3>1. CASE i = L /\ Onto(n, e, i) = s
      BY <3>1, <2>2 DEF Through, L
    <3>2. CASE i = L /\ Onto(n, e, i) # s
      <4>1. Onto(n, e, i) \in new[i].left
        BY <3>2, <2>2, <1>1
      <4> QED BY <4>1, <2>2, <1>1, <1>3 DEF Ahead
    <3>3. CASE i # L
      <4>1. Onto(n, e, i) \in new[i].left
        BY <3>3, <2>2, <1>1, <1>2
      <4> QED BY <4>1, <2>2, <1>1, <1>3 DEF Ahead
    <3> QED BY <3>1, <3>2, <3>3
  <2> QED BY <1>4, <2>1, <2>2 DEF Ahead, L
<1>5. ASSUME Ahead(ents, new, n, e) PROVE Ahead(ents, fr, n, e) /\ ~Through(fr, s, n, e)
  <2>1. CASE n[1] \in ents
    <3>1. fr[1].node \notin ents
      BY DEF StackOK
    <3>2. ~Through(fr, s, n, e)
      BY <2>1, <3>1, <1>2 DEF Through, Along, L
    <3> QED BY <2>1, <3>2 DEF Ahead
  <2>2. ASSUME NEW i \in 1..L, Along(new, i, n, e), Onto(n, e, i) \in new[i].left
        PROVE  Ahead(ents, fr, n, e) /\ ~Through(fr, s, n, e)
    <3>1. Onto(n, e, i) \in fr[i].left /\ Along(fr, i, n, e)
      BY <2>2, <1>1, <1>2, <1>3
    <3>2. ASSUME Through(fr, s, n, e) PROVE FALSE
      <4>1. CASE i = L
        BY <4>1, <3>2, <2>2, <1>1 DEF Through, L
      <4>2. CASE i # L
        <5>1. i \in 1..(L - 1)
          BY <4>2, <1>2
        <5>2. n[i + 1] = fr[i + 1].node /\ e[i] = fr[i + 1].via
          BY <3>2, <5>1, <1>2 DEF Through, Along, L
        <5>3. [kind |-> fr[i + 1].via, dst |-> fr[i + 1].node] \notin fr[i].left
          BY <5>1 DEF StackOK, L
        <5> QED BY <3>1, <5>2, <5>3 DEF Onto
      <4> QED BY <4>1, <4>2
    <3> QED BY <3>1, <3>2 DEF Ahead, L
  <2> QED BY <1>5, <1>1, <2>1, <2>2 DEF Ahead
<1>6. ASSUME Through(fr, s, n, e) PROVE Ahead(ents, fr, n, e)
  <2>1. L \in 1..L
    BY <1>2
  <2> QED BY <1>6, <2>1 DEF Through, Ahead, L
<1> QED BY <1>4, <1>5, <1>6 DEF new

\* The stack after a descent by the successor s.
Descended(g, fr, s) == Append(Passed(fr, s), Frame(g, s.dst, s.kind, Range(ChainNodes(fr))))

\* The nodes of the path in the stack.
LEMMA VisitedIs ==
  ASSUME NEW g, NEW ents, NEW fr, StackOK(g, ents, fr)
  PROVE  \A d : d \in Range(ChainNodes(fr)) <=> \E j \in 1..Len(fr) : d = fr[j].node
<1>1. DOMAIN fr = 1..Len(fr)
  BY StackIs
<1> QED BY <1>1 DEF Range, ChainNodes

\* A descent adds one frame to the stack without its successor.
LEMMA DescendedIs ==
  ASSUME NEW g, IsGraph(g), NEW ents, NEW fr, StackOK(g, ents, fr), fr # <<>>,
         NEW s \in fr[Len(fr)].left
  PROVE  LET new == Descended(g, fr, s)
             L == Len(fr)
         IN  /\ new \in Seq(Stacked) /\ Len(new) = L + 1
             /\ \A i \in 1..L : new[i] = Passed(fr, s)[i]
             /\ new[L + 1].node = s.dst /\ new[L + 1].via = s.kind
             /\ \A t : t \in new[L + 1].left <=>
                   /\ t \in Adjacent(g, s.dst) /\ t.dst # s.dst
                   /\ \A j \in 1..L : t.dst # fr[j].node
<1> DEFINE L == Len(fr)
           top == Frame(g, s.dst, s.kind, Range(ChainNodes(fr)))
<1>1. L \in Nat /\ L > 0 /\ L \in 1..L
  BY StackIs
<1>2. s \in Adjacent(g, fr[L].node)
  BY <1>1 DEF StackOK
<1>3. s \in Onward /\ s.kind \in EdgeKind /\ s.dst \in Node
  BY <1>2, AdjacentIs DEF Onward
<1>4. top.node = s.dst /\ top.via = s.kind /\ top \in Stacked
  <2>1. top.left \subseteq Onward
    BY AdjacentIs DEF Frame
  <2> QED BY <1>3, <2>1 DEF Frame, Stacked
<1>5. \A t : t \in top.left <=> /\ t \in Adjacent(g, s.dst) /\ t.dst # s.dst
                                /\ \A j \in 1..L : t.dst # fr[j].node
  <2>1. \A t : t \in top.left <=> t \in Adjacent(g, s.dst) /\ t.dst \notin Range(ChainNodes(fr)) \cup {s.dst}
    BY DEF Frame
  <2> QED BY <2>1, VisitedIs
<1> HIDE DEF top
<1>6. Passed(fr, s) \in Seq(Stacked) /\ Len(Passed(fr, s)) = L
  BY PassedIs
<1>7. Descended(g, fr, s) = Append(Passed(fr, s), top)
  BY DEF Descended, top
<1> QED BY <1>4, <1>5, <1>6, <1>7, AppendProperties

\* It keeps the stack well formed.
LEMMA DescendedOK ==
  ASSUME NEW g, IsGraph(g), NEW ents, NEW fr, StackOK(g, ents, fr), fr # <<>>,
         NEW s \in fr[Len(fr)].left, s.dst[1] # "target", Len(fr) < MaxHops
  PROVE  StackOK(g, ents, Descended(g, fr, s))
<1> DEFINE L == Len(fr)
           old == Passed(fr, s)
           new == Descended(g, fr, s)
<1>1. L \in Nat /\ L > 0 /\ L \in 1..L
  BY StackIs
<1>2. StackOK(g, ents, old) /\ Len(old) = L /\ old # <<>>
      /\ \A i \in 1..L : old[i].node = fr[i].node /\ old[i].via = fr[i].via
      /\ old[L].left = fr[L].left \ {s}
  BY PassedOK, PassedIs
<1>3. /\ new \in Seq(Stacked) /\ Len(new) = L + 1
      /\ \A i \in 1..L : new[i] = old[i]
      /\ new[L + 1].node = s.dst /\ new[L + 1].via = s.kind
      /\ \A t : t \in new[L + 1].left <=>
            /\ t \in Adjacent(g, s.dst) /\ t.dst # s.dst
            /\ \A j \in 1..L : t.dst # fr[j].node
  BY DescendedIs
<1>4. s \in Adjacent(g, fr[L].node) /\ \A j \in 1..L : s.dst # fr[j].node
  BY <1>1 DEF StackOK
<1>5. /\ s \in Onward /\ s = [kind |-> s.kind, dst |-> s.dst] /\ s.dst \in g.node
      /\ [src |-> fr[L].node, kind |-> s.kind, dst |-> s.dst] \in g.edge
  BY <1>4, AdjacentIs DEF Onward
<1> HIDE DEF old, new, L
<1>6. \A i \in 1..(L + 1) : i \in 1..L \/ i = L + 1
  BY <1>1
<1>7. new # <<>> /\ new[1].node \in EntriesOf(g) \ ents
  <2>1. new # <<>>
    BY <1>1, <1>3, EmptySeq
  <2>2. new[1] = old[1]
    BY <1>1, <1>3
  <2> QED BY <2>1, <2>2, <1>2 DEF StackOK
<1>8. \A i \in 1..Len(new) : new[i].node \in g.node /\ new[i].node[1] # "target"
  <2> TAKE i \in 1..Len(new)
  <2>1. CASE i \in 1..L
    BY <2>1, <1>2, <1>3 DEF StackOK
  <2>2. CASE i = L + 1
    BY <2>2, <1>3, <1>5
  <2> QED BY <2>1, <2>2, <1>3, <1>6
<1>9. \A i \in 1..(Len(new) - 1) :
        /\ [src |-> new[i].node, kind |-> new[i + 1].via, dst |-> new[i + 1].node] \in g.edge
        /\ [kind |-> new[i + 1].via, dst |-> new[i + 1].node] \notin new[i].left
  <2> TAKE i \in 1..(Len(new) - 1)
  <2>1. i \in 1..L /\ (i = L \/ (i \in 1..(L - 1) /\ i + 1 \in 1..L))
    BY <1>1, <1>3
  <2>2. CASE i = L
    <3>1. new[i].node = fr[L].node /\ new[i].left = fr[L].left \ {s}
      BY <2>1, <2>2, <1>2, <1>3
    <3>2. [kind |-> new[i + 1].via, dst |-> new[i + 1].node] = s
      BY <2>2, <1>3, <1>5
    <3>3. [src |-> new[i].node, kind |-> new[i + 1].via, dst |-> new[i + 1].node] \in g.edge
      BY <3>1, <2>2, <1>3, <1>5
    <3> QED BY <3>1, <3>2, <3>3
  <2>3. CASE i \in 1..(L - 1) /\ i + 1 \in 1..L
    <3>1. new[i] = old[i] /\ new[i + 1] = old[i + 1]
      BY <2>1, <2>3, <1>3
    <3>2. /\ [src |-> old[i].node, kind |-> old[i + 1].via, dst |-> old[i + 1].node] \in g.edge
          /\ [kind |-> old[i + 1].via, dst |-> old[i + 1].node] \notin old[i].left
      BY <2>3, <1>2 DEF StackOK
    <3> QED BY <3>1, <3>2
  <2> QED BY <2>1, <2>2, <2>3
<1>10. \A i, j \in 1..Len(new) : new[i].node = new[j].node => i = j
  <2>1. \A i \in 1..L : new[i].node = fr[i].node /\ new[i].node # s.dst
    BY <1>2, <1>3, <1>4
  <2>2. \A i, j \in 1..L : new[i].node = new[j].node => i = j
    BY <2>1 DEF StackOK, L
  <2> QED BY <2>1, <2>2, <1>3, <1>6
<1>11. \A i \in 1..Len(new) : \A t \in new[i].left :
         t \in Adjacent(g, new[i].node) /\ \A j \in 1..i : t.dst # new[j].node
  <2> TAKE i \in 1..Len(new)
  <2> TAKE t \in new[i].left
  <2>1. CASE i \in 1..L
    <3>1. t \in old[i].left /\ new[i] = old[i] /\ \A j \in 1..i : j \in 1..L /\ new[j] = old[j]
      BY <2>1, <1>1, <1>3
    <3>2. t \in Adjacent(g, old[i].node) /\ \A j \in 1..i : t.dst # old[j].node
      BY <3>1, <2>1, <1>2 DEF StackOK
    <3> QED BY <3>1, <3>2
  <2>2. CASE i = L + 1
    <3>1. t \in Adjacent(g, s.dst) /\ t.dst # s.dst /\ \A j \in 1..L : t.dst # fr[j].node
      BY <2>2, <1>3
    <3>2. \A j \in 1..L : new[j].node = fr[j].node
      BY <1>2, <1>3
    <3> QED BY <3>1, <3>2, <2>2, <1>3, <1>6
  <2> QED BY <2>1, <2>2, <1>3, <1>6
<1>12. Len(new) <= MaxHops
  BY <1>1, <1>3, CapsAssumption DEF L
<1> QED BY <1>3, <1>7, <1>8, <1>9, <1>10, <1>11, <1>12 DEF StackOK, new

\* A descent brings no chain ahead of the search that was not, and leaves every chain
\* ahead of it that was.
LEMMA DescendedAhead ==
  ASSUME NEW g, IsGraph(g), NEW ents, NEW fr, StackOK(g, ents, fr), fr # <<>>,
         NEW s \in fr[Len(fr)].left, s.dst[1] # "target", NEW n, NEW e, Len(e) \in Nat
  PROVE  /\ Ahead(ents, Descended(g, fr, s), n, e) => Ahead(ents, fr, n, e)
         /\ Chain(g, n, e) /\ Ahead(ents, fr, n, e) => Ahead(ents, Descended(g, fr, s), n, e)
<1> DEFINE L == Len(fr)
           old == Passed(fr, s)
           new == Descended(g, fr, s)
<1>1. L \in Nat /\ L > 0 /\ L \in 1..L
  BY StackIs
<1>2. Len(old) = L
      /\ \A i \in 1..L : old[i].node = fr[i].node /\ old[i].via = fr[i].via
  BY PassedIs
<1>3. /\ Len(new) = L + 1
      /\ \A i \in 1..L : new[i] = old[i]
      /\ new[L + 1].node = s.dst /\ new[L + 1].via = s.kind
      /\ \A t : t \in new[L + 1].left <=>
            /\ t \in Adjacent(g, s.dst) /\ t.dst # s.dst
            /\ \A j \in 1..L : t.dst # fr[j].node
  BY DescendedIs
<1>4. s \in Adjacent(g, fr[L].node)
  BY <1>1 DEF StackOK
<1>5. s = [kind |-> s.kind, dst |-> s.dst]
  BY <1>4, AdjacentIs DEF Onward
<1>a. /\ Ahead(ents, fr, n, e) <=> Ahead(ents, old, n, e) \/ Through(fr, s, n, e)
  BY PassedAhead
<1> HIDE DEF old, new, L
<1>6. \A i \in 1..L : Along(new, i, n, e) <=> Along(old, i, n, e)
  <2> TAKE i \in 1..L
  <2>1. \A j \in 1..i : new[j] = old[j]
    BY <1>1, <1>3
  <2>2. \A j \in 1..(i - 1) : new[j + 1] = old[j + 1]
    BY <1>1, <1>3
  <2> QED BY <2>1, <2>2 DEF Along
<1>7. Ahead(ents, new, n, e) <=>
        \/ Ahead(ents, old, n, e)
        \/ Along(new, L + 1, n, e) /\ Onto(n, e, L + 1) \in new[L + 1].left
  <2>1. \A i \in 1..(L + 1) : i \in 1..L \/ i = L + 1
    BY <1>1
  <2>2. \A i \in 1..L : i \in 1..(L + 1)
    BY <1>1
  <2>3. L + 1 \in 1..(L + 1)
    BY <1>1
  <2> QED BY <2>1, <2>2, <2>3, <1>2, <1>3, <1>6 DEF Ahead
<1>8. ASSUME Along(new, L + 1, n, e) PROVE Through(fr, s, n, e)
  <2>1. \A j \in 1..L : n[j] = fr[j].node
    <3> TAKE j \in 1..L
    <3>1. j \in 1..(L + 1)
      BY <1>1
    <3> QED BY <3>1, <1>2, <1>3, <1>8 DEF Along
  <2>2. \A j \in 1..(L - 1) : e[j] = fr[j + 1].via
    <3> TAKE j \in 1..(L - 1)
    <3>1. j + 1 \in 1..L /\ j \in 1..((L + 1) - 1)
      BY <1>1
    <3>2. new[j + 1].via = fr[j + 1].via
      BY <3>1, <1>2, <1>3
    <3> QED BY <3>1, <3>2, <1>8 DEF Along
  <2>3. e[L] = s.kind /\ n[L + 1] = s.dst
    <3>1. L \in 1..((L + 1) - 1) /\ L + 1 \in 1..(L + 1)
      BY <1>1
    <3> QED BY <3>1, <1>3, <1>8 DEF Along
  <2>4. L <= Len(e)
    <3>1. L + 1 <= Len(e)
      BY <1>8 DEF Along
    <3> QED BY <3>1, <1>1
  <2> QED BY <2>1, <2>2, <2>3, <2>4, <1>5 DEF Through, Along, Onto, L
<1>9. ASSUME Chain(g, n, e), Through(fr, s, n, e)
      PROVE  Along(new, L + 1, n, e) /\ Onto(n, e, L + 1) \in new[L + 1].left
  <2>0. /\ Len(e) \in Nat /\ Len(n) = Len(e) + 1 /\ L <= Len(e) /\ Len(n) \in Nat
        /\ DOMAIN n = 1..Len(n)
    BY <1>9, ChainIs DEF Through, Along, L
  <2>1. /\ \A j \in 1..L : n[j] = fr[j].node
        /\ \A j \in 1..(L - 1) : e[j] = fr[j + 1].via
        /\ e[L] = s.kind /\ n[L + 1] = s.dst
    BY <1>5, <1>9 DEF Through, Along, Onto, L
  <2>2. L + 1 <= Len(e)
    <3>1. n[L + 1][1] # "target" /\ n[Len(n)][1] = "target"
      BY <2>1, <1>9 DEF Chain
    <3>2. L + 1 # Len(n)
      BY <3>1
    <3> QED BY <3>2, <2>0, <1>1
  <2>3. \A j \in 1..(L + 1) : n[j] = new[j].node
    <3> TAKE j \in 1..(L + 1)
    <3>1. j \in 1..L \/ j = L + 1
      BY <1>1
    <3> QED BY <3>1, <2>1, <1>2, <1>3
  <2>4. \A j \in 1..((L + 1) - 1) : e[j] = new[j + 1].via
    <3> TAKE j \in 1..((L + 1) - 1)
    <3>1. j = L \/ (j \in 1..(L - 1) /\ j + 1 \in 1..L)
      BY <1>1
    <3> QED BY <3>1, <2>1, <1>2, <1>3
  <2>5. Along(new, L + 1, n, e)
    BY <2>2, <2>3, <2>4 DEF Along
  <2>6. [src |-> n[L + 1], kind |-> e[L + 1], dst |-> n[(L + 1) + 1]] \in g.edge
    <3>1. L + 1 \in 1..Len(e)
      BY <2>0, <2>2, <1>1
    <3> QED BY <3>1, <1>9 DEF Chain
  <2>7. Onto(n, e, L + 1) \in Adjacent(g, s.dst)
    BY <2>1, <2>6, AdjacentIs DEF Onto
  <2>8. \A j \in 1..(L + 1) : n[(L + 1) + 1] # n[j]
    <3> TAKE j \in 1..(L + 1)
    <3>1. j \in DOMAIN n /\ (L + 1) + 1 \in DOMAIN n /\ j # (L + 1) + 1
      BY <2>0, <2>2, <1>1
    <3> QED BY <3>1, <1>9 DEF Chain, IsInjective
  <2>9. n[(L + 1) + 1] # s.dst /\ \A j \in 1..L : n[(L + 1) + 1] # fr[j].node
    <3>1. L + 1 \in 1..(L + 1) /\ \A j \in 1..L : j \in 1..(L + 1)
      BY <1>1
    <3> QED BY <3>1, <2>1, <2>8
  <2>10. Onto(n, e, L + 1).dst = n[(L + 1) + 1]
    BY DEF Onto
  <2> QED BY <2>5, <2>7, <2>9, <2>10, <1>3
<1> QED BY <1>7, <1>8, <1>9, <1>a DEF new

\* A return takes the last frame away: nothing is ahead that was not, and if nothing was
\* left in it, what was ahead still is.
LEMMA ReturnedIs ==
  ASSUME NEW g, NEW ents, NEW fr, StackOK(g, ents, fr), fr # <<>>
  PROVE  /\ StackOK(g, ents, Front(fr))
         /\ \A n, e : Ahead(ents, Front(fr), n, e) => Ahead(ents, fr, n, e)
         /\ fr[Len(fr)].left = {} =>
               \A n, e : Ahead(ents, fr, n, e) => Ahead(ents, Front(fr), n, e)
<1> DEFINE L == Len(fr)
           new == Front(fr)
<1>1. L \in Nat /\ L > 0 /\ fr \in Seq(Stacked) /\ \A i \in 1..L : fr[i] \in Stacked
  BY StackIs DEF StackOK
<1>2. new \in Seq(Stacked) /\ Len(new) = L - 1 /\ \A i \in 1..(L - 1) : new[i] = fr[i]
  <2>0. \A i \in 1..(L - 1) : fr[i] \in Stacked
    BY <1>1
  <2>1. new = SubSeq(fr, 1, L - 1)
    BY DEF Front
  <2> HIDE DEF new, L
  <2>2. /\ SubSeq(fr, 1, L - 1) \in Seq(Stacked)
        /\ Len(SubSeq(fr, 1, L - 1)) = IF 1 <= L - 1 THEN (L - 1) - 1 + 1 ELSE 0
        /\ \A i \in 1 .. ((L - 1) - 1 + 1) : SubSeq(fr, 1, L - 1)[i] = fr[1 + i - 1]
    <3>1. 1 \in Int /\ L - 1 \in Int
      BY <1>1
    <3> QED BY <3>1, <2>0, SubSeqProperties
  <2>3. Len(new) = L - 1
    BY <2>1, <2>2, <1>1
  <2>4. \A i \in 1..(L - 1) : new[i] = fr[i]
    <3> TAKE i \in 1..(L - 1)
    <3>1. i \in 1 .. ((L - 1) - 1 + 1) /\ 1 + i - 1 = i
      BY <1>1
    <3> QED BY <3>1, <2>1, <2>2
  <2> QED BY <2>1, <2>2, <2>3, <2>4
<1> HIDE DEF new, L
<1>3. \A i \in 1..(L - 1) : i \in 1..L /\ \A j \in 1..i : j \in 1..(L - 1)
  BY <1>1
<1>4. StackOK(g, ents, new)
  <2>1. new # <<>> => new[1].node \in EntriesOf(g) \ ents
    <3> HAVE new # <<>>
    <3>1. 1 \in 1..(L - 1)
      BY <1>1, <1>2, EmptySeq
    <3>2. fr # <<>> /\ new[1] = fr[1]
      BY <3>1, <1>2
    <3> QED BY <3>2 DEF StackOK
  <2>2. \A i \in 1..Len(new) : new[i].node \in g.node /\ new[i].node[1] # "target"
    BY <1>2, <1>3 DEF StackOK, L
  <2>3. \A i \in 1..(Len(new) - 1) :
          /\ [src |-> new[i].node, kind |-> new[i + 1].via, dst |-> new[i + 1].node] \in g.edge
          /\ [kind |-> new[i + 1].via, dst |-> new[i + 1].node] \notin new[i].left
    <3> TAKE i \in 1..(Len(new) - 1)
    <3>1. i \in 1..(L - 1) /\ i + 1 \in 1..(L - 1)
      BY <1>1, <1>2
    <3>2. new[i] = fr[i] /\ new[i + 1] = fr[i + 1]
      BY <3>1, <1>2
    <3> QED BY <3>1, <3>2 DEF StackOK, L
  <2>4. \A i, j \in 1..Len(new) : new[i].node = new[j].node => i = j
    BY <1>2, <1>3 DEF StackOK, L
  <2>5. \A i \in 1..Len(new) : \A s \in new[i].left :
          s \in Adjacent(g, new[i].node) /\ \A j \in 1..i : s.dst # new[j].node
    <3> TAKE i \in 1..Len(new)
    <3> TAKE s \in new[i].left
    <3>1. /\ new[i] = fr[i] /\ i \in 1..L
          /\ \A j \in 1..i : new[j] = fr[j]
      BY <1>2, <1>3
    <3>2. s \in Adjacent(g, fr[i].node) /\ \A j \in 1..i : s.dst # fr[j].node
      BY <3>1 DEF StackOK, L
    <3> QED BY <3>1, <3>2
  <2>6. Len(new) <= MaxHops
    BY <1>1, <1>2, CapsAssumption DEF StackOK, L
  <2> QED BY <1>2, <2>1, <2>2, <2>3, <2>4, <2>5, <2>6 DEF StackOK
<1>5. ASSUME NEW n, NEW e, NEW i \in 1..(L - 1)
      PROVE  Along(new, i, n, e) <=> Along(fr, i, n, e)
  <2>1. \A j \in 1..i : new[j] = fr[j]
    BY <1>2, <1>3
  <2>2. \A j \in 1..(i - 1) : new[j + 1] = fr[j + 1]
    BY <1>1, <1>2
  <2> QED BY <2>1, <2>2 DEF Along
<1>6. ASSUME NEW n, NEW e, Ahead(ents, new, n, e) PROVE Ahead(ents, fr, n, e)
  <2>1. CASE n[1] \in ents
    BY <2>1 DEF Ahead
  <2>2. ASSUME NEW i \in 1..(L - 1), Along(new, i, n, e), Onto(n, e, i) \in new[i].left
        PROVE  Ahead(ents, fr, n, e)
    <3>1. i \in 1..L /\ new[i] = fr[i]
      BY <1>2, <1>3
    <3> QED BY <3>1, <2>2, <1>5 DEF Ahead, L
  <2> QED BY <1>2, <1>6, <2>1, <2>2 DEF Ahead
<1>7. ASSUME fr[L].left = {}, NEW n, NEW e, Ahead(ents, fr, n, e)
      PROVE  Ahead(ents, new, n, e)
  <2>1. CASE n[1] \in ents
    BY <2>1 DEF Ahead
  <2>2. ASSUME NEW i \in 1..L, Along(fr, i, n, e), Onto(n, e, i) \in fr[i].left
        PROVE  Ahead(ents, new, n, e)
    <3>1. i # L
      BY <1>7, <2>2
    <3>2. i \in 1..(L - 1)
      BY <3>1, <1>1
    <3>3. new[i] = fr[i]
      BY <3>2, <1>2
    <3> QED BY <3>2, <3>3, <2>2, <1>2, <1>5 DEF Ahead
  <2> QED BY <1>7, <2>1, <2>2 DEF Ahead, L
<1> QED BY <1>4, <1>6, <1>7 DEF new, L

\* The stack of a visit to an entry.
Started(g, entry) == <<Frame(g, entry, "none", {})>>

\* The search of a new entry begins with every chain from it ahead.
LEMMA StartedIs ==
  ASSUME NEW g, IsGraph(g), NEW ents, ents \subseteq EntriesOf(g), NEW entry \in ents
  PROVE  /\ StackOK(g, ents \ {entry}, Started(g, entry))
         /\ \A n, e : Ahead(ents \ {entry}, Started(g, entry), n, e) => Ahead(ents, <<>>, n, e)
         /\ \A n, e : Chain(g, n, e) /\ Ahead(ents, <<>>, n, e)
                        => Ahead(ents \ {entry}, Started(g, entry), n, e)
<1> DEFINE top == Frame(g, entry, "none", {})
           new == Started(g, entry)
<1>0. entry \in g.node /\ entry[1] = "entry" /\ entry \in Node
  BY DEF EntriesOf, IsGraph
<1>1. top.node = entry /\ top.via = "none" /\ top \in Stacked
      /\ \A t : t \in top.left <=> t \in Adjacent(g, entry) /\ t.dst # entry
  <2>1. top.left \subseteq Onward
    BY AdjacentIs DEF Frame
  <2> QED BY <1>0, <2>1 DEF Frame, Stacked
<1>2. new = <<top>>
  BY DEF Started
<1> HIDE DEF top, new
<1>3. new \in Seq(Stacked) /\ Len(new) = 1 /\ new[1] = top
  BY <1>1, <1>2
<1>4. \A i \in 1..1 : i = 1
  OBVIOUS
<1>5. StackOK(g, ents \ {entry}, new)
  <2>1. Len(new) <= MaxHops
    BY <1>3, CapsAssumption
  <2>2. \A i \in 1..Len(new) : new[i].node \in g.node /\ new[i].node[1] # "target"
    BY <1>0, <1>1, <1>3, <1>4
  <2>3. \A i \in 1..(Len(new) - 1) : FALSE
    BY <1>3
  <2>4. \A i, j \in 1..Len(new) : new[i].node = new[j].node => i = j
    BY <1>3
  <2>5. \A i \in 1..Len(new) : \A s \in new[i].left :
          s \in Adjacent(g, new[i].node) /\ \A j \in 1..i : s.dst # new[j].node
    BY <1>1, <1>3, <1>4
  <2>6. new[1].node \in EntriesOf(g) \ (ents \ {entry})
    BY <1>1, <1>3
  <2> QED BY <1>3, <2>1, <2>2, <2>3, <2>4, <2>5, <2>6 DEF StackOK
<1>6. ASSUME NEW n, NEW e, Ahead(ents \ {entry}, new, n, e) PROVE Ahead(ents, <<>>, n, e)
  <2>1. CASE n[1] \in ents \ {entry}
    BY <2>1 DEF Ahead
  <2>2. ASSUME NEW i \in 1..1, Along(new, i, n, e) PROVE Ahead(ents, <<>>, n, e)
    <3>1. i = 1 /\ 1 \in 1..i
      BY <1>4
    <3>2. n[1] = entry
      BY <2>2, <3>1, <1>1, <1>3 DEF Along
    <3> QED BY <3>2 DEF Ahead
  <2> QED BY <1>6, <2>1, <2>2, <1>3 DEF Ahead
<1>7. ASSUME NEW n, NEW e, Chain(g, n, e), Ahead(ents, <<>>, n, e)
      PROVE  Ahead(ents \ {entry}, new, n, e)
  <2>1. n[1] \in ents
    <3>1. Len(<<>>) = 0 /\ \A i \in 1..0 : FALSE
      OBVIOUS
    <3> QED BY <3>1, <1>7 DEF Ahead
  <2>2. CASE n[1] # entry
    BY <2>1, <2>2 DEF Ahead
  <2>3. CASE n[1] = entry
    <3>0. Len(e) \in Nat /\ 1 <= Len(e) /\ 1 \in 1..Len(e) /\ Len(n) = Len(e) + 1 /\ DOMAIN n = 1..Len(n)
      BY <1>7, ChainIs
    <3>1. [src |-> entry, kind |-> e[1], dst |-> n[1 + 1]] \in g.edge
      BY <3>0, <2>3, <1>7 DEF Chain
    <3>2. Onto(n, e, 1) \in Adjacent(g, entry)
      BY <3>1, AdjacentIs DEF Onto
    <3>3. n[1 + 1] # entry
      <4>1. 1 \in DOMAIN n /\ 1 + 1 \in DOMAIN n /\ 1 # 1 + 1
        BY <3>0
      <4> QED BY <4>1, <2>3, <1>7 DEF Chain, IsInjective
    <3>4. Onto(n, e, 1) \in new[1].left
      BY <3>2, <3>3, <1>1, <1>3 DEF Onto
    <3>5. Along(new, 1, n, e)
      BY <3>0, <2>3, <1>1, <1>3 DEF Along
    <3>6. 1 \in 1..Len(new)
      BY <1>3
    <3> QED BY <3>4, <3>5, <3>6 DEF Ahead
  <2> QED BY <2>2, <2>3
<1> QED BY <1>5, <1>6, <1>7 DEF new

-----------------------------------------------------------------------------
(* The invariant.                                                         *)

\* What was found is chains of the graph within the depth, each made from its nodes and
\* edges, and there are no more of them than the ceiling.
FoundOK(m, g, fd) ==
  /\ fd \in Seq(Path) /\ Len(fd) <= Ceiling
  /\ \A k \in 1..Len(fd) :
        /\ Chain(g, fd[k].nodes, fd[k].edges) /\ Len(fd[k].edges) <= MaxHops
        /\ fd[k] = MakePath(m, fd[k].nodes, fd[k].edges)

\* The chain along these nodes and edges is found.
Holds(fd, n, e) == \E k \in 1..Len(fd) : fd[k].nodes = n /\ fd[k].edges = e

\* Every chain is found or ahead, or too long, and then the search knows of one.
Covered(g, ents, fr, fd, capped) ==
  \A n, e : Chain(g, n, e) => \/ Holds(fd, n, e)
                              \/ Ahead(ents, fr, n, e)
                              \/ Len(e) > MaxHops /\ capped

\* No chain is found twice, and none that is found is ahead.
Once(ents, fr, fd) ==
  /\ \A j, k \in 1..Len(fd) : fd[j].nodes = fd[k].nodes /\ fd[j].edges = fd[k].edges => j = k
  /\ \A k \in 1..Len(fd) : ~Ahead(ents, fr, fd[k].nodes, fd[k].edges)

\* The report is that of the chains ranked first.
Reported ==
  pc = "done" =>
    /\ stack = <<>> /\ entries = {}
    /\ report = Report(SubSeq(Ranked(found), 1, Least(MaxPaths, Len(found))))

\* The inductive invariant: the stack is a simple path, what is found is chains, and
\* unless the ceiling was hit each chain of the graph is found, ahead or too deep; none
\* is so twice.
IInv ==
  /\ machine \in Machines /\ graph = build_graph(machine)
  /\ pc \in {"search", "done"} /\ ceiling_hit \in BOOLEAN /\ depth_capped \in BOOLEAN
  /\ entries \subseteq EntriesOf(graph)
  /\ StackOK(graph, entries, stack)
  /\ FoundOK(machine, graph, found)
  /\ ~ceiling_hit => Covered(graph, entries, stack, found, depth_capped)
  /\ Once(entries, stack, found)
  /\ Reported

-----------------------------------------------------------------------------
\* The path in the stack, ended by a target.
EndNodes(fr, s) == Append(ChainNodes(fr), s.dst)
EndEdges(fr, s) == Append(ChainEdges(fr), s.kind)

\* The lists a visit goes on with.
LEMMA EndIs ==
  ASSUME NEW g, IsGraph(g), NEW ents, NEW fr, StackOK(g, ents, fr), fr # <<>>,
         NEW s \in fr[Len(fr)].left
  PROVE  LET n == EndNodes(fr, s)
             e == EndEdges(fr, s)
             L == Len(fr)
         IN  /\ n \in Seq(g.node) /\ Len(n) = L + 1 /\ e \in Seq(EdgeKind) /\ Len(e) = L
             /\ \A i \in 1..L : n[i] = fr[i].node
             /\ n[L + 1] = s.dst
             /\ \A i \in 1..(L - 1) : e[i] = fr[i + 1].via
             /\ e[L] = s.kind
<1> DEFINE L == Len(fr)
           c == ChainNodes(fr)
           d == ChainEdges(fr)
<1>1. L \in Nat /\ L > 0 /\ DOMAIN fr = 1..L
  BY StackIs
<1>2. c = [i \in 1..L |-> fr[i].node] /\ d = [i \in 1..(L - 1) |-> fr[i + 1].via]
  BY <1>1 DEF ChainNodes, ChainEdges
<1>3. \A i \in 1..L : fr[i].node \in g.node
  BY DEF StackOK
<1>4. \A i \in 1..(L - 1) : fr[i + 1].via \in EdgeKind
  <2> TAKE i \in 1..(L - 1)
  <2>1. [src |-> fr[i].node, kind |-> fr[i + 1].via, dst |-> fr[i + 1].node] \in g.edge
    BY DEF StackOK
  <2>2. [src |-> fr[i].node, kind |-> fr[i + 1].via, dst |-> fr[i + 1].node].kind \in EdgeKind
    BY <2>1 DEF IsGraph
  <2> QED BY <2>2
<1>5. s.dst \in g.node /\ s.kind \in EdgeKind
  <2>1. s \in Adjacent(g, fr[L].node)
    BY <1>1 DEF StackOK
  <2>2. s \in Onward /\ s.dst \in g.node
    BY <2>1, AdjacentIs
  <2> QED BY <2>2 DEF Onward
<1> HIDE DEF c, d, L
<1>6. c \in [1..L -> g.node] /\ d \in [1..(L - 1) -> EdgeKind]
  BY <1>2, <1>3, <1>4
<1>7. c \in Seq(g.node) /\ Len(c) = L /\ d \in Seq(EdgeKind) /\ Len(d) = L - 1
  <2>1. L - 1 \in Nat
    BY <1>1
  <2>2. c \in Seq(g.node) /\ d \in Seq(EdgeKind)
    BY <1>1, <1>6, <2>1, SeqDef
  <2>3. DOMAIN c = 1..L /\ DOMAIN d = 1..(L - 1)
    BY <1>6
  <2> QED BY <1>1, <2>1, <2>2, <2>3, LenProperties
<1>8. /\ Append(c, s.dst) \in Seq(g.node) /\ Len(Append(c, s.dst)) = L + 1
      /\ \A i \in 1..L : Append(c, s.dst)[i] = c[i]
      /\ Append(c, s.dst)[L + 1] = s.dst
  <2>1. /\ Append(c, s.dst) \in Seq(g.node) /\ Len(Append(c, s.dst)) = Len(c) + 1
        /\ \A i \in 1..Len(c) : Append(c, s.dst)[i] = c[i]
        /\ Append(c, s.dst)[Len(c) + 1] = s.dst
    <3>1. c \in Seq(g.node) /\ s.dst \in g.node
      BY <1>5, <1>7
    <3> DEFINE N == g.node  x == s.dst
    <3>2. c \in Seq(N) /\ x \in N
      BY <3>1
    <3> HIDE DEF N, x
    <3>3. /\ Append(c, x) \in Seq(N) /\ Len(Append(c, x)) = Len(c) + 1
          /\ \A i \in 1..Len(c) : Append(c, x)[i] = c[i]
          /\ Append(c, x)[Len(c) + 1] = x
      BY <3>2, AppendProperties
    <3> QED BY <3>3 DEF N, x
  <2> QED BY <2>1, <1>7
<1>9. /\ Append(d, s.kind) \in Seq(EdgeKind) /\ Len(Append(d, s.kind)) = (L - 1) + 1
      /\ \A i \in 1..(L - 1) : Append(d, s.kind)[i] = d[i]
      /\ Append(d, s.kind)[(L - 1) + 1] = s.kind
  <2>1. /\ Append(d, s.kind) \in Seq(EdgeKind) /\ Len(Append(d, s.kind)) = Len(d) + 1
        /\ \A i \in 1..Len(d) : Append(d, s.kind)[i] = d[i]
        /\ Append(d, s.kind)[Len(d) + 1] = s.kind
    BY <1>5, <1>7, AppendProperties
  <2> QED BY <2>1, <1>7
<1>10. (L - 1) + 1 = L
  BY <1>1
<1> QED BY <1>2, <1>8, <1>9, <1>10 DEF EndNodes, EndEdges, c, d, L

\* A target makes a chain of the path in the stack, if it has a pivot; it is the one
\* chain that goes through that successor.
LEMMA EndChain ==
  ASSUME NEW g, IsGraph(g), NEW ents, NEW fr, StackOK(g, ents, fr), fr # <<>>,
         NEW s \in fr[Len(fr)].left, s.dst[1] = "target"
  PROVE  /\ Through(fr, s, EndNodes(fr, s), EndEdges(fr, s))
         /\ Actionable(EndEdges(fr, s)) => Chain(g, EndNodes(fr, s), EndEdges(fr, s))
         /\ \A n, e : Chain(g, n, e) /\ Through(fr, s, n, e)
                        => n = EndNodes(fr, s) /\ e = EndEdges(fr, s)
<1> DEFINE L == Len(fr)
           nn == EndNodes(fr, s)
           ee == EndEdges(fr, s)
<1>1. L \in Nat /\ L > 0 /\ L \in 1..L
  BY StackIs
<1>2. /\ nn \in Seq(g.node) /\ Len(nn) = L + 1 /\ ee \in Seq(EdgeKind) /\ Len(ee) = L
      /\ \A i \in 1..L : nn[i] = fr[i].node
      /\ nn[L + 1] = s.dst
      /\ \A i \in 1..(L - 1) : ee[i] = fr[i + 1].via
      /\ ee[L] = s.kind
  BY EndIs
<1>3. s \in Adjacent(g, fr[L].node) /\ \A j \in 1..L : s.dst # fr[j].node
  BY <1>1 DEF StackOK
<1>4. s = [kind |-> s.kind, dst |-> s.dst] /\ [src |-> fr[L].node, kind |-> s.kind, dst |-> s.dst] \in g.edge
  BY <1>3, AdjacentIs DEF Onward
<1> HIDE DEF nn, ee, L
<1>5. Through(fr, s, nn, ee)
  BY <1>1, <1>2, <1>4 DEF Through, Along, Onto, L
<1>6. ASSUME Actionable(ee) PROVE Chain(g, nn, ee)
  <2>1. nn[1] \in EntriesOf(g)
    BY <1>1, <1>2 DEF StackOK
  <2>2. DOMAIN nn = 1..(L + 1)
    BY <1>2, LenProperties
  <2>3. \A i \in 1..(L + 1) : i \in 1..L \/ i = L + 1
    BY <1>1
  <2>4. \A i, j \in 1..L : fr[i].node = fr[j].node => i = j
    BY DEF StackOK, L
  <2>5. IsInjective(nn)
    BY <2>2, <2>3, <2>4, <1>2, <1>3 DEF IsInjective
  <2>6. \A i \in 1..Len(ee) : [src |-> nn[i], kind |-> ee[i], dst |-> nn[i + 1]] \in g.edge
    <3> TAKE i \in 1..Len(ee)
    <3>1. i = L \/ (i \in 1..(L - 1) /\ i + 1 \in 1..L /\ i \in 1..L)
      BY <1>1, <1>2
    <3>2. CASE i = L
      BY <3>2, <1>1, <1>2, <1>4
    <3>3. CASE i \in 1..(L - 1) /\ i + 1 \in 1..L /\ i \in 1..L
      <4>1. [src |-> fr[i].node, kind |-> fr[i + 1].via, dst |-> fr[i + 1].node] \in g.edge
        BY <3>3 DEF StackOK, L
      <4> QED BY <4>1, <3>3, <1>2
    <3> QED BY <3>1, <3>2, <3>3
  <2>7. nn[Len(nn)][1] = "target"
    BY <1>2
  <2>8. Len(nn) = Len(ee) + 1
    BY <1>2
  <2> QED BY <1>2, <1>6, <2>1, <2>5, <2>6, <2>7, <2>8 DEF Chain
<1>7. ASSUME NEW n, NEW e, Chain(g, n, e), Through(fr, s, n, e)
      PROVE  n = nn /\ e = ee
  <2>0. /\ Len(e) \in Nat /\ Len(n) = Len(e) + 1 /\ L <= Len(e)
        /\ \A i \in 1..Len(e) : n[i][1] # "target"
        /\ n \in Seq(g.node) /\ e \in Seq(EdgeKind)
    BY <1>7, ChainIs DEF Chain, Through, Along, L
  <2>1. /\ \A j \in 1..L : n[j] = fr[j].node
        /\ \A j \in 1..(L - 1) : e[j] = fr[j + 1].via
        /\ e[L] = s.kind /\ n[L + 1] = s.dst
    BY <1>4, <1>7 DEF Through, Along, Onto, L
  <2>2. Len(e) = L
    <3>1. L + 1 \notin 1..Len(e)
      BY <2>0, <2>1
    <3> QED BY <3>1, <2>0, <1>1
  <2>3. \A i \in 1..(L + 1) : n[i] = nn[i]
    <3>1. \A i \in 1..(L + 1) : i \in 1..L \/ i = L + 1
      BY <1>1
    <3> QED BY <3>1, <2>1, <1>2
  <2>4. \A i \in 1..L : e[i] = ee[i]
    <3>1. \A i \in 1..L : i \in 1..(L - 1) \/ i = L
      BY <1>1
    <3> QED BY <3>1, <2>1, <1>2
  <2>5. n = nn
    BY <2>0, <2>2, <2>3, <1>2, SeqEqual
  <2>6. e = ee
    BY <2>0, <2>2, <2>4, <1>2, SeqEqual
  <2> QED BY <2>5, <2>6
<1> QED BY <1>5, <1>6, <1>7 DEF nn, ee

\* The severity of a chain is one of three.
LEMMA SeverityIs ==
  ASSUME NEW m, NEW n \in Seq(Node), NEW e \in Seq(EdgeKind)
  PROVE  /\ PathSeverity(m, n, e) \in {"critical", "high", "medium"}
         /\ MakePath(m, n, e) \in Path
         /\ MakePath(m, n, e).nodes = n /\ MakePath(m, n, e).edges = e
         /\ MakePath(m, n, e).severity = PathSeverity(m, n, e)
BY DEF PathSeverity, MakePath, Path, Severity

-----------------------------------------------------------------------------
(* The graph of a machine.                                                *)

\* The image of a finite set is finite.
LEMMA ImageIsFinite ==
  ASSUME NEW S, IsFiniteSet(S), NEW f, f = [x \in S |-> f[x]]
  PROVE  IsFiniteSet({f[x] : x \in S})
<1> DEFINE T == {f[x] : x \in S}
<1>1. f \in [S -> T] /\ \A t \in T : \E x \in S : f[x] = t
  OBVIOUS
<1>2. f \in Surjection(S, T)
  BY <1>1 DEF Surjection
<1> HIDE DEF T
<1>3. IsFiniteSet(T)
  BY <1>2, FS_Surjection
<1> QED BY <1>3 DEF T

\* What an edge joins, by its kind.
Ends == {<<"hosts", "host", "server">>, <<"reaches", "entry", "server">>,
         <<"holds", "server", "cred">>, <<"shared_with", "cred", "server">>,
         <<"unlocks", "cred", "target">>, <<"can_act", "server", "target">>}

\* The edge a joins two nodes as its kind says, with numbers of ids.
Joins(a, ids) ==
  \E t \in Ends : \E i, j \in ids : a = [src |-> <<t[2], i>>, kind |-> t[1], dst |-> <<t[3], j>>]

\* The numbers of what a machine's graph is made of.
Targets == {Catalog[i].target : i \in DOMAIN Catalog}
Configs(m) == {m.server[s].config : s \in DOMAIN m.server}
Locations(m) == {m.socket[i].location : i \in DOMAIN m.socket}
Held(m) == UNION {Range(m.server[s].env) : s \in DOMAIN m.server}
Ids(m) == DOMAIN m.server \cup Configs(m) \cup Held(m) \cup Targets \cup {LocalShell} \cup Locations(m)

\* They are finitely many.
LEMMA IdsAre ==
  ASSUME NEW m \in Machines
  PROVE  IsFiniteSet(Ids(m)) /\ Ids(m) \subseteq Nat
<1> DEFINE D == DOMAIN m.server
<1>1. IsFiniteSet(D) /\ D \subseteq Nat
  BY MachineAssumption
<1>2. \A s \in D : /\ m.server[s].config \in Nat
                   /\ IsFiniteSet(DOMAIN m.server[s].env) /\ Range(m.server[s].env) \subseteq Nat
  BY MachineAssumption
<1> HIDE DEF D
<1>3. IsFiniteSet(Targets) /\ Targets \subseteq Nat
  <2> DEFINE f == [i \in DOMAIN Catalog |-> Catalog[i].target]
  <2>1. IsFiniteSet(DOMAIN Catalog) /\ \A i \in DOMAIN Catalog : Catalog[i].target \in Nat
    BY MachineAssumption
  <2>2. f = [i \in DOMAIN Catalog |-> f[i]] /\ Targets = {f[i] : i \in DOMAIN Catalog}
    BY DEF Targets
  <2> HIDE DEF f
  <2>3. IsFiniteSet(Targets)
    BY <2>1, <2>2, ImageIsFinite
  <2> QED BY <2>1, <2>3 DEF Targets
<1>4. IsFiniteSet(Configs(m)) /\ Configs(m) \subseteq Nat
  <2> DEFINE f == [s \in D |-> m.server[s].config]
  <2>2. f = [i \in D |-> f[i]] /\ Configs(m) = {f[i] : i \in D}
    BY DEF Configs, D
  <2> HIDE DEF f
  <2>3. IsFiniteSet(Configs(m))
    BY <1>1, <2>2, ImageIsFinite
  <2> QED BY <1>2, <2>3 DEF Configs, D
<1>5. IsFiniteSet(Locations(m)) /\ Locations(m) \subseteq Nat
  <2> DEFINE S == DOMAIN m.socket
             f == [i \in S |-> m.socket[i].location]
  <2>1. IsFiniteSet(S) /\ \A i \in S : m.socket[i].location \in Nat
    BY MachineAssumption
  <2>2. f = [i \in S |-> f[i]] /\ Locations(m) = {f[i] : i \in S}
    BY DEF Locations
  <2> HIDE DEF f, S
  <2>3. IsFiniteSet(Locations(m))
    BY <2>1, <2>2, ImageIsFinite
  <2> QED BY <2>1, <2>3 DEF Locations, S
<1>6. IsFiniteSet(Held(m)) /\ Held(m) \subseteq Nat
  <2> DEFINE f == [s \in D |-> Range(m.server[s].env)]
             H == {f[s] : s \in D}
  <2>1. f = [s \in D |-> f[s]] /\ Held(m) = UNION H
    BY DEF Held, D
  <2>2. \A s \in D : IsFiniteSet(f[s])
    <3> SUFFICES ASSUME NEW s \in D PROVE IsFiniteSet(Range(m.server[s].env))
      OBVIOUS
    <3> DEFINE e == m.server[s].env
               h == [k \in DOMAIN e |-> e[k]]
    <3>1. h = [k \in DOMAIN e |-> h[k]] /\ Range(e) = {h[k] : k \in DOMAIN e}
      BY DEF Range
    <3>2. IsFiniteSet(DOMAIN e)
      BY <1>2
    <3> HIDE DEF h, e
    <3>3. IsFiniteSet(Range(e))
      BY <3>1, <3>2, ImageIsFinite
    <3> QED BY <3>3 DEF e
  <2> HIDE DEF f
  <2>3. IsFiniteSet(H)
    BY <1>1, <2>1, ImageIsFinite
  <2>4. \A T \in H : IsFiniteSet(T)
    BY <2>2
  <2>5. IsFiniteSet(Held(m))
    <3> HIDE DEF H
    <3> QED BY <2>1, <2>3, <2>4, FS_UNION
  <2> QED BY <1>2, <2>5 DEF Held, D
<1>7. LocalShell \in Nat /\ IsFiniteSet({LocalShell})
  BY MachineAssumption, FS_Singleton
<1>8. IsFiniteSet(Ids(m))
  <2>1. IsFiniteSet(D \cup Configs(m))
    BY <1>1, <1>4, FS_Union
  <2>2. IsFiniteSet(D \cup Configs(m) \cup Held(m))
    BY <2>1, <1>6, FS_Union
  <2>3. IsFiniteSet(D \cup Configs(m) \cup Held(m) \cup Targets)
    BY <2>2, <1>3, FS_Union
  <2>4. IsFiniteSet(D \cup Configs(m) \cup Held(m) \cup Targets \cup {LocalShell})
    BY <2>3, <1>7, FS_Union
  <2>5. IsFiniteSet(D \cup Configs(m) \cup Held(m) \cup Targets \cup {LocalShell} \cup Locations(m))
    BY <2>4, <1>5, FS_Union
  <2> QED BY <2>5 DEF Ids, D
<1>9. Ids(m) \subseteq Nat
  BY <1>1, <1>3, <1>4, <1>5, <1>6, <1>7 DEF Ids, D
<1> QED BY <1>8, <1>9

\* What a machine's credentials unlock is in the catalog.
LEMMA TargetsAre ==
  ASSUME NEW m \in Machines
  PROVE  \A c : cred_targets(m, c) \subseteq Targets
<1>1. \A k : infer_target(k) \subseteq Targets
  <2> SUFFICES ASSUME NEW k PROVE infer_target(k) \subseteq Targets
    OBVIOUS
  <2> DEFINE groups == {i \in DOMAIN Catalog : Catalog[i].needles \cap Words[k] # {}}
  <2>1. CASE groups = {}
    BY <2>1 DEF infer_target
  <2>2. CASE groups # {}
    <3>1. groups \in SUBSET Nat /\ groups \subseteq DOMAIN Catalog
      BY MachineAssumption
    <3>2. infer_target(k) = {Catalog[Min(groups)].target}
      BY <2>2 DEF infer_target
    <3> HIDE DEF groups
    <3>3. Min(groups) \in groups
      BY <2>2, <3>1, LeastMember DEF Min
    <3> QED BY <3>1, <3>2, <3>3 DEF Targets
  <2> QED BY <2>1, <2>2
<1> QED BY <1>1 DEF cred_targets

\* An edge joins what its kind says.
LEMMA EdgesAre ==
  ASSUME NEW m \in Machines
  PROVE  \A a \in build_graph(m).edge : Joins(a, Ids(m))
<1>1. Subjects(m) \subseteq DOMAIN m.server
  BY DEF Subjects
<1>2. \A s \in Subjects(m) : s \in Ids(m) /\ m.server[s].config \in Ids(m)
  BY <1>1 DEF Ids, Configs
<1>3. \A c \in Credentials(m) : c \in Ids(m)
  BY <1>1 DEF Credentials, credential_fingerprints, Ids, Held
<1>4. \A c : \A t \in cred_targets(m, c) : t \in Ids(m)
  BY TargetsAre DEF Ids
<1>5. ASSUME NEW a \in HostEdges(m) PROVE Joins(a, Ids(m))
  <2>1. PICK s \in Subjects(m) :
            a = [src |-> <<"host", m.server[s].config>>, kind |-> "hosts", dst |-> <<"server", s>>]
    BY <1>5 DEF HostEdges, ServerOf
  <2>2. a = [src |-> <<(<<"hosts", "host", "server">>)[2], m.server[s].config>>, kind |-> (<<"hosts", "host", "server">>)[1],
             dst |-> <<(<<"hosts", "host", "server">>)[3], s>>]
    BY <2>1
  <2> QED BY <2>2, <1>2 DEF Joins, Ends
<1>6. ASSUME NEW a \in ReachEdges(m) PROVE Joins(a, Ids(m))
  <2>1. PICK s \in Subjects(m) :
            a = [src |-> <<"entry", s>>, kind |-> "reaches", dst |-> <<"server", s>>]
    BY <1>6 DEF ReachEdges, ServerOf, EntryOf, Exposed
  <2>2. a = [src |-> <<(<<"reaches", "entry", "server">>)[2], s>>, kind |-> (<<"reaches", "entry", "server">>)[1],
             dst |-> <<(<<"reaches", "entry", "server">>)[3], s>>]
    BY <2>1
  <2> QED BY <2>2, <1>2 DEF Joins, Ends
<1>7. ASSUME NEW a \in CredentialEdges(m) PROVE Joins(a, Ids(m))
  <2>1. PICK c \in Credentials(m) :
           \/ \E s \in holders(m, c) : a = [src |-> <<"server", s>>, kind |-> "holds", dst |-> <<"cred", c>>]
           \/ \E s \in holders(m, c) : a = [src |-> <<"cred", c>>, kind |-> "shared_with", dst |-> <<"server", s>>]
           \/ \E t \in cred_targets(m, c) : a = [src |-> <<"cred", c>>, kind |-> "unlocks", dst |-> <<"target", t>>]
    <3>1. PICK c \in Credentials(m) :
             a \in {[src |-> ServerOf(s), kind |-> "holds", dst |-> CredOf(c)] : s \in holders(m, c)}
                   \union (IF Cardinality(holders(m, c)) >= 2
                           THEN {[src |-> CredOf(c), kind |-> "shared_with", dst |-> ServerOf(s)] : s \in holders(m, c)}
                           ELSE {})
                   \union {[src |-> CredOf(c), kind |-> "unlocks", dst |-> TargetOf(t)] : t \in cred_targets(m, c)}
      BY <1>7 DEF CredentialEdges
    <3> QED BY <3>1 DEF ServerOf, CredOf, TargetOf
  <2>2. \A s \in holders(m, c) : s \in Subjects(m)
    BY DEF holders
  <2>3. ASSUME NEW s \in holders(m, c), a = [src |-> <<"server", s>>, kind |-> "holds", dst |-> <<"cred", c>>]
        PROVE  Joins(a, Ids(m))
    <3>1. a = [src |-> <<(<<"holds", "server", "cred">>)[2], s>>, kind |-> (<<"holds", "server", "cred">>)[1],
               dst |-> <<(<<"holds", "server", "cred">>)[3], c>>]
      BY <2>3
    <3> QED BY <3>1, <2>2, <1>2, <1>3 DEF Joins, Ends
  <2>4. ASSUME NEW s \in holders(m, c), a = [src |-> <<"cred", c>>, kind |-> "shared_with", dst |-> <<"server", s>>]
        PROVE  Joins(a, Ids(m))
    <3>1. a = [src |-> <<(<<"shared_with", "cred", "server">>)[2], c>>, kind |-> (<<"shared_with", "cred", "server">>)[1],
               dst |-> <<(<<"shared_with", "cred", "server">>)[3], s>>]
      BY <2>4
    <3> QED BY <3>1, <2>2, <1>2, <1>3 DEF Joins, Ends
  <2>5. ASSUME NEW t \in cred_targets(m, c), a = [src |-> <<"cred", c>>, kind |-> "unlocks", dst |-> <<"target", t>>]
        PROVE  Joins(a, Ids(m))
    <3>1. a = [src |-> <<(<<"unlocks", "cred", "target">>)[2], c>>, kind |-> (<<"unlocks", "cred", "target">>)[1],
               dst |-> <<(<<"unlocks", "cred", "target">>)[3], t>>]
      BY <2>5
    <3> QED BY <3>1, <1>3, <1>4 DEF Joins, Ends
  <2> QED BY <2>1, <2>3, <2>4, <2>5
<1>8. ASSUME NEW a \in ActionEdges(m) PROVE Joins(a, Ids(m))
  <2>1. PICK s \in Subjects(m) : \E t \in Ids(m) :
           a = [src |-> <<"server", s>>, kind |-> "can_act", dst |-> <<"target", t>>]
    <3>1. PICK s \in Subjects(m) :
             a \in {[src |-> ServerOf(s), kind |-> "can_act", dst |-> TargetOf(t)] :
                      t \in (IF privilege_risk(m.server[s]) > 0
                             THEN UNION {cred_targets(m, c) : c \in credential_fingerprints(m, s)}
                             ELSE {})
                            \union (IF Dangerous(m.server[s]) THEN {LocalShell} ELSE {})}
      BY <1>8 DEF ActionEdges
    <3>2. LocalShell \in Ids(m)
      BY DEF Ids
    <3> QED BY <3>1, <3>2, <1>4 DEF ServerOf, TargetOf
  <2>2. PICK t \in Ids(m) : a = [src |-> <<"server", s>>, kind |-> "can_act", dst |-> <<"target", t>>]
    BY <2>1
  <2>3. a = [src |-> <<(<<"can_act", "server", "target">>)[2], s>>, kind |-> (<<"can_act", "server", "target">>)[1],
             dst |-> <<(<<"can_act", "server", "target">>)[3], t>>]
    BY <2>2
  <2> QED BY <2>3, <1>2 DEF Joins, Ends
<1> QED BY <1>5, <1>6, <1>7, <1>8 DEF build_graph

\* A machine's graph is one the search can take for granted.
LEMMA GraphIs ==
  ASSUME NEW m \in Machines
  PROVE  IsGraph(build_graph(m))
<1> DEFINE g == build_graph(m)
           I == Ids(m)
<1>1. IsFiniteSet(I) /\ I \subseteq Nat
  BY IdsAre
<1>2. \A a \in g.edge : Joins(a, I)
  BY EdgesAre
<1>3. g.node = (UNION {{a.src, a.dst} : a \in g.edge}) \cup SocketEntries(m)
  BY DEF build_graph
<1>4. SocketEntries(m) \subseteq NodeKind \X I
  <2>1. \A l \in Listeners(m) : l.location \in I
    BY DEF Listeners, SocketAssets, Ids, Locations
  <2> QED BY <2>1 DEF SocketEntries, NodeKind
<1> HIDE DEF g, I
<1>5. ASSUME NEW a \in g.edge
      PROVE  /\ a = [src |-> a.src, kind |-> a.kind, dst |-> a.dst]
             /\ a.src \in NodeKind \X I /\ a.dst \in NodeKind \X I /\ a.kind \in EdgeKind
             /\ <<a.kind, a.src[1], a.dst[1]>> \in Ends
  <2>1. PICK t \in Ends, i \in I, j \in I : a = [src |-> <<t[2], i>>, kind |-> t[1], dst |-> <<t[3], j>>]
    BY <1>2 DEF Joins
  <2>2. /\ t[1] \in EdgeKind /\ t[2] \in NodeKind /\ t[3] \in NodeKind /\ t = <<t[1], t[2], t[3]>>
    BY DEF Ends, EdgeKind, NodeKind
  <2>3. a.src = <<t[2], i>> /\ a.kind = t[1] /\ a.dst = <<t[3], j>>
    BY <2>1
  <2>4. a.src[1] = t[2] /\ a.dst[1] = t[3]
    BY <2>3
  <2> QED BY <2>1, <2>2, <2>3, <2>4
<1>6. g.node \subseteq NodeKind \X I
  <2>1. ASSUME NEW x \in UNION {{a.src, a.dst} : a \in g.edge} PROVE x \in NodeKind \X I
    <3>1. PICK a \in g.edge : x = a.src \/ x = a.dst
      BY <2>1
    <3> QED BY <3>1, <1>5
  <2> QED BY <2>1, <1>3, <1>4
<1>7. IsFiniteSet(g.node)
  <2>1. IsFiniteSet(NodeKind)
    <3>1. IsFiniteSet({"cred"}) /\ IsFiniteSet({"entry"}) /\ IsFiniteSet({"host"})
          /\ IsFiniteSet({"server"}) /\ IsFiniteSet({"target"})
      BY FS_Singleton
    <3>2. IsFiniteSet({"cred"} \cup {"entry"})
      BY <3>1, FS_Union
    <3>3. IsFiniteSet(({"cred"} \cup {"entry"}) \cup {"host"})
      BY <3>1, <3>2, FS_Union
    <3>4. IsFiniteSet((({"cred"} \cup {"entry"}) \cup {"host"}) \cup {"server"})
      BY <3>1, <3>3, FS_Union
    <3>5. IsFiniteSet(((({"cred"} \cup {"entry"}) \cup {"host"}) \cup {"server"}) \cup {"target"})
      BY <3>1, <3>4, FS_Union
    <3>6. ((({"cred"} \cup {"entry"}) \cup {"host"}) \cup {"server"}) \cup {"target"} = NodeKind
      BY DEF NodeKind
    <3> QED BY <3>5, <3>6
  <2>2. IsFiniteSet(NodeKind \X I)
    BY <2>1, <1>1, FS_Product
  <2> QED BY <2>2, <1>6, FS_Subset
<1>8. g.node \in SUBSET Node
  BY <1>1, <1>6 DEF Node
<1>9. g.edge \in SUBSET [src : g.node, kind : EdgeKind, dst : g.node]
  <2>1. ASSUME NEW a \in g.edge PROVE a \in [src : g.node, kind : EdgeKind, dst : g.node]
    <3>1. {a.src, a.dst} \subseteq g.node
      BY <1>3
    <3>2. a.src \in g.node /\ a.dst \in g.node /\ a.kind \in EdgeKind
      BY <3>1, <1>5
    <3>3. [src |-> a.src, kind |-> a.kind, dst |-> a.dst] \in [src : g.node, kind : EdgeKind, dst : g.node]
      BY <3>2
    <3> QED BY <3>3, <1>5
  <2> QED BY <2>1
<1>10. \A a \in g.edge : a.src[1] # "target"
  BY <1>5 DEF Ends
<1>11. \A a, b \in g.edge : a.src = b.src /\ a.dst = b.dst => a.kind = b.kind
  BY <1>5 DEF Ends
<1> QED BY <1>7, <1>8, <1>9, <1>10, <1>11 DEF IsGraph, g

-----------------------------------------------------------------------------
(* Every step keeps the invariant.                                        *)

\* A chain added is found, and it alone.
LEMMA AddedIs ==
  ASSUME NEW m, NEW g, IsGraph(g), NEW fd, FoundOK(m, g, fd), Len(fd) < Ceiling,
         NEW n, NEW e, Chain(g, n, e), Len(e) <= MaxHops
  PROVE  LET new == Append(fd, MakePath(m, n, e))
         IN  /\ FoundOK(m, g, new)
             /\ Len(new) = Len(fd) + 1 /\ Len(fd) \in Nat
             /\ \A k \in 1..Len(fd) : new[k] = fd[k]
             /\ new[Len(fd) + 1].nodes = n /\ new[Len(fd) + 1].edges = e
<1> DEFINE new == Append(fd, MakePath(m, n, e))
           L == Len(fd)
<1>1. n \in Seq(Node) /\ e \in Seq(EdgeKind)
  <2>1. n \in Seq(g.node) /\ e \in Seq(EdgeKind) /\ g.node \subseteq Node
    BY DEF Chain, IsGraph
  <2> QED BY <2>1, SeqMonotonic
<1>2. /\ MakePath(m, n, e) \in Path
      /\ MakePath(m, n, e).nodes = n /\ MakePath(m, n, e).edges = e
  BY <1>1, SeverityIs
<1>3. fd \in Seq(Path) /\ L \in Nat
  BY LenProperties DEF FoundOK
<1>4. /\ new \in Seq(Path) /\ Len(new) = L + 1
      /\ \A k \in 1..L : new[k] = fd[k]
      /\ new[L + 1] = MakePath(m, n, e)
  <2> DEFINE x == MakePath(m, n, e)
  <2>1. x \in Path
    BY <1>2
  <2> HIDE DEF x
  <2>2. /\ Append(fd, x) \in Seq(Path) /\ Len(Append(fd, x)) = Len(fd) + 1
        /\ \A k \in 1..Len(fd) : Append(fd, x)[k] = fd[k]
        /\ Append(fd, x)[Len(fd) + 1] = x
    BY <1>3, <2>1, AppendProperties
  <2> QED BY <2>2 DEF x
<1> HIDE DEF new, L
<1>5. \A k \in 1..(L + 1) : k \in 1..L \/ k = L + 1
  BY <1>3
<1>6. Len(new) <= Ceiling
  BY <1>3, <1>4, CapsAssumption DEF L
<1>7. \A k \in 1..Len(new) :
        /\ Chain(g, new[k].nodes, new[k].edges) /\ Len(new[k].edges) <= MaxHops
        /\ new[k] = MakePath(m, new[k].nodes, new[k].edges)
  <2> TAKE k \in 1..Len(new)
  <2>1. CASE k \in 1..L
    <3>1. new[k] = fd[k]
      BY <2>1, <1>4
    <3>2. /\ Chain(g, fd[k].nodes, fd[k].edges) /\ Len(fd[k].edges) <= MaxHops
          /\ fd[k] = MakePath(m, fd[k].nodes, fd[k].edges)
      BY <2>1 DEF FoundOK, L
    <3> QED BY <3>1, <3>2
  <2>2. CASE k = L + 1
    <3>1. new[k] = MakePath(m, n, e) /\ new[k].nodes = n /\ new[k].edges = e
      BY <2>2, <1>2, <1>4
    <3> QED BY <3>1
  <2> QED BY <2>1, <2>2, <1>4, <1>5
<1> QED BY <1>2, <1>3, <1>4, <1>6, <1>7 DEF FoundOK, new, L

\* The chain found at a target is not ahead any more, and was found at no other time.
LEMMA TargetFound ==
  ASSUME NEW m, NEW g, IsGraph(g), NEW ents, NEW fr, StackOK(g, ents, fr), fr # <<>>,
         NEW s \in fr[Len(fr)].left, s.dst[1] = "target",
         NEW fd, FoundOK(m, g, fd), Once(ents, fr, fd), Len(fd) < Ceiling,
         Actionable(EndEdges(fr, s)), NEW capped
  PROVE  LET new == Append(fd, MakePath(m, EndNodes(fr, s), EndEdges(fr, s)))
         IN  /\ FoundOK(m, g, new)
             /\ Once(ents, Passed(fr, s), new)
             /\ Covered(g, ents, fr, fd, capped) => Covered(g, ents, Passed(fr, s), new, capped)
<1> DEFINE nn == EndNodes(fr, s)
           ee == EndEdges(fr, s)
           new == Append(fd, MakePath(m, nn, ee))
           L == Len(fd)
<1>1. Chain(g, nn, ee) /\ Through(fr, s, nn, ee)
      /\ \A n, e : Chain(g, n, e) /\ Through(fr, s, n, e) => n = nn /\ e = ee
  BY EndChain
<1>2. Len(ee) <= MaxHops
  <2>1. Len(ee) = Len(fr)
    BY EndIs
  <2> QED BY <2>1 DEF StackOK
<1> HIDE DEF nn, ee
<1>3. /\ FoundOK(m, g, new)
      /\ Len(new) = L + 1 /\ L \in Nat
      /\ \A k \in 1..L : new[k] = fd[k]
      /\ new[L + 1].nodes = nn /\ new[L + 1].edges = ee
  BY <1>1, <1>2, AddedIs
<1>4. Ahead(ents, fr, nn, ee) /\ ~Ahead(ents, Passed(fr, s), nn, ee)
  BY <1>1, PassedAhead
<1>5. \A n, e : Ahead(ents, Passed(fr, s), n, e) => Ahead(ents, fr, n, e)
  BY PassedAhead
<1>6. \A n, e : Ahead(ents, fr, n, e) => Ahead(ents, Passed(fr, s), n, e) \/ Through(fr, s, n, e)
  BY PassedAhead
<1> HIDE DEF new, L
<1>7. \A k \in 1..(L + 1) : k \in 1..L \/ k = L + 1
  BY <1>3
<1>8. \A k \in 1..L : ~Ahead(ents, fr, fd[k].nodes, fd[k].edges)
  BY DEF Once, L
<1>9. Once(ents, Passed(fr, s), new)
  <2>1. \A k \in 1..L : ~(fd[k].nodes = nn /\ fd[k].edges = ee)
    BY <1>4, <1>8
  <2>2. \A j, k \in 1..L : fd[j].nodes = fd[k].nodes /\ fd[j].edges = fd[k].edges => j = k
    BY DEF Once, L
  <2>3. \A j, k \in 1..(L + 1) : new[j].nodes = new[k].nodes /\ new[j].edges = new[k].edges => j = k
    BY <2>1, <2>2, <1>3, <1>7
  <2>4. \A k \in 1..(L + 1) : ~Ahead(ents, Passed(fr, s), new[k].nodes, new[k].edges)
    BY <1>3, <1>4, <1>5, <1>7, <1>8
  <2> QED BY <2>3, <2>4, <1>3 DEF Once
<1>10. ASSUME Covered(g, ents, fr, fd, capped) PROVE Covered(g, ents, Passed(fr, s), new, capped)
  <2> SUFFICES ASSUME NEW n, NEW e, Chain(g, n, e)
               PROVE  \/ Holds(new, n, e) \/ Ahead(ents, Passed(fr, s), n, e)
                      \/ Len(e) > MaxHops /\ capped
    BY DEF Covered
  <2>1. L + 1 \in 1..(L + 1) /\ \A k \in 1..L : k \in 1..(L + 1)
    BY <1>3
  <2>2. CASE Holds(fd, n, e)
    BY <2>1, <2>2, <1>3 DEF Holds, L
  <2>3. CASE Through(fr, s, n, e)
    BY <2>1, <2>3, <1>1, <1>3 DEF Holds
  <2> QED BY <2>2, <2>3, <1>6, <1>10 DEF Covered
<1> QED BY <1>3, <1>9, <1>10 DEF new, nn, ee

\* A successor passed over that no chain goes through, or only ones too long, loses none.
LEMMA PassedKeeps ==
  ASSUME NEW g, IsGraph(g), NEW ents, NEW fr, StackOK(g, ents, fr), fr # <<>>,
         NEW s \in fr[Len(fr)].left, NEW fd, NEW capped, NEW now, capped => now
  PROVE  /\ Once(ents, fr, fd) => Once(ents, Passed(fr, s), fd)
         /\ /\ Covered(g, ents, fr, fd, capped)
            /\ \A n, e : Chain(g, n, e) /\ Through(fr, s, n, e) => Len(e) > MaxHops /\ now
            => Covered(g, ents, Passed(fr, s), fd, now)
<1>1. \A n, e : Ahead(ents, Passed(fr, s), n, e) => Ahead(ents, fr, n, e)
  BY PassedAhead
<1>2. \A n, e : Ahead(ents, fr, n, e) => Ahead(ents, Passed(fr, s), n, e) \/ Through(fr, s, n, e)
  BY PassedAhead
<1>3. Once(ents, fr, fd) => Once(ents, Passed(fr, s), fd)
  BY <1>1 DEF Once
<1>4. ASSUME Covered(g, ents, fr, fd, capped),
             \A n, e : Chain(g, n, e) /\ Through(fr, s, n, e) => Len(e) > MaxHops /\ now
      PROVE  Covered(g, ents, Passed(fr, s), fd, now)
  <2> SUFFICES ASSUME NEW n, NEW e, Chain(g, n, e)
               PROVE  \/ Holds(fd, n, e) \/ Ahead(ents, Passed(fr, s), n, e)
                      \/ Len(e) > MaxHops /\ now
    BY DEF Covered
  <2>1. Holds(fd, n, e) \/ Ahead(ents, fr, n, e) \/ (Len(e) > MaxHops /\ capped)
    BY <1>4 DEF Covered
  <2> QED BY <2>1, <1>2, <1>4
<1> QED BY <1>3, <1>4

\* At the depth, a chain goes through the successor only if it is too long; and then the
\* successor leads on.
LEMMA DepthIs ==
  ASSUME NEW g, IsGraph(g), NEW ents, NEW fr, StackOK(g, ents, fr), fr # <<>>,
         NEW s \in fr[Len(fr)].left, s.dst[1] # "target", Len(fr) >= MaxHops,
         NEW n, NEW e, Chain(g, n, e), Through(fr, s, n, e)
  PROVE  /\ Len(e) > MaxHops
         /\ \E t \in Adjacent(g, s.dst) : t.dst \notin Range(ChainNodes(fr)) \cup {s.dst}
<1> DEFINE L == Len(fr)
<1>1. L \in Nat /\ L > 0 /\ L \in 1..L /\ L = MaxHops /\ MaxHops \in Nat
  <2>1. L \in Nat /\ L > 0 /\ L <= MaxHops
    BY StackIs DEF StackOK
  <2> QED BY <2>1, CapsAssumption
<1>2. s \in Adjacent(g, fr[L].node)
  BY <1>1 DEF StackOK
<1>3. s = [kind |-> s.kind, dst |-> s.dst]
  BY <1>2, AdjacentIs DEF Onward
<1>4. /\ Len(e) \in Nat /\ Len(n) = Len(e) + 1 /\ L <= Len(e) /\ Len(n) \in Nat
      /\ DOMAIN n = 1..Len(n)
  BY ChainIs DEF Through, Along
<1>5. /\ \A j \in 1..L : n[j] = fr[j].node
      /\ n[L + 1] = s.dst
  BY <1>3 DEF Through, Along, Onto
<1> HIDE DEF L
<1>6. L + 1 <= Len(e)
  <2>1. n[L + 1][1] # "target" /\ n[Len(n)][1] = "target"
    BY <1>5 DEF Chain
  <2>2. L + 1 # Len(n)
    BY <2>1
  <2> QED BY <2>2, <1>4, <1>1
<1>7. [src |-> n[L + 1], kind |-> e[L + 1], dst |-> n[(L + 1) + 1]] \in g.edge
  <2>1. L + 1 \in 1..Len(e)
    BY <1>4, <1>6, <1>1
  <2> QED BY <2>1 DEF Chain
<1>8. Onto(n, e, L + 1) \in Adjacent(g, s.dst) /\ Onto(n, e, L + 1).dst = n[(L + 1) + 1]
  BY <1>5, <1>7, AdjacentIs DEF Onto
<1>9. \A j \in 1..(L + 1) : n[(L + 1) + 1] # n[j]
  <2> TAKE j \in 1..(L + 1)
  <2>1. j \in DOMAIN n /\ (L + 1) + 1 \in DOMAIN n /\ j # (L + 1) + 1
    BY <1>4, <1>6, <1>1
  <2> QED BY <2>1 DEF Chain, IsInjective
<1>10. n[(L + 1) + 1] \notin Range(ChainNodes(fr)) \cup {s.dst}
  <2>1. L + 1 \in 1..(L + 1) /\ \A j \in 1..L : j \in 1..(L + 1)
    BY <1>1
  <2>2. n[(L + 1) + 1] # s.dst /\ \A j \in 1..L : n[(L + 1) + 1] # fr[j].node
    BY <2>1, <1>5, <1>9
  <2> QED BY <2>2, VisitedIs DEF L
<1> QED BY <1>1, <1>4, <1>6, <1>8, <1>10

\* The invariant holds at the start.
LEMMA InitHolds == Init => IInv
<1> SUFFICES ASSUME Init PROVE IInv
  OBVIOUS
<1>1. /\ machine \in Machines /\ graph = build_graph(machine) /\ pc = "search"
      /\ entries = EntriesOf(graph) /\ stack = <<>> /\ found = <<>>
      /\ ceiling_hit = FALSE /\ depth_capped = FALSE
  BY DEF Init
<1>2. IsGraph(graph)
  BY <1>1, GraphIs
<1>3. StackOK(graph, entries, <<>>)
  <2>1. <<>> \in Seq(Stacked) /\ Len(<<>>) = 0 /\ 0 <= MaxHops
    BY CapsAssumption, EmptySeq
  <2>2. (\A i \in 1..0 : FALSE) /\ (\A i \in 1..(0 - 1) : FALSE)
    OBVIOUS
  <2> QED BY <2>1, <2>2 DEF StackOK
<1>4. FoundOK(machine, graph, <<>>)
  <2>1. <<>> \in Seq(Path) /\ Len(<<>>) = 0 /\ 0 <= Ceiling /\ \A i \in 1..0 : FALSE
    BY CapsAssumption, EmptySeq
  <2> QED BY <2>1 DEF FoundOK
<1>5. Covered(graph, entries, <<>>, <<>>, FALSE)
  BY <1>1 DEF Covered, Chain, Ahead
<1>6. Once(entries, <<>>, <<>>)
  <2>1. Len(<<>>) = 0 /\ \A i \in 1..0 : FALSE
    OBVIOUS
  <2> QED BY <2>1 DEF Once
<1> QED BY <1>1, <1>3, <1>4, <1>5, <1>6 DEF IInv, Reported

\* What is the same in every step of the search.
LEMMA LoopIs ==
  ASSUME IInv, Looping
  PROVE  /\ IsGraph(graph) /\ pc = "search" /\ stack # <<>> /\ ~ceiling_hit
         /\ Successor \in stack[Len(stack)].left
         /\ Advanced = Passed(stack, Successor)
         /\ Covered(graph, entries, stack, found, depth_capped)
<1>1. IsGraph(graph)
  BY GraphIs DEF IInv
<1>2. /\ pc = "search" /\ stack # <<>> /\ ~ceiling_hit /\ stack[Len(stack)].left # {}
      /\ Successor = FirstSuccessor(stack[Len(stack)].left)
      /\ Advanced = Passed(stack, Successor)
  BY DEF Looping, Last, Successor, Advanced, Passed
<1>3. stack[Len(stack)].left \subseteq Onward
  <2>1. StackOK(graph, entries, stack)
    BY DEF IInv
  <2>2. Len(stack) \in 1..Len(stack)
    BY <1>2, <2>1, StackIs
  <2> QED BY <2>1, <2>2, StackIs
<1>4. Successor \in stack[Len(stack)].left
  BY <1>2, <1>3, FirstSuccessorIs
<1> QED BY <1>1, <1>2, <1>4 DEF IInv

\* The loop over the entries keeps the invariant.
LEMMA NextEntryKeeps ==
  ASSUME IInv, NextEntry
  PROVE  IInv'
<1> DEFINE first == FirstNode(entries)
<1>1. /\ pc = "search" /\ stack = <<>> /\ entries # {}
      /\ entries' = entries \ {first}
      /\ stack' = IF ceiling_hit THEN <<>> ELSE Started(graph, first)
      /\ UNCHANGED <<machine, graph, pc, found, ceiling_hit, depth_capped, report>>
  BY DEF NextEntry, Started
<1>2. IsGraph(graph) /\ entries \subseteq EntriesOf(graph)
  BY GraphIs DEF IInv
<1>3. first \in entries
  <2>1. entries \subseteq Node
    BY <1>2 DEF EntriesOf, IsGraph
  <2> QED BY <2>1, <1>1, FirstNodeIs
<1> HIDE DEF first
<1>4. /\ StackOK(graph, entries, <<>>) /\ Once(entries, <<>>, found)
      /\ ~ceiling_hit => Covered(graph, entries, <<>>, found, depth_capped)
  BY <1>1 DEF IInv
<1>5. Len(<<>>) = 0 /\ (\A i \in 1..0 : FALSE) /\ (\A i \in 1..(0 - 1) : FALSE)
  OBVIOUS
<1>6. CASE ceiling_hit
  <2>1. StackOK(graph, entries \ {first}, <<>>)
    BY <1>4 DEF StackOK
  <2>2. Once(entries \ {first}, <<>>, found)
    BY <1>4, <1>5 DEF Once, Ahead
  <2> QED BY <1>1, <1>2, <1>6, <2>1, <2>2 DEF IInv, Reported
<1>7. CASE ~ceiling_hit
  <2>1. /\ StackOK(graph, entries \ {first}, Started(graph, first))
        /\ \A n, e : Ahead(entries \ {first}, Started(graph, first), n, e) => Ahead(entries, <<>>, n, e)
        /\ \A n, e : Chain(graph, n, e) /\ Ahead(entries, <<>>, n, e)
                       => Ahead(entries \ {first}, Started(graph, first), n, e)
    BY <1>2, <1>3, StartedIs
  <2>2. Once(entries \ {first}, Started(graph, first), found)
    BY <2>1, <1>4 DEF Once
  <2>3. Covered(graph, entries \ {first}, Started(graph, first), found, depth_capped)
    BY <2>1, <1>4, <1>7 DEF Covered
  <2>4. stack' = Started(graph, first)
    BY <1>1, <1>7
  <2> QED BY <1>1, <1>2, <1>7, <2>1, <2>2, <2>3, <2>4 DEF IInv, Reported
<1> QED BY <1>6, <1>7

\* A visit to a target keeps the invariant.
LEMMA VisitTargetKeeps ==
  ASSUME IInv, VisitTarget
  PROVE  IInv'
<1> DEFINE nodes == EndNodes(stack, Successor)
           edges == EndEdges(stack, Successor)
<1>1. /\ Looping /\ Successor.dst[1] = "target"
      /\ IF ~Actionable(edges) THEN UNCHANGED <<found, ceiling_hit>>
         ELSE IF Len(found) >= Ceiling THEN ceiling_hit' = TRUE /\ UNCHANGED found
         ELSE found' = Append(found, MakePath(machine, nodes, edges)) /\ UNCHANGED ceiling_hit
      /\ stack' = Advanced
      /\ UNCHANGED <<machine, graph, pc, entries, depth_capped, report>>
  BY DEF VisitTarget, EndNodes, EndEdges
<1>2. /\ IsGraph(graph) /\ pc = "search" /\ stack # <<>> /\ ~ceiling_hit
      /\ Successor \in stack[Len(stack)].left
      /\ Advanced = Passed(stack, Successor)
      /\ Covered(graph, entries, stack, found, depth_capped)
  BY <1>1, LoopIs
<1>3. StackOK(graph, entries, stack) /\ FoundOK(machine, graph, found) /\ Once(entries, stack, found)
  BY DEF IInv
<1>4. StackOK(graph, entries, Passed(stack, Successor))
  BY <1>2, <1>3, PassedOK
<1>5. Once(entries, Passed(stack, Successor), found)
  BY <1>2, <1>3, PassedKeeps
<1> HIDE DEF nodes, edges
<1>6. CASE ~Actionable(edges)
  <2>1. \A n, e : Chain(graph, n, e) /\ Through(stack, Successor, n, e) => FALSE
    <3>1. \A n, e : Chain(graph, n, e) /\ Through(stack, Successor, n, e) => e = edges
      BY <1>1, <1>2, <1>3, EndChain DEF edges
    <3> QED BY <3>1, <1>6 DEF Chain
  <2>2. Covered(graph, entries, Passed(stack, Successor), found, depth_capped)
    BY <2>1, <1>2, <1>3, PassedKeeps
  <2>3. UNCHANGED <<found, ceiling_hit>>
    BY <1>1, <1>6
  <2> QED BY <1>1, <1>2, <1>4, <1>5, <2>2, <2>3 DEF IInv, Reported
<1>7. CASE Actionable(edges) /\ Len(found) >= Ceiling
  <2>1. ceiling_hit' = TRUE /\ UNCHANGED found
    BY <1>1, <1>7
  <2> QED BY <1>1, <1>2, <1>4, <1>5, <2>1 DEF IInv, Reported
<1>8. CASE Actionable(edges) /\ ~(Len(found) >= Ceiling)
  <2>1. Len(found) < Ceiling
    <3>1. Len(found) \in Nat
      BY <1>3, LenProperties DEF FoundOK
    <3> QED BY <3>1, <1>8, CapsAssumption
  <2>2. /\ FoundOK(machine, graph, Append(found, MakePath(machine, nodes, edges)))
        /\ Once(entries, Passed(stack, Successor), Append(found, MakePath(machine, nodes, edges)))
        /\ Covered(graph, entries, Passed(stack, Successor),
                   Append(found, MakePath(machine, nodes, edges)), depth_capped)
    BY <1>1, <1>2, <1>3, <1>8, <2>1, TargetFound DEF nodes, edges
  <2>3. found' = Append(found, MakePath(machine, nodes, edges)) /\ UNCHANGED ceiling_hit
    BY <1>1, <1>8
  <2> QED BY <1>1, <1>2, <1>4, <2>2, <2>3 DEF IInv, Reported
<1> QED BY <1>6, <1>7, <1>8

\* A visit at the depth keeps the invariant.
LEMMA VisitAtDepthKeeps ==
  ASSUME IInv, VisitAtDepth
  PROVE  IInv'
<1>1. /\ Looping /\ Successor.dst[1] # "target" /\ Len(stack) >= MaxHops
      /\ depth_capped' = (\/ depth_capped
                          \/ \E s \in Adjacent(graph, Successor.dst) :
                                s.dst \notin Range(ChainNodes(stack)) \union {Successor.dst})
      /\ stack' = Advanced
      /\ UNCHANGED <<machine, graph, pc, entries, found, ceiling_hit, report>>
  BY DEF VisitAtDepth
<1>2. /\ IsGraph(graph) /\ pc = "search" /\ stack # <<>> /\ ~ceiling_hit
      /\ Successor \in stack[Len(stack)].left
      /\ Advanced = Passed(stack, Successor)
      /\ Covered(graph, entries, stack, found, depth_capped)
  BY <1>1, LoopIs
<1>3. StackOK(graph, entries, stack) /\ Once(entries, stack, found)
  BY DEF IInv
<1>4. StackOK(graph, entries, Passed(stack, Successor))
  BY <1>2, <1>3, PassedOK
<1>5. depth_capped => depth_capped'
  BY <1>1
<1>6. depth_capped' \in BOOLEAN
  BY <1>1 DEF IInv
<1>7. \A n, e : Chain(graph, n, e) /\ Through(stack, Successor, n, e) => Len(e) > MaxHops /\ depth_capped'
  BY <1>1, <1>2, <1>3, DepthIs
<1>8. Once(entries, Passed(stack, Successor), found)
  BY <1>2, <1>3, <1>5, PassedKeeps
<1>9. Covered(graph, entries, Passed(stack, Successor), found, depth_capped')
  BY <1>2, <1>3, <1>5, <1>7, PassedKeeps
<1> QED BY <1>1, <1>2, <1>4, <1>6, <1>8, <1>9 DEF IInv, Reported

\* A descent keeps the invariant.
LEMMA DescendKeeps ==
  ASSUME IInv, Descend
  PROVE  IInv'
<1>1. /\ Looping /\ Successor.dst[1] # "target" /\ Len(stack) < MaxHops
      /\ stack' = Append(Advanced, Frame(graph, Successor.dst, Successor.kind, Range(ChainNodes(stack))))
      /\ UNCHANGED <<machine, graph, pc, entries, found, ceiling_hit, depth_capped, report>>
  BY DEF Descend
<1>2. /\ IsGraph(graph) /\ pc = "search" /\ stack # <<>> /\ ~ceiling_hit
      /\ Successor \in stack[Len(stack)].left
      /\ Advanced = Passed(stack, Successor)
      /\ Covered(graph, entries, stack, found, depth_capped)
  BY <1>1, LoopIs
<1>3. StackOK(graph, entries, stack) /\ FoundOK(machine, graph, found) /\ Once(entries, stack, found)
  BY DEF IInv
<1>4. stack' = Descended(graph, stack, Successor)
  BY <1>1, <1>2 DEF Descended
<1>5. StackOK(graph, entries, stack')
  BY <1>1, <1>2, <1>3, <1>4, DescendedOK
<1>6. Once(entries, stack', found)
  <2>1. \A k \in 1..Len(found) : ~Ahead(entries, stack', found[k].nodes, found[k].edges)
    <3> TAKE k \in 1..Len(found)
    <3>1. Len(found[k].edges) \in Nat
      <4>1. Chain(graph, found[k].nodes, found[k].edges)
        BY <1>3 DEF FoundOK
      <4> QED BY <4>1, <1>2, ChainIs
    <3> DEFINE n == found[k].nodes  e == found[k].edges
    <3> HIDE DEF n, e
    <3>2. Ahead(entries, Descended(graph, stack, Successor), n, e) => Ahead(entries, stack, n, e)
      BY <3>1, <1>1, <1>2, <1>3, DescendedAhead DEF e
    <3> QED BY <3>2, <1>3, <1>4 DEF Once, n, e
  <2> QED BY <2>1, <1>3 DEF Once
<1>7. Covered(graph, entries, stack', found, depth_capped)
  <2> SUFFICES ASSUME NEW n, NEW e, Chain(graph, n, e)
               PROVE  \/ Holds(found, n, e) \/ Ahead(entries, stack', n, e)
                      \/ Len(e) > MaxHops /\ depth_capped
    BY DEF Covered
  <2>1. Len(e) \in Nat
    BY <1>2, ChainIs
  <2>2. Ahead(entries, stack, n, e) => Ahead(entries, Descended(graph, stack, Successor), n, e)
    BY <2>1, <1>1, <1>2, <1>3, DescendedAhead
  <2> QED BY <2>2, <1>2, <1>4 DEF Covered
<1> QED BY <1>1, <1>2, <1>5, <1>6, <1>7 DEF IInv, Reported

\* A return keeps the invariant.
LEMMA ReturnKeeps ==
  ASSUME IInv, Return
  PROVE  IInv'
<1>1. /\ pc = "search" /\ stack # <<>>
      /\ ceiling_hit \/ stack[Len(stack)].left = {}
      /\ stack' = Front(stack)
      /\ UNCHANGED <<machine, graph, pc, entries, found, ceiling_hit, depth_capped, report>>
  BY DEF Return, Last
<1>2. StackOK(graph, entries, stack) /\ Once(entries, stack, found)
      /\ (~ceiling_hit => Covered(graph, entries, stack, found, depth_capped))
  BY DEF IInv
<1>3. /\ StackOK(graph, entries, stack')
      /\ \A n, e : Ahead(entries, stack', n, e) => Ahead(entries, stack, n, e)
      /\ stack[Len(stack)].left = {} =>
            \A n, e : Ahead(entries, stack, n, e) => Ahead(entries, stack', n, e)
  BY <1>1, <1>2, ReturnedIs
<1>4. Once(entries, stack', found)
  BY <1>2, <1>3 DEF Once
<1>5. ~ceiling_hit => Covered(graph, entries, stack', found, depth_capped)
  BY <1>1, <1>2, <1>3 DEF Covered
<1> QED BY <1>1, <1>3, <1>4, <1>5 DEF IInv, Reported

\* The report keeps the invariant.
LEMMA FinishKeeps ==
  ASSUME IInv, Finish
  PROVE  IInv'
<1>1. /\ stack = <<>> /\ entries = {}
      /\ report' = Report(SubSeq(Ranked(found), 1, Least(MaxPaths, Len(found))))
      /\ pc' = "done"
      /\ UNCHANGED <<machine, graph, entries, stack, found, ceiling_hit, depth_capped>>
  BY DEF Finish
<1>2. Reported'
  BY <1>1 DEF Reported, Report
<1> QED BY <1>1, <1>2 DEF IInv

\* Every step keeps the invariant.
LEMMA StepHolds == IInv /\ [Next]_vars => IInv'
<1> SUFFICES ASSUME IInv, [Next]_vars PROVE IInv'
  OBVIOUS
<1>1. CASE NextEntry
  BY <1>1, NextEntryKeeps
<1>2. CASE VisitTarget
  BY <1>2, VisitTargetKeeps
<1>3. CASE VisitAtDepth
  BY <1>3, VisitAtDepthKeeps
<1>4. CASE Descend
  BY <1>4, DescendKeeps
<1>5. CASE Return
  BY <1>5, ReturnKeeps
<1>6. CASE Finish
  BY <1>6, FinishKeeps
<1>7. CASE Done \/ UNCHANGED vars
  <2>1. UNCHANGED vars
    BY <1>7 DEF Done
  <2> QED BY <2>1 DEF vars, IInv, Reported, Report
<1> QED BY <1>1, <1>2, <1>3, <1>4, <1>5, <1>6, <1>7 DEF Next

\* At every state of every search, each chain of the machine's graph is found, or ahead of
\* the recursion of `visit', or deeper than MaxHops and then depth_capped says so, unless
\* the ceiling was hit; and no chain comes up twice.
THEOREM Invariance == Spec => []IInv
BY InitHolds, StepHolds, PTL DEF Spec

-----------------------------------------------------------------------------
(* What the search is at any time, and what is kept of a list.            *)

\* The stack of `visit' is always a simple path of the graph from an entry, no deeper than
\* MaxHops, and what it has found is chains: simple, along edges of the graph, from an
\* entry to a target, with a pivot, no more of them than the ceiling.
THEOREM TypeCorrect == Spec => []TypeOK
<1>1. ASSUME IInv PROVE TypeOK
  <2>1. /\ IsGraph(graph) /\ StackOK(graph, entries, stack) /\ FoundOK(machine, graph, found)
        /\ pc \in {"search", "done"} /\ ceiling_hit \in BOOLEAN /\ depth_capped \in BOOLEAN
        /\ entries \subseteq EntriesOf(graph)
    BY <1>1, GraphIs DEF IInv
  <2>2. Len(stack) \in Nat /\ DOMAIN stack = 1..Len(stack)
    BY <2>1, StackIs
  <2>3. IsInjective(ChainNodes(stack))
    <3>1. \A i, j \in 1..Len(stack) : stack[i].node = stack[j].node => i = j
      BY <2>1 DEF StackOK
    <3> QED BY <3>1, <2>2 DEF IsInjective, ChainNodes
  <2>4. \A i \in 2..Len(stack) :
          [src |-> stack[i - 1].node, kind |-> stack[i].via, dst |-> stack[i].node] \in graph.edge
    <3> TAKE i \in 2..Len(stack)
    <3>1. i - 1 \in 1..(Len(stack) - 1) /\ (i - 1) + 1 = i
      BY <2>2
    <3>2. [src |-> stack[i - 1].node, kind |-> stack[(i - 1) + 1].via, dst |-> stack[(i - 1) + 1].node]
            \in graph.edge
      BY <3>1, <2>1 DEF StackOK
    <3> QED BY <3>1, <3>2
  <2>5. \A p \in Range(found) : ChainOf(graph, p.nodes, p.edges)
    <3> SUFFICES ASSUME NEW p \in Range(found) PROVE ChainOf(graph, p.nodes, p.edges)
      OBVIOUS
    <3>1. found \in Seq(Path)
      BY <2>1 DEF FoundOK
    <3>2. PICK k \in 1..Len(found) : p = found[k]
      BY <3>1, LenProperties DEF Range
    <3>3. Chain(graph, p.nodes, p.edges)
      BY <3>2, <2>1 DEF FoundOK
    <3>4. DOMAIN p.edges = 1..Len(p.edges)
      BY <2>1, <3>3, ChainIs
    <3> QED BY <3>3, <3>4 DEF Chain, ChainOf, EntriesOf, Last
  <2>6. Len(stack) <= MaxHops /\ Len(found) <= Ceiling
    BY <2>1 DEF StackOK, FoundOK
  <2> QED BY <2>1, <2>3, <2>4, <2>5, <2>6 DEF TypeOK
<1> QED BY <1>1, Invariance, PTL

-----------------------------------------------------------------------------
\* The nodes of a chain tell its edges.
LEMMA NodesTell ==
  ASSUME NEW g, IsGraph(g), NEW n, NEW e, NEW f, Chain(g, n, e), Chain(g, n, f)
  PROVE  e = f
<1>1. /\ e \in Seq(EdgeKind) /\ f \in Seq(EdgeKind) /\ Len(e) \in Nat /\ Len(f) \in Nat
      /\ Len(n) = Len(e) + 1 /\ Len(n) = Len(f) + 1
  BY ChainIs DEF Chain
<1>2. Len(e) = Len(f)
  BY <1>1
<1>3. \A i \in 1..Len(e) : e[i] = f[i]
  <2> TAKE i \in 1..Len(e)
  <2> DEFINE a == [src |-> n[i], kind |-> e[i], dst |-> n[i + 1]]
             b == [src |-> n[i], kind |-> f[i], dst |-> n[i + 1]]
  <2>1. a \in g.edge /\ b \in g.edge
    BY <1>2 DEF Chain
  <2>2. a.src = b.src /\ a.dst = b.dst /\ a.kind = e[i] /\ b.kind = f[i]
    OBVIOUS
  <2> HIDE DEF a, b
  <2> QED BY <2>1, <2>2 DEF IsGraph
<1> QED BY <1>1, <1>2, <1>3, SeqEqual

\* The worst MaxPaths chains of a list.
Worst(paths) == SubSeq(Ranked(paths), 1, Least(MaxPaths, Len(paths)))

\* They are of the list, all of it if they can be, and what is not among them ranks
\* before none of them.
LEMMA WorstIs ==
  ASSUME NEW paths \in Seq(Path)
  PROVE  LET kept == Worst(paths) IN
         /\ kept \in Seq(Path) /\ Len(kept) = Least(MaxPaths, Len(paths)) /\ Len(paths) \in Nat
         /\ Range(kept) \subseteq Range(paths)
         /\ Len(paths) <= MaxPaths => Range(kept) = Range(paths)
         /\ \A j, k \in 1..Len(kept) : j # k => \E a, b \in 1..Len(paths) :
               a # b /\ kept[j] = paths[a] /\ kept[k] = paths[b]
         /\ \A c \in Range(paths) \ Range(kept) : \A i \in 1..Len(kept) : ~RankedBefore(c, kept[i])
<1> DEFINE L == Len(paths)
           K == Least(MaxPaths, L)
           r == Ranked(paths)
           kept == Worst(paths)
<1>1. L \in Nat /\ DOMAIN paths = 1..L /\ \A i \in 1..L : paths[i] \in Path
  BY LenProperties, ElementOfSeq
<1>2. Sorts(r, paths, L)
  BY RankedIs
<1>3. K \in Nat /\ K <= L /\ (L <= MaxPaths => K = L) /\ \A i \in 1..K : i \in 1..L
  <2>1. MaxPaths \in Nat /\ L \in Nat
    BY <1>1, CapsAssumption
  <2>2. K = IF MaxPaths <= L THEN MaxPaths ELSE L
    BY DEF Least
  <2> HIDE DEF K, L
  <2> QED BY <2>1, <2>2
<1> HIDE DEF r, K, L
<1>4. r \in Seq(Path) /\ Len(r) = L /\ \A k, l \in 1..L : k < l => ~RankedBefore(r[l], r[k])
  BY <1>2 DEF Sorts
<1>5. PICK from \in [1..L -> 1..L] :
        /\ \A i \in 1..L : \E k \in 1..L : from[k] = i
        /\ \A k, l \in 1..L : from[k] = from[l] => k = l
        /\ \A k \in 1..L : r[k] = paths[from[k]]
  BY <1>2 DEF Sorts
<1>6. kept \in Seq(Path) /\ Len(kept) = K /\ \A i \in 1..K : kept[i] = r[i]
  <2>0. kept = SubSeq(r, 1, K)
    BY DEF Worst, r, K, L
  <2>1. \A i \in 1..K : r[i] \in Path
    BY <1>1, <1>3, <1>5
  <2> HIDE DEF kept
  <2>2. /\ SubSeq(r, 1, K) \in Seq(Path)
        /\ Len(SubSeq(r, 1, K)) = IF 1 <= K THEN K - 1 + 1 ELSE 0
        /\ \A i \in 1 .. (K - 1 + 1) : SubSeq(r, 1, K)[i] = r[1 + i - 1]
    <3>1. 1 \in Int /\ K \in Int
      BY <1>3
    <3> QED BY <3>1, <2>1, SubSeqProperties
  <2>3. Len(kept) = K
    BY <2>0, <2>2, <1>3
  <2>4. \A i \in 1..K : kept[i] = r[i]
    <3> TAKE i \in 1..K
    <3>1. i \in 1 .. (K - 1 + 1) /\ 1 + i - 1 = i
      BY <1>3
    <3> QED BY <3>1, <2>0, <2>2
  <2> QED BY <2>0, <2>2, <2>3, <2>4
<1>7. DOMAIN kept = 1..K
  BY <1>6, LenProperties
<1> HIDE DEF kept
<1>8. \A x : x \in Range(paths) <=> \E i \in 1..L : x = paths[i]
  BY <1>1 DEF Range
<1>9. \A x : x \in Range(kept) <=> \E i \in 1..K : x = kept[i]
  BY <1>7 DEF Range
<1>10. Range(kept) \subseteq Range(paths)
  <2> SUFFICES ASSUME NEW i \in 1..K PROVE kept[i] \in Range(paths)
    BY <1>9
  <2>1. i \in 1..L /\ kept[i] = paths[from[i]] /\ from[i] \in 1..L
    BY <1>3, <1>5, <1>6
  <2> QED BY <2>1, <1>8
<1>11. ASSUME NEW c \in Range(paths) PROVE \E k \in 1..L : c = r[k]
  <2>1. PICK i \in 1..L : c = paths[i]
    BY <1>8
  <2>2. PICK k \in 1..L : from[k] = i
    BY <1>5
  <2> QED BY <2>1, <2>2, <1>5
<1>12. ASSUME L <= MaxPaths PROVE Range(kept) = Range(paths)
  <2> SUFFICES ASSUME NEW c \in Range(paths) PROVE c \in Range(kept)
    BY <1>10
  <2>1. PICK k \in 1..L : c = r[k]
    BY <1>11
  <2> QED BY <2>1, <1>3, <1>6, <1>9, <1>12
<1>13. ASSUME NEW c \in Range(paths) \ Range(kept), NEW i \in 1..Len(kept)
       PROVE  ~RankedBefore(c, kept[i])
  <2>1. PICK k \in 1..L : c = r[k]
    BY <1>11
  <2>2. k \notin 1..K
    BY <2>1, <1>6, <1>9
  <2>3. i \in 1..K /\ i \in 1..L /\ kept[i] = r[i]
    BY <1>3, <1>6
  <2>4. i < k
    BY <2>2, <2>3, <1>1, <1>3
  <2> QED BY <2>1, <2>3, <2>4, <1>4
<1>14. ASSUME NEW j \in 1..Len(kept), NEW k \in 1..Len(kept), j # k
       PROVE  \E a, b \in 1..L : a # b /\ kept[j] = paths[a] /\ kept[k] = paths[b]
  <2>1. j \in 1..L /\ k \in 1..L /\ kept[j] = r[j] /\ kept[k] = r[k]
    BY <1>3, <1>6
  <2>2. from[j] \in 1..L /\ from[k] \in 1..L /\ from[j] # from[k]
    BY <2>1, <1>5, <1>14
  <2>3. kept[j] = paths[from[j]] /\ kept[k] = paths[from[k]]
    BY <2>1, <1>5
  <2> QED BY <2>2, <2>3
<1> QED BY <1>1, <1>6, <1>10, <1>12, <1>13, <1>14 DEF kept, K, L

-----------------------------------------------------------------------------
(* The simple paths of a graph, level by level.                           *)

\* A simple path from an entry, whatever it ends in; those with k edges.
Walk(g, n, e) ==
  /\ n \in Seq(g.node) /\ e \in Seq(EdgeKind) /\ Len(n) = Len(e) + 1
  /\ n[1] \in EntriesOf(g) /\ IsInjective(n)
  /\ \A i \in 1..Len(e) : [src |-> n[i], kind |-> e[i], dst |-> n[i + 1]] \in g.edge

Walks(g, k) ==
  {p \in [nodes : Seq(g.node), edges : Seq(EdgeKind)] :
      Walk(g, p.nodes, p.edges) /\ Len(p.edges) = k}

\* The facts of a list that grows by one.
LEMMA Grown ==
  ASSUME NEW S, NEW n \in Seq(S), NEW x \in S
  PROVE  /\ Append(n, x) \in Seq(S) /\ Len(n) \in Nat /\ Len(Append(n, x)) = Len(n) + 1
         /\ DOMAIN n = 1..Len(n) /\ DOMAIN Append(n, x) = 1..(Len(n) + 1)
         /\ \A i \in 1..Len(n) : Append(n, x)[i] = n[i]
         /\ Append(n, x)[Len(n) + 1] = x
         /\ \A i \in 1..(Len(n) + 1) : i \in 1..Len(n) \/ i = Len(n) + 1
<1>1. /\ Append(n, x) \in Seq(S) /\ Len(Append(n, x)) = Len(n) + 1
      /\ \A i \in 1..Len(n) : Append(n, x)[i] = n[i]
      /\ Append(n, x)[Len(n) + 1] = x
  BY AppendProperties
<1>2. Len(n) \in Nat /\ DOMAIN n = 1..Len(n) /\ DOMAIN Append(n, x) = 1..Len(Append(n, x))
  BY <1>1, LenProperties
<1> QED BY <1>1, <1>2

\* A walk and the edge that leads off it make a walk, and a longer walk is made so.
LEMMA WalkGrows ==
  ASSUME NEW g, IsGraph(g), NEW n \in Seq(g.node), NEW e \in Seq(EdgeKind),
         NEW x \in g.node, NEW k \in EdgeKind, Len(e) \in Nat, Len(n) = Len(e) + 1
  PROVE  Walk(g, Append(n, x), Append(e, k)) <=>
           /\ Walk(g, n, e)
           /\ [src |-> n[Len(n)], kind |-> k, dst |-> x] \in g.edge
           /\ x \notin Range(n)
<1> DEFINE N == g.node
           nn == Append(n, x)
           ee == Append(e, k)
           L == Len(e)
<1>1. n \in Seq(N) /\ x \in N
  OBVIOUS
<1>2. /\ nn \in Seq(N) /\ Len(n) \in Nat /\ Len(nn) = Len(n) + 1
      /\ DOMAIN n = 1..Len(n) /\ DOMAIN nn = 1..(Len(n) + 1)
      /\ \A i \in 1..Len(n) : nn[i] = n[i]
      /\ nn[Len(n) + 1] = x
      /\ \A i \in 1..(Len(n) + 1) : i \in 1..Len(n) \/ i = Len(n) + 1
  <2> HIDE DEF N
  <2> QED BY <1>1, Grown
<1>3. /\ ee \in Seq(EdgeKind) /\ L \in Nat /\ Len(ee) = L + 1
      /\ DOMAIN e = 1..L /\ DOMAIN ee = 1..(L + 1)
      /\ \A i \in 1..L : ee[i] = e[i]
      /\ ee[L + 1] = k
      /\ \A i \in 1..(L + 1) : i \in 1..L \/ i = L + 1
  BY Grown
<1>4. Len(n) = L + 1 /\ L + 1 \in 1..(L + 1) /\ \A i \in 1..L : i \in 1..(L + 1) /\ i + 1 \in 1..(L + 1)
  BY <1>3
<1> HIDE DEF nn, ee, L
<1>5. nn[1] = n[1]
  <2>1. 1 \in 1..Len(n)
    BY <1>2, <1>3, <1>4
  <2> QED BY <2>1, <1>2
<1>6. (\A i \in 1..Len(ee) : [src |-> nn[i], kind |-> ee[i], dst |-> nn[i + 1]] \in g.edge) <=>
        /\ \A i \in 1..L : [src |-> n[i], kind |-> e[i], dst |-> n[i + 1]] \in g.edge
        /\ [src |-> n[L + 1], kind |-> k, dst |-> x] \in g.edge
  <2>1. \A i \in 1..L : nn[i] = n[i] /\ ee[i] = e[i] /\ nn[i + 1] = n[i + 1]
    BY <1>2, <1>3, <1>4
  <2>2. nn[L + 1] = n[L + 1] /\ ee[L + 1] = k /\ nn[(L + 1) + 1] = x
    BY <1>2, <1>3, <1>4
  <2> QED BY <2>1, <2>2, <1>3, <1>4
<1>7. IsInjective(nn) <=> IsInjective(n) /\ x \notin Range(n)
  <2>1. \A y : y \in Range(n) <=> \E i \in 1..Len(n) : y = n[i]
    BY <1>2 DEF Range
  <2>2. Len(n) + 1 \notin 1..Len(n) /\ Len(n) + 1 \in 1..(Len(n) + 1)
        /\ \A i \in 1..Len(n) : i \in 1..(Len(n) + 1)
    BY <1>2
  <2>3. ASSUME IsInjective(nn) PROVE IsInjective(n) /\ x \notin Range(n)
    <3>1. \A i, j \in 1..Len(n) : n[i] = n[j] => i = j
      BY <2>2, <2>3, <1>2 DEF IsInjective
    <3>2. \A i \in 1..Len(n) : n[i] # x
      BY <2>2, <2>3, <1>2 DEF IsInjective
    <3> QED BY <3>1, <3>2, <2>1, <1>2 DEF IsInjective
  <2>4. ASSUME IsInjective(n), x \notin Range(n) PROVE IsInjective(nn)
    <3>1. \A i \in 1..Len(n) : n[i] # x
      BY <2>4, <2>1
    <3>2. \A i, j \in 1..Len(n) : n[i] = n[j] => i = j
      BY <2>4, <1>2 DEF IsInjective
    <3>3. \A i, j \in 1..(Len(n) + 1) : nn[i] = nn[j] => i = j
      BY <3>1, <3>2, <1>2
    <3> QED BY <3>3, <1>2 DEF IsInjective
  <2> QED BY <2>3, <2>4
<1>8. Len(nn) = Len(ee) + 1 /\ nn \in Seq(g.node)
  BY <1>2, <1>3, <1>4
<1> QED BY <1>3, <1>4, <1>5, <1>6, <1>7, <1>8 DEF Walk, nn, ee, L

\* The walks without an edge are the entries.
LEMMA WalksStart ==
  ASSUME NEW g, IsGraph(g)
  PROVE  Walks(g, 0) = {[nodes |-> <<x>>, edges |-> <<>>] : x \in EntriesOf(g)}
<1>1. ASSUME NEW x \in EntriesOf(g) PROVE [nodes |-> <<x>>, edges |-> <<>>] \in Walks(g, 0)
  <2>1. x \in g.node
    BY DEF EntriesOf
  <2>2. /\ <<x>> \in Seq(g.node) /\ <<>> \in Seq(EdgeKind) /\ Len(<<x>>) = 1 /\ Len(<<>>) = 0
        /\ (<<x>>)[1] = x /\ DOMAIN <<x>> = 1..1 /\ (\A i \in 1..1 : i = 1) /\ \A i \in 1..0 : FALSE
    <3>1. <<x>> \in Seq(g.node)
      <4> DEFINE N == g.node
      <4>1. x \in N
        BY <2>1
      <4> HIDE DEF N
      <4>2. <<x>> \in Seq(N)
        BY <4>1
      <4> QED BY <4>2 DEF N
    <3>2. <<>> \in Seq(EdgeKind) /\ Len(<<x>>) = 1 /\ Len(<<>>) = 0 /\ (<<x>>)[1] = x
      BY EmptySeq
    <3>3. DOMAIN <<x>> = 1..1
      OBVIOUS
    <3>4. (\A i \in 1..1 : i = 1) /\ \A i \in 1..0 : FALSE
      OBVIOUS
    <3> QED BY <3>1, <3>2, <3>3, <3>4
  <2>3. IsInjective(<<x>>)
    BY <2>2 DEF IsInjective
  <2> DEFINE n == <<x>>  e == <<>>
  <2>4. n \in Seq(g.node) /\ e \in Seq(EdgeKind) /\ Len(n) = Len(e) + 1 /\ n[1] \in EntriesOf(g)
        /\ IsInjective(n) /\ Len(e) = 0 /\ \A i \in 1..Len(e) : FALSE
    BY <2>2, <2>3
  <2> HIDE DEF n, e
  <2>5. Walk(g, n, e)
    BY <2>4 DEF Walk
  <2>6. [nodes |-> n, edges |-> e] \in Walks(g, 0)
    BY <2>4, <2>5 DEF Walks
  <2> QED BY <2>6 DEF n, e
<1>2. ASSUME NEW p \in Walks(g, 0)
      PROVE  p \in {[nodes |-> <<x>>, edges |-> <<>>] : x \in EntriesOf(g)}
  <2>1. /\ p \in [nodes : Seq(g.node), edges : Seq(EdgeKind)] /\ Walk(g, p.nodes, p.edges) /\ Len(p.edges) = 0
    BY DEF Walks
  <2>2. p.nodes \in Seq(g.node) /\ Len(p.nodes) = 1 /\ p.nodes[1] \in EntriesOf(g) /\ p.edges \in Seq(EdgeKind)
    BY <2>1 DEF Walk
  <2>3. p.nodes = <<p.nodes[1]>>
    BY <2>2
  <2>4. p.edges = <<>>
    BY <2>1, <2>2, EmptySeq
  <2>5. p = [nodes |-> p.nodes, edges |-> p.edges]
    BY <2>1
  <2> QED BY <2>2, <2>3, <2>4, <2>5
<1> QED BY <1>1, <1>2

\* The walks with one edge more are those one edge longer.
LEMMA WalksGrow ==
  ASSUME NEW g, IsGraph(g), NEW k \in Nat
  PROVE  Walks(g, k + 1) = Longer(g, Walks(g, k))
<1>0. \A a \in g.edge : /\ a.kind \in EdgeKind /\ a.src \in g.node /\ a.dst \in g.node
                        /\ a = [src |-> a.src, kind |-> a.kind, dst |-> a.dst]
  BY DEF IsGraph
<1>1. ASSUME NEW q \in Longer(g, Walks(g, k)) PROVE q \in Walks(g, k + 1)
  <2>1. PICK p \in Walks(g, k), a \in g.edge :
           /\ a.src = Last(p.nodes) /\ a.dst \notin Range(p.nodes)
           /\ q = [nodes |-> Append(p.nodes, a.dst), edges |-> Append(p.edges, a.kind)]
    <3>1. PICK pe \in Walks(g, k) \X g.edge :
            /\ pe[2].src = Last(pe[1].nodes) /\ pe[2].dst \notin Range(pe[1].nodes)
            /\ q = [nodes |-> Append(pe[1].nodes, pe[2].dst), edges |-> Append(pe[1].edges, pe[2].kind)]
      BY <1>1 DEF Longer
    <3>2. pe[1] \in Walks(g, k) /\ pe[2] \in g.edge
      OBVIOUS
    <3> QED BY <3>1, <3>2
  <2> DEFINE n == p.nodes  e == p.edges
  <2>2. n \in Seq(g.node) /\ e \in Seq(EdgeKind) /\ Walk(g, n, e) /\ Len(e) = k /\ Len(n) = Len(e) + 1
    BY DEF Walks, Walk
  <2>3. /\ a.dst \in g.node /\ a.kind \in EdgeKind
        /\ [src |-> n[Len(n)], kind |-> a.kind, dst |-> a.dst] \in g.edge
        /\ a.dst \notin Range(n)
    BY <1>0, <2>1 DEF Last
  <2>4. q = [nodes |-> Append(n, a.dst), edges |-> Append(e, a.kind)]
    BY <2>1
  <2> HIDE DEF n, e
  <2>5. Walk(g, Append(n, a.dst), Append(e, a.kind))
    BY <2>2, <2>3, WalkGrows
  <2>6. /\ Append(n, a.dst) \in Seq(g.node) /\ Append(e, a.kind) \in Seq(EdgeKind)
    BY <2>5 DEF Walk
  <2>7. Len(Append(e, a.kind)) = k + 1
    BY <2>2, <2>3, Grown
  <2> QED BY <2>4, <2>5, <2>6, <2>7 DEF Walks
<1>2. ASSUME NEW q \in Walks(g, k + 1) PROVE q \in Longer(g, Walks(g, k))
  <2>1. /\ q = [nodes |-> q.nodes, edges |-> q.edges] /\ Walk(g, q.nodes, q.edges) /\ Len(q.edges) = k + 1
        /\ q.nodes \in Seq(g.node) /\ q.edges \in Seq(EdgeKind) /\ Len(q.nodes) = Len(q.edges) + 1
    BY DEF Walks, Walk
  <2>2. q.nodes # <<>> /\ q.edges # <<>>
    BY <2>1, EmptySeq
  <2> DEFINE N == g.node
  <2>3. \E n \in Seq(N), x \in N : q.nodes = Append(n, x)
    <3>1. q.nodes \in Seq(N)
      BY <2>1
    <3> HIDE DEF N
    <3> QED BY <3>1, <2>2, SequenceEmptyOrAppend
  <2>4. PICK n \in Seq(g.node), x \in g.node : q.nodes = Append(n, x)
    BY <2>3
  <2>5. PICK e \in Seq(EdgeKind), c \in EdgeKind : q.edges = Append(e, c)
    BY <2>1, <2>2, SequenceEmptyOrAppend
  <2>6. Len(n) \in Nat /\ Len(q.nodes) = Len(n) + 1
    <3>1. n \in Seq(N) /\ x \in N
      OBVIOUS
    <3> HIDE DEF N
    <3> QED BY <3>1, <2>4, Grown
  <2>7. Len(e) \in Nat /\ Len(q.edges) = Len(e) + 1
    BY <2>5, Grown
  <2>8. Len(e) = k /\ Len(n) = Len(e) + 1
    BY <2>1, <2>6, <2>7
  <2>9. /\ Walk(g, n, e)
        /\ [src |-> n[Len(n)], kind |-> c, dst |-> x] \in g.edge
        /\ x \notin Range(n)
    <3>1. Walk(g, Append(n, x), Append(e, c))
      BY <2>1, <2>4, <2>5
    <3> QED BY <3>1, <2>7, <2>8, WalkGrows
  <2> DEFINE p == [nodes |-> n, edges |-> e]
             a == [src |-> n[Len(n)], kind |-> c, dst |-> x]
  <2>10. p \in Walks(g, k) /\ a \in g.edge
    BY <2>8, <2>9 DEF Walks
  <2>11. p.nodes = n /\ p.edges = e /\ a.src = n[Len(n)] /\ a.kind = c /\ a.dst = x
    OBVIOUS
  <2>12. q = [nodes |-> Append(p.nodes, a.dst), edges |-> Append(p.edges, a.kind)]
    BY <2>1, <2>4, <2>5, <2>11
  <2>13. a.src = Last(p.nodes) /\ a.dst \notin Range(p.nodes)
    BY <2>9, <2>11 DEF Last
  <2> DEFINE pe == <<p, a>>
  <2>14. pe[1] = p /\ pe[2] = a
    OBVIOUS
  <2> HIDE DEF p, a
  <2>15. pe \in Walks(g, k) \X g.edge
    BY <2>10
  <2> HIDE DEF pe
  <2> QED BY <2>12, <2>13, <2>14, <2>15 DEF Longer
<1> QED BY <1>1, <1>2

\* The simple paths of the graph are the walks of at least one edge; a walk visits no
\* node twice, so it has fewer edges than the graph has nodes.
LEMMA SimplePathsAre ==
  ASSUME NEW g, IsGraph(g)
  PROVE  \A p : p \in SimplePaths(g) <=>
           /\ p \in [nodes : Seq(g.node), edges : Seq(EdgeKind)]
           /\ Walk(g, p.nodes, p.edges) /\ p.edges # <<>>
<1> DEFINE base == {[nodes |-> <<x>>, edges |-> <<>>] : x \in EntriesOf(g)}
           paths == CHOOSE f : f = [n \in Nat |-> IF n = 0 THEN base ELSE Longer(g, f[n - 1])]
           C == Cardinality(g.node)
<1>1. SimplePaths(g) = UNION {paths[n] : n \in 1..(C - 1)}
  BY DEF SimplePaths
<1>2. C \in Nat
  BY FS_CardinalityType DEF IsGraph
<1>3. paths = [n \in Nat |-> IF n = 0 THEN base ELSE Longer(g, paths[n - 1])]
  <2> DEFINE F == [n \in Nat |-> Walks(g, n)]
  <2>1. Walks(g, 0) = base
    BY WalksStart
  <2>2. ASSUME NEW n \in Nat, n # 0 PROVE Walks(g, n) = Longer(g, Walks(g, n - 1)) /\ n - 1 \in Nat
    <3>1. n - 1 \in Nat /\ (n - 1) + 1 = n
      BY <2>2
    <3>2. Walks(g, (n - 1) + 1) = Longer(g, Walks(g, n - 1))
      BY <3>1, WalksGrow
    <3> QED BY <3>1, <3>2
  <2> HIDE DEF base
  <2>3. \A n \in Nat : Walks(g, n) = IF n = 0 THEN base ELSE Longer(g, F[n - 1])
    BY <2>1, <2>2
  <2>4. F = [n \in Nat |-> IF n = 0 THEN base ELSE Longer(g, F[n - 1])]
    BY <2>3
  <2> HIDE DEF F
  <2>5. \E f : f = [n \in Nat |-> IF n = 0 THEN base ELSE Longer(g, f[n - 1])]
    BY <2>4
  <2> QED BY <2>5
<1> HIDE DEF paths, C
<1>4. \A n \in Nat : paths[n] = Walks(g, n)
  <2> DEFINE Bad == {n \in Nat : paths[n] # Walks(g, n)}
  <2> SUFFICES ASSUME Bad # {} PROVE FALSE
    OBVIOUS
  <2>1. PICK n \in Bad : \A k \in Bad : n <= k
    <3>1. Bad \in SUBSET Nat
      OBVIOUS
    <3> HIDE DEF Bad
    <3> QED BY <3>1, LeastMember
  <2>2. CASE n = 0
    <3>1. paths[0] = base
      BY <1>3
    <3> QED BY <2>1, <2>2, <3>1, WalksStart
  <2>3. CASE n # 0
    <3>1. n \in Nat /\ n - 1 \in Nat /\ (n - 1) + 1 = n /\ ~(n <= n - 1)
      BY <2>3
    <3>2. paths[n] = Longer(g, paths[n - 1])
      BY <1>3, <2>3, <3>1
    <3>3. paths[n - 1] = Walks(g, n - 1)
      BY <2>1, <3>1
    <3>4. Walks(g, (n - 1) + 1) = Longer(g, Walks(g, n - 1))
      BY <3>1, WalksGrow
    <3> QED BY <2>1, <3>1, <3>2, <3>3, <3>4
  <2> QED BY <2>2, <2>3
<1>5. ASSUME NEW p, p \in SimplePaths(g)
      PROVE  /\ p \in [nodes : Seq(g.node), edges : Seq(EdgeKind)]
             /\ Walk(g, p.nodes, p.edges) /\ p.edges # <<>>
  <2>1. PICK n \in 1..(C - 1) : p \in paths[n]
    BY <1>1, <1>5
  <2>2. n \in Nat /\ n # 0
    BY <1>2
  <2>3. p \in Walks(g, n)
    BY <1>4, <2>1, <2>2
  <2>4. p \in [nodes : Seq(g.node), edges : Seq(EdgeKind)] /\ Walk(g, p.nodes, p.edges) /\ Len(p.edges) = n
    BY <2>3 DEF Walks
  <2> QED BY <2>2, <2>4, EmptySeq
<1>6. ASSUME NEW p, p \in [nodes : Seq(g.node), edges : Seq(EdgeKind)],
             Walk(g, p.nodes, p.edges), p.edges # <<>>
      PROVE  p \in SimplePaths(g)
  <2> DEFINE n == p.nodes
             L == Len(n)
  <2>1. p.edges \in Seq(EdgeKind) /\ n \in Seq(g.node) /\ IsInjective(n) /\ L = Len(p.edges) + 1
    BY <1>6 DEF Walk
  <2>2. Len(p.edges) \in Nat \ {0} /\ L \in Nat /\ DOMAIN n = 1..L /\ n \in [1..L -> g.node]
    BY <1>6, <2>1, EmptySeq, LenProperties
  <2>3. n \in Injection(1..L, g.node)
    BY <2>1, <2>2 DEF Injection
  <2>4. Cardinality(1..L) <= C /\ Cardinality(1..L) = L
    <3>1. IsFiniteSet(g.node)
      BY DEF IsGraph
    <3>2. Cardinality(1..L) <= Cardinality(g.node)
      BY <2>3, <3>1, FS_Injection
    <3> QED BY <3>2, <2>2, FS_Interval DEF C
  <2>5. Len(p.edges) \in 1..(C - 1)
    BY <2>1, <2>2, <2>4, <1>2
  <2>6. p \in Walks(g, Len(p.edges))
    BY <1>6 DEF Walks
  <2>7. p \in paths[Len(p.edges)]
    BY <2>2, <2>6, <1>4
  <2> QED BY <1>1, <2>5, <2>7
<1> QED BY <1>5, <1>6

\* The chains of the machine are those of its graph, of whatever length.
LEMMA ChainsAre ==
  ASSUME NEW m, NEW g, IsGraph(g)
  PROVE  \A c : c \in Chains(m, g) <=> \E n, e : Chain(g, n, e) /\ c = MakePath(m, n, e)
<1>1. ASSUME NEW c \in Chains(m, g) PROVE \E n, e : Chain(g, n, e) /\ c = MakePath(m, n, e)
  <2>1. PICK p \in SimplePaths(g) : /\ Last(p.nodes)[1] = "target" /\ Actionable(p.edges)
                                    /\ c = MakePath(m, p.nodes, p.edges)
    BY DEF Chains
  <2>2. Walk(g, p.nodes, p.edges)
    BY SimplePathsAre
  <2>3. Chain(g, p.nodes, p.edges)
    BY <2>1, <2>2 DEF Chain, Walk, Last
  <2> QED BY <2>1, <2>3
<1>2. ASSUME NEW n, NEW e, Chain(g, n, e) PROVE MakePath(m, n, e) \in Chains(m, g)
  <2> DEFINE p == [nodes |-> n, edges |-> e]
  <2>1. p.nodes = n /\ p.edges = e
    OBVIOUS
  <2>2. n \in Seq(g.node) /\ e \in Seq(EdgeKind)
    BY <1>2 DEF Chain
  <2>3. Walk(g, n, e) /\ e # <<>>
    <3>1. Len(e) # 0
      BY <1>2, ChainIs
    <3> QED BY <3>1, <1>2, EmptySeq DEF Chain, Walk
  <2>4. p \in [nodes : Seq(g.node), edges : Seq(EdgeKind)]
    BY <2>2
  <2>5. Last(n)[1] = "target" /\ Actionable(e)
    BY <1>2 DEF Chain, Last
  <2> HIDE DEF p
  <2>6. p \in SimplePaths(g)
    BY <2>1, <2>3, <2>4, SimplePathsAre
  <2>7. p \in {q \in SimplePaths(g) : Last(q.nodes)[1] = "target" /\ Actionable(q.edges)}
    BY <2>1, <2>5, <2>6
  <2> QED BY <2>1, <2>7 DEF Chains
<1> QED BY <1>1, <1>2

-----------------------------------------------------------------------------
(* What the report says.                                                  *)

\* Of chains there is a worst.
LEMMA WorstOne ==
  ASSUME NEW S \in SUBSET Path, S # {}
  PROVE  \E p \in S : \A q \in S : weight[q.severity] <= weight[p.severity]
<1> DEFINE T == {40 - weight[p.severity] : p \in S}
<1>0. \A p \in S : p.severity \in Severity
  BY DEF Path
<1>1. \A p \in S : weight[p.severity] \in 0..40
  <2>1. \A s \in Severity : weight[s] \in 0..40
    BY DEF Severity, weight
  <2> QED BY <1>0, <2>1
<1>2. T \in SUBSET Nat /\ T # {}
  <2>1. \A p \in S : 40 - weight[p.severity] \in Nat
    BY <1>1
  <2> QED BY <2>1
<1>3. PICK x \in T : \A y \in T : x <= y
  <2> HIDE DEF T
  <2> QED BY <1>2, LeastMember
<1>4. PICK p \in S : x = 40 - weight[p.severity]
  BY <1>3
<1>5. ASSUME NEW q \in S PROVE weight[q.severity] <= weight[p.severity]
  <2>1. 40 - weight[p.severity] <= 40 - weight[q.severity]
    BY <1>3, <1>4
  <2>2. weight[q.severity] \in 0..40 /\ weight[p.severity] \in 0..40
    BY <1>1
  <2> QED BY <2>1, <2>2
<1> QED BY <1>5

\* The grade and the exit codes are those of the worst: as bad a chain in each of two
\* sets for every chain of the other, and they grade and fail alike.
LEMMA SameGrade ==
  ASSUME NEW S \in SUBSET Path, NEW T \in SUBSET Path, S \subseteq T,
         \A q \in T : \E p \in S : weight[q.severity] <= weight[p.severity]
  PROVE  overall_grade_for_paths(S) = overall_grade_for_paths(T) /\ FailedAt(S) = FailedAt(T)
<1>0. \A p \in T : p.severity \in Severity /\ weight[p.severity] \in Nat
  BY Weights DEF Path
<1> DEFINE W(U, p) == p \in U /\ \A q \in U : weight[q.severity] <= weight[p.severity]
           top(U) == CHOOSE p \in U : \A q \in U : weight[q.severity] <= weight[p.severity]
<1>1. overall_grade_for_paths(S) = overall_grade_for_paths(T)
  <2>1. CASE T = {}
    <3>1. S = T
      BY <2>1
    <3> QED BY <3>1
  <2>2. CASE T # {}
    <3>1. S # {}
      BY <2>2
    <3>2. W(S, top(S))
      BY <3>1, WorstOne
    <3>3. W(T, top(T))
      BY <2>2, WorstOne
    <3>4. overall_grade_for_paths(S) = SeverityGrade[top(S).severity]
          /\ overall_grade_for_paths(T) = SeverityGrade[top(T).severity]
      BY <2>2, <3>1 DEF overall_grade_for_paths
    <3> HIDE DEF top
    <3>5. weight[top(S).severity] <= weight[top(T).severity]
      BY <3>2, <3>3
    <3>6. PICK p \in S : weight[top(T).severity] <= weight[p.severity]
      BY <3>3
    <3>7. weight[p.severity] <= weight[top(S).severity]
      BY <3>2
    <3>8. /\ weight[top(S).severity] \in Nat /\ weight[top(T).severity] \in Nat /\ weight[p.severity] \in Nat
          /\ top(S).severity \in Severity /\ top(T).severity \in Severity
      BY <1>0, <3>2, <3>3
    <3>9. weight[top(S).severity] = weight[top(T).severity]
      BY <3>5, <3>6, <3>7, <3>8
    <3> QED BY <3>4, <3>8, <3>9, Weights
  <2> QED BY <2>1, <2>2
<1>2. FailedAt(S) = FailedAt(T)
  <2>1. ASSUME NEW t \in Severity, NEW q \in T, q.severity \in blocking(t)
        PROVE  \E p \in S : p.severity \in blocking(t)
    <3>1. PICK p \in S : weight[q.severity] <= weight[p.severity]
      OBVIOUS
    <3>2. weight[t] \in Nat /\ weight[t] <= weight[q.severity] /\ q.severity # "info"
      BY <2>1, Weights DEF blocking
    <3>3. weight[q.severity] \in Nat /\ weight[p.severity] \in Nat
          /\ p.severity \in Severity /\ q.severity \in Severity
      BY <1>0
    <3>4. weight["info"] = 0 /\ "info" \in Severity
      BY DEF weight, Severity
    <3>5. weight[q.severity] # 0
      BY <3>2, <3>3, <3>4, Weights
    <3>6. p.severity # "info" /\ weight[t] <= weight[p.severity]
      BY <3>1, <3>2, <3>3, <3>4, <3>5
    <3> QED BY <3>3, <3>6 DEF blocking
  <2>2. \A t \in Severity : (\E p \in S : p.severity \in blocking(t)) <=> (\E p \in T : p.severity \in blocking(t))
    BY <2>1
  <2> QED BY <2>2 DEF FailedAt
<1> QED BY <1>1, <1>2

\* The chains of the machine within the depth.
Within == {c \in Chains(machine, graph) : Len(c.edges) <= MaxHops}

\* What the invariant says of a search that is over.
LEMMA OverIs ==
  ASSUME IInv, pc = "done"
  PROVE  /\ IsGraph(graph) /\ FoundOK(machine, graph, found)
         /\ report = Report(Worst(found))
         /\ \A j, k \in 1..Len(found) : found[j].nodes = found[k].nodes => j = k
         /\ \A c \in Range(found) : c \in Within
         /\ ~ceiling_hit => Range(found) = Within
         /\ ~ceiling_hit /\ ~depth_capped => Range(found) = Chains(machine, graph)
<1>1. /\ FoundOK(machine, graph, found) /\ Once(entries, stack, found)
      /\ stack = <<>> /\ entries = {} /\ report = Report(Worst(found))
      /\ ~ceiling_hit => Covered(graph, entries, stack, found, depth_capped)
  BY DEF IInv, Reported, Worst
<1>2. IsGraph(graph)
  BY GraphIs DEF IInv
<1>3. /\ found \in Seq(Path) /\ DOMAIN found = 1..Len(found)
      /\ \A k \in 1..Len(found) :
           /\ Chain(graph, found[k].nodes, found[k].edges) /\ Len(found[k].edges) <= MaxHops
           /\ found[k] = MakePath(machine, found[k].nodes, found[k].edges)
  BY <1>1, LenProperties DEF FoundOK
<1>4. \A c : c \in Range(found) <=> \E k \in 1..Len(found) : c = found[k]
  BY <1>3 DEF Range
<1>5. \A c : c \in Chains(machine, graph)
              <=> \E n, e : Chain(graph, n, e) /\ c = MakePath(machine, n, e)
  BY <1>2, ChainsAre
<1>6. ASSUME NEW j \in 1..Len(found), NEW k \in 1..Len(found), found[j].nodes = found[k].nodes
      PROVE  j = k
  <2>1. found[j].edges = found[k].edges
    <3>1. Chain(graph, found[j].nodes, found[j].edges) /\ Chain(graph, found[j].nodes, found[k].edges)
      BY <1>3, <1>6
    <3> QED BY <3>1, <1>2, NodesTell
  <2> QED BY <2>1, <1>1, <1>6 DEF Once
<1>7. \A c \in Range(found) : c \in Within
  <2> SUFFICES ASSUME NEW k \in 1..Len(found) PROVE found[k] \in Within
    BY <1>4
  <2>1. found[k] \in Chains(machine, graph)
    BY <1>3, <1>5
  <2> QED BY <2>1, <1>3 DEF Within
<1>8. \A n, e : ~Ahead(entries, stack, n, e)
  <2>1. Len(<<>>) = 0 /\ \A i \in 1..0 : FALSE
    OBVIOUS
  <2> QED BY <2>1, <1>1 DEF Ahead
<1>9. ASSUME ~ceiling_hit, NEW c \in Chains(machine, graph), Len(c.edges) <= MaxHops \/ ~depth_capped
      PROVE  c \in Range(found)
  <2>1. PICK n, e : Chain(graph, n, e) /\ c = MakePath(machine, n, e)
    BY <1>5
  <2>2. c.edges = e
    BY <2>1 DEF MakePath
  <2>3. Len(e) \in Nat /\ MaxHops \in Nat
    BY <2>1, <1>2, ChainIs, CapsAssumption
  <2>4. Holds(found, n, e)
    BY <2>1, <2>2, <2>3, <1>1, <1>8, <1>9 DEF Covered
  <2>5. PICK k \in 1..Len(found) : found[k].nodes = n /\ found[k].edges = e
    BY <2>4 DEF Holds
  <2>6. found[k] = c
    BY <2>1, <2>5, <1>3
  <2> QED BY <2>6, <1>4
<1> QED BY <1>1, <1>2, <1>6, <1>7, <1>9 DEF Within

\* What is kept of it.
LEMMA KeptIs ==
  ASSUME IInv, pc = "done"
  PROVE  /\ report = Report(Worst(found)) /\ report.paths = Worst(found)
         /\ report.truncated = (ceiling_hit \/ depth_capped \/ Len(found) > MaxPaths)
         /\ report.grade = overall_grade_for_paths(Range(found))
         /\ report.failed = FailedAt(Range(found))
         /\ Range(Worst(found)) \subseteq Range(found)
         /\ Len(found) <= MaxPaths => Range(Worst(found)) = Range(found)
         /\ IsInjective(Worst(found))
         /\ \A c \in Range(found) \ Range(Worst(found)) : \A i \in DOMAIN Worst(found) :
               RankedBefore(Worst(found)[i], c)
         /\ Len(Worst(found)) = Least(MaxPaths, Cardinality(Range(found)))
<1> DEFINE kept == Worst(found)
           L == Len(found)
<1>1. /\ IsGraph(graph) /\ FoundOK(machine, graph, found)
      /\ report = Report(kept)
      /\ \A j, k \in 1..L : found[j].nodes = found[k].nodes => j = k
  BY OverIs
<1>2. found \in Seq(Path)
  BY <1>1 DEF FoundOK
<1>3. /\ kept \in Seq(Path) /\ Len(kept) = Least(MaxPaths, L) /\ L \in Nat
      /\ Range(kept) \subseteq Range(found)
      /\ L <= MaxPaths => Range(kept) = Range(found)
      /\ \A j, k \in 1..Len(kept) : j # k => \E a, b \in 1..L :
            a # b /\ kept[j] = found[a] /\ kept[k] = found[b]
      /\ \A c \in Range(found) \ Range(kept) : \A i \in 1..Len(kept) : ~RankedBefore(c, kept[i])
  BY <1>2, WorstIs
<1>4. /\ DOMAIN kept = 1..Len(kept) /\ \A i \in 1..Len(kept) : kept[i] \in Path
      /\ DOMAIN found = 1..L /\ \A i \in 1..L : found[i] \in Path
  BY <1>2, <1>3, LenProperties, ElementOfSeq
<1> HIDE DEF kept, L
<1>5. IsInjective(kept)
  <2>1. ASSUME NEW j \in 1..Len(kept), NEW k \in 1..Len(kept), kept[j] = kept[k] PROVE j = k
    <3> SUFFICES ASSUME j # k PROVE FALSE
      OBVIOUS
    <3>1. PICK a \in 1..L, b \in 1..L : a # b /\ kept[j] = found[a] /\ kept[k] = found[b]
      BY <1>3
    <3>2. found[a].nodes = found[b].nodes
      BY <2>1, <3>1
    <3> QED BY <3>1, <3>2, <1>1
  <2> QED BY <2>1, <1>4 DEF IsInjective
<1>6. ASSUME NEW c \in Range(found) \ Range(kept), NEW i \in DOMAIN kept
      PROVE  RankedBefore(kept[i], c)
  <2>1. PICK a \in 1..L : c = found[a]
    BY <1>4 DEF Range
  <2>2. kept[i] \in Range(kept) /\ kept[i] \in Path /\ c \in Path
    BY <1>4, <2>1 DEF Range
  <2>3. PICK b \in 1..L : kept[i] = found[b]
    BY <2>2, <1>3, <1>4 DEF Range
  <2>4. c.nodes # kept[i].nodes
    <3>1. a # b
      BY <2>1, <2>2, <2>3
    <3> QED BY <2>1, <2>3, <3>1, <1>1
  <2>5. ~RankedBefore(c, kept[i])
    BY <1>3, <1>4
  <2> QED BY <2>2, <2>4, <2>5, RankOrder
<1>7. /\ \A q \in Range(found) : \E p \in Range(kept) : weight[q.severity] <= weight[p.severity]
      /\ Range(found) \in SUBSET Path /\ Range(kept) \in SUBSET Path
  <2>1. Range(found) \in SUBSET Path /\ Range(kept) \in SUBSET Path
    BY <1>4 DEF Range
  <2>2. ASSUME NEW q \in Range(found) PROVE \E p \in Range(kept) : weight[q.severity] <= weight[p.severity]
    <3>0. q \in Path /\ weight[q.severity] \in Nat
      BY <2>1, Weights DEF Path
    <3>1. CASE q \in Range(kept)
      BY <3>0, <3>1
    <3>2. CASE q \notin Range(kept)
      <4>1. PICK a \in 1..L : q = found[a]
        BY <1>4 DEF Range
      <4>2. 1 \in 1..Len(kept)
        <5>1. L > 0
          BY <1>3
        <5>2. Least(MaxPaths, L) \in Nat /\ Least(MaxPaths, L) >= 1
          BY <5>1, <1>3, CapsAssumption DEF Least
        <5> QED BY <5>2, <1>3
      <4>3. kept[1] \in Range(kept) /\ kept[1] \in Path /\ ~RankedBefore(q, kept[1])
        BY <4>2, <3>2, <1>3, <1>4 DEF Range
      <4>4. weight[kept[1].severity] \in Nat
        BY <4>3, Weights DEF Path
      <4>5. ~(weight[q.severity] > weight[kept[1].severity])
        BY <4>3 DEF RankedBefore
      <4> QED BY <3>0, <4>3, <4>4, <4>5
    <3> QED BY <3>1, <3>2
  <2> QED BY <2>1, <2>2
<1>8. /\ overall_grade_for_paths(Range(kept)) = overall_grade_for_paths(Range(found))
      /\ FailedAt(Range(kept)) = FailedAt(Range(found))
  BY <1>3, <1>7, SameGrade
<1>9. /\ report.paths = kept /\ report.truncated = (ceiling_hit \/ depth_capped \/ L > MaxPaths)
      /\ report.grade = overall_grade_for_paths(Range(kept))
      /\ report.failed = FailedAt(Range(kept))
  BY <1>1 DEF Report, L
<1>10. Cardinality(Range(found)) = L
  <2>1. found \in [1..L -> Range(found)]
    BY <1>2, <1>4 DEF Range
  <2>2. IsInjective(found)
    BY <1>1, <1>4 DEF IsInjective
  <2>3. found \in Injection(1..L, Range(found)) /\ found \in Surjection(1..L, Range(found))
    BY <2>1, <2>2, <1>4 DEF Injection, Surjection, Range
  <2>4. ExistsBijection(1..L, Range(found))
    BY <2>3 DEF ExistsBijection, Bijection
  <2>5. IsFiniteSet(1..L) /\ Cardinality(1..L) = L
    BY <1>3, FS_Interval
  <2> QED BY <2>4, <2>5, FS_Bijection
<1> QED BY <1>1, <1>3, <1>5, <1>6, <1>8, <1>9, <1>10 DEF kept, L

\* A report that does not say it is truncated has every chain of the machine, of whatever
\* length, each once, and its grade and exit codes are those of all of them.
THEOREM NothingLeftOut == Spec => []CompleteUnlessTruncated
<1>1. ASSUME IInv PROVE CompleteUnlessTruncated
  <2> SUFFICES ASSUME pc = "done", ~report.truncated
               PROVE  /\ Range(report.paths) = Chains(machine, graph)
                      /\ IsInjective(report.paths)
                      /\ report.grade = overall_grade_for_paths(Chains(machine, graph))
                      /\ report.failed = FailedAt(Chains(machine, graph))
    BY DEF CompleteUnlessTruncated
  <2>1. ~ceiling_hit /\ ~depth_capped /\ ~(Len(found) > MaxPaths)
    BY <1>1, KeptIs
  <2>2. Len(found) <= MaxPaths
    <3>1. Len(found) \in Nat
      BY <1>1, LenProperties DEF IInv, FoundOK
    <3> QED BY <2>1, <3>1, CapsAssumption
  <2>3. Range(found) = Chains(machine, graph)
    BY <1>1, <2>1, OverIs
  <2> QED BY <1>1, <2>2, <2>3, KeptIs
<1> QED BY <1>1, Invariance, PTL

\* Unless the ceiling was hit, the chains kept are the worst: each chain within the depth
\* that is left out ranks after every one kept, as many are kept as the cap lets, and the
\* grade and the exit codes are those of all the chains within the depth.
THEOREM TheWorstAreKept == Spec => []WorstSurvive
<1>1. ASSUME IInv PROVE WorstSurvive
  <2> SUFFICES ASSUME pc = "done", ~ceiling_hit
               PROVE  /\ \A c \in Within \ Range(report.paths), i \in DOMAIN report.paths :
                            RankedBefore(report.paths[i], c)
                      /\ Len(report.paths) = Least(MaxPaths, Cardinality(Within))
                      /\ report.grade = overall_grade_for_paths(Within)
                      /\ report.failed = FailedAt(Within)
    BY DEF WorstSurvive, Within
  <2>1. Range(found) = Within
    BY <1>1, OverIs
  <2> QED BY <1>1, <2>1, KeptIs
<1> QED BY <1>1, Invariance, PTL

-----------------------------------------------------------------------------
(* What the report owes to the declarations.                              *)

\* The bind hint of an exposed server is a tier beyond loopback.
LEMMA ExposedIs ==
  ASSUME NEW m \in Machines, NEW s \in Exposed(m)
  PROVE  /\ s \in Subjects(m) /\ s \in DOMAIN m.server /\ s \in Nat
         /\ entry_reach(m, <<"entry", s>>) \in {"wildcard", "public_routable", "private_lan"}
<1>1. s \in Subjects(m) /\ s \in DOMAIN m.server /\ reach_risk(m.server[s]) > 0
  BY DEF Exposed, Subjects
<1> DEFINE d == m.server[s]
           tier == {"wildcard", "public_routable", "private_lan"}
           tiers == {classify_reachability(a) : a \in bind_candidates(d)} \ {"loopback"}
<1>2. s \in Nat /\ d.args \in Seq(Token) /\ d.binds \subseteq Address
  BY <1>1, MachineAssumption
<1>3. bind_candidates(d) \subseteq Address
  <2> DEFINE a == d.args  F == TakesNext(a)
  <2>1. Len(a) \in Nat /\ \A i \in 1..Len(a) : a[i] \in Token
    BY <1>2, LenProperties, ElementOfSeq
  <2>2. \A i \in 1..Len(a) : a[i].addr \in Address
    BY <2>1 DEF Token
  <2>3. \A i \in F : i + 1 \in 1..Len(a)
    BY <2>1 DEF TakesNext
  <2>4. bind_candidates(d)
           = {a[i + 1].addr : i \in F}
             \cup {a[i].addr : i \in {j \in {i \in 1..Len(a) : i - 1 \notin F} :
                       a[j].kind = "assign" \/ a[j] = [kind |-> "word", addr |-> "any"]}}
             \cup d.binds
    BY DEF bind_candidates
  <2> HIDE DEF a, F
  <2> QED BY <1>2, <2>2, <2>3, <2>4
<1>4. tiers \subseteq tier
  <2>1. \A a \in Address : classify_reachability(a) \in tier \cup {"loopback"}
    BY DEF Address, classify_reachability
  <2> QED BY <1>3, <2>1
<1>5. bind_hint(d) = IF tiers = {} THEN "none"
                     ELSE CHOOSE t \in tiers : \A u \in tiers : ReachRank[u] <= ReachRank[t]
  BY DEF bind_hint
<1>6. bind_hint(d) # "none"
  <2>1. bind_hint(d) = "none" => reach_risk(d) = 0
    BY DEF reach_risk
  <2> QED BY <1>1, <2>1
<1> HIDE DEF tiers, d
<1>7. \E t \in tiers : \A u \in tiers : ReachRank[u] <= ReachRank[t]
  <2>1. tiers # {}
    BY <1>5, <1>6
  <2>2. /\ ReachRank["wildcard"] = 3 /\ ReachRank["public_routable"] = 2 /\ ReachRank["private_lan"] = 1
    BY DEF ReachRank
  <2>3. CASE "wildcard" \in tiers
    BY <1>4, <2>2, <2>3
  <2>4. CASE "wildcard" \notin tiers /\ "public_routable" \in tiers
    BY <1>4, <2>2, <2>4
  <2>5. CASE "wildcard" \notin tiers /\ "public_routable" \notin tiers
    <3>1. \A t \in tiers : t = "private_lan"
      BY <1>4, <2>5
    <3>2. "private_lan" \in tiers
      BY <2>1, <3>1
    <3> QED BY <2>2, <3>1, <3>2
  <2> QED BY <2>3, <2>4, <2>5
<1>8. bind_hint(d) \in tier
  BY <1>4, <1>5, <1>7
<1>9. entry_reach(m, <<"entry", s>>) = bind_hint(d)
  BY DEF entry_reach, d
<1> QED BY <1>1, <1>2, <1>8, <1>9

\* The edges of a server that holds a credential with another and of one that can act.
LEMMA EdgesHave ==
  ASSUME NEW m
  PROVE  LET E == build_graph(m).edge
         IN  /\ \A s \in Exposed(m) : [src |-> <<"entry", s>>, kind |-> "reaches", dst |-> <<"server", s>>] \in E
             /\ \A c \in Credentials(m) : \A s \in holders(m, c) :
                   /\ [src |-> <<"server", s>>, kind |-> "holds", dst |-> <<"cred", c>>] \in E
                   /\ Cardinality(holders(m, c)) >= 2 =>
                        [src |-> <<"cred", c>>, kind |-> "shared_with", dst |-> <<"server", s>>] \in E
             /\ \A s \in Subjects(m) : Dangerous(m.server[s]) =>
                   [src |-> <<"server", s>>, kind |-> "can_act", dst |-> <<"target", LocalShell>>] \in E
             /\ \A s \in Subjects(m) : \A c \in credential_fingerprints(m, s) : \A t \in cred_targets(m, c) :
                   privilege_risk(m.server[s]) > 0 =>
                     [src |-> <<"server", s>>, kind |-> "can_act", dst |-> <<"target", t>>] \in E
<1> DEFINE E == build_graph(m).edge
<1>0. E = HostEdges(m) \cup ReachEdges(m) \cup CredentialEdges(m) \cup ActionEdges(m)
  BY DEF build_graph
<1> HIDE DEF E
<1>1. \A s \in Exposed(m) : [src |-> <<"entry", s>>, kind |-> "reaches", dst |-> <<"server", s>>] \in E
  BY <1>0 DEF ReachEdges, EntryOf, ServerOf
<1>2. ASSUME NEW c \in Credentials(m), NEW s \in holders(m, c)
      PROVE  /\ [src |-> <<"server", s>>, kind |-> "holds", dst |-> <<"cred", c>>] \in E
             /\ Cardinality(holders(m, c)) >= 2 =>
                  [src |-> <<"cred", c>>, kind |-> "shared_with", dst |-> <<"server", s>>] \in E
  <2> DEFINE one == {[src |-> ServerOf(x), kind |-> "holds", dst |-> CredOf(c)] : x \in holders(m, c)}
             two == {[src |-> CredOf(c), kind |-> "shared_with", dst |-> ServerOf(x)] : x \in holders(m, c)}
  <2>1. one \subseteq CredentialEdges(m)
    BY DEF CredentialEdges
  <2>2. Cardinality(holders(m, c)) >= 2 => two \subseteq CredentialEdges(m)
    BY DEF CredentialEdges
  <2>3. [src |-> <<"server", s>>, kind |-> "holds", dst |-> <<"cred", c>>] \in one
    BY DEF ServerOf, CredOf
  <2>4. [src |-> <<"cred", c>>, kind |-> "shared_with", dst |-> <<"server", s>>] \in two
    BY DEF ServerOf, CredOf
  <2> HIDE DEF one, two
  <2> QED BY <1>0, <2>1, <2>2, <2>3, <2>4
<1>3. ASSUME NEW s \in Subjects(m), NEW t,
             \/ Dangerous(m.server[s]) /\ t = LocalShell
             \/ /\ privilege_risk(m.server[s]) > 0
                /\ \E c \in credential_fingerprints(m, s) : t \in cred_targets(m, c)
      PROVE  [src |-> <<"server", s>>, kind |-> "can_act", dst |-> <<"target", t>>] \in E
  <2> DEFINE at == (IF privilege_risk(m.server[s]) > 0
                    THEN UNION {cred_targets(m, c) : c \in credential_fingerprints(m, s)}
                    ELSE {})
                   \union (IF Dangerous(m.server[s]) THEN {LocalShell} ELSE {})
             can == {[src |-> ServerOf(s), kind |-> "can_act", dst |-> TargetOf(x)] : x \in at}
  <2>1. t \in at
    BY <1>3
  <2>2. can \subseteq ActionEdges(m)
    BY DEF ActionEdges
  <2>3. [src |-> <<"server", s>>, kind |-> "can_act", dst |-> <<"target", t>>] \in can
    <3> HIDE DEF at
    <3> QED BY <2>1 DEF ServerOf, TargetOf
  <2> HIDE DEF can
  <2> QED BY <1>0, <2>2, <2>3
<1> QED BY <1>1, <1>2, <1>3 DEF E

\* What leads to a credential is a server that holds it, what is shared leads to one.
LEMMA HoldersAre ==
  ASSUME NEW m \in Machines, NEW a \in build_graph(m).edge
  PROVE  /\ a.dst[1] = "cred" => \E c \in Credentials(m) : \E s \in holders(m, c) :
                                    a.src = <<"server", s>> /\ a.dst = <<"cred", c>>
         /\ a.kind = "shared_with" => \E c \in Credentials(m) : \E s \in holders(m, c) :
                                    a.src = <<"cred", c>> /\ a.dst = <<"server", s>>
<1>0. a \in HostEdges(m) \cup ReachEdges(m) \cup CredentialEdges(m) \cup ActionEdges(m)
  BY DEF build_graph
<1>1. CASE a \in HostEdges(m)
  <2>1. a.dst[1] = "server" /\ a.kind = "hosts"
    BY <1>1 DEF HostEdges, ServerOf
  <2> QED BY <2>1
<1>2. CASE a \in ReachEdges(m)
  <2>1. a.dst[1] = "server" /\ a.kind = "reaches"
    BY <1>2 DEF ReachEdges, ServerOf
  <2> QED BY <2>1
<1>3. CASE a \in ActionEdges(m)
  <2>1. PICK s \in Subjects(m) :
           a \in {[src |-> ServerOf(s), kind |-> "can_act", dst |-> TargetOf(t)] :
                    t \in (IF privilege_risk(m.server[s]) > 0
                           THEN UNION {cred_targets(m, c) : c \in credential_fingerprints(m, s)}
                           ELSE {})
                          \union (IF Dangerous(m.server[s]) THEN {LocalShell} ELSE {})}
    BY <1>3 DEF ActionEdges
  <2>2. a.dst[1] = "target" /\ a.kind = "can_act"
    BY <2>1 DEF TargetOf
  <2> QED BY <2>2
<1>4. CASE a \in CredentialEdges(m)
  <2>1. PICK c \in Credentials(m) :
           a \in {[src |-> ServerOf(s), kind |-> "holds", dst |-> CredOf(c)] : s \in holders(m, c)}
                 \union (IF Cardinality(holders(m, c)) >= 2
                         THEN {[src |-> CredOf(c), kind |-> "shared_with", dst |-> ServerOf(s)] : s \in holders(m, c)}
                         ELSE {})
                 \union {[src |-> CredOf(c), kind |-> "unlocks", dst |-> TargetOf(t)] : t \in cred_targets(m, c)}
    BY <1>4 DEF CredentialEdges
  <2>2. \/ \E s \in holders(m, c) : a = [src |-> <<"server", s>>, kind |-> "holds", dst |-> <<"cred", c>>]
        \/ \E s \in holders(m, c) : a = [src |-> <<"cred", c>>, kind |-> "shared_with", dst |-> <<"server", s>>]
        \/ \E t \in cred_targets(m, c) : a = [src |-> <<"cred", c>>, kind |-> "unlocks", dst |-> <<"target", t>>]
    BY <2>1 DEF ServerOf, CredOf, TargetOf
  <2>3. CASE \E s \in holders(m, c) : a = [src |-> <<"server", s>>, kind |-> "holds", dst |-> <<"cred", c>>]
    BY <2>3
  <2>4. CASE \E s \in holders(m, c) : a = [src |-> <<"cred", c>>, kind |-> "shared_with", dst |-> <<"server", s>>]
    <3>1. a.dst[1] = "server"
      BY <2>4
    <3> QED BY <2>4, <3>1
  <2>5. CASE \E t \in cred_targets(m, c) : a = [src |-> <<"cred", c>>, kind |-> "unlocks", dst |-> <<"target", t>>]
    <3>1. a.dst[1] = "target" /\ a.kind = "unlocks"
      BY <2>5
    <3> QED BY <3>1
  <2> QED BY <2>2, <2>3, <2>4, <2>5
<1> QED BY <1>0, <1>1, <1>2, <1>3, <1>4

\* A chain within the depth is found unless the ceiling was hit.
LEMMA ChainFound ==
  ASSUME IInv, pc = "done", ~ceiling_hit, NEW n, NEW e, Chain(graph, n, e), Len(e) <= MaxHops
  PROVE  MakePath(machine, n, e) \in Range(found)
<1>1. MakePath(machine, n, e) \in Chains(machine, graph)
  BY OverIs, ChainsAre
<1>2. MakePath(machine, n, e).edges = e
  BY DEF MakePath
<1> QED BY <1>1, <1>2, OverIs DEF Within

\* What a bad chain among those found does to the report.
LEMMA GradeOfWorst ==
  ASSUME IInv, pc = "done", NEW p \in Range(found)
  PROVE  /\ p.severity = "critical" => report.grade = "F" /\ report.failed = Severity \ {"info"}
         /\ p.severity \in {"critical", "high"} => report.grade \in {"D", "F"}
<1>1. /\ report.grade = overall_grade_for_paths(Range(found))
      /\ report.failed = FailedAt(Range(found))
  BY KeptIs
<1>2. Range(found) \in SUBSET Path /\ Range(found) # {}
  <2>1. found \in Seq(Path)
    BY OverIs DEF FoundOK
  <2>2. DOMAIN found = 1..Len(found) /\ \A i \in 1..Len(found) : found[i] \in Path
    BY <2>1, LenProperties, ElementOfSeq
  <2> QED BY <2>2 DEF Range
<1> DEFINE top == CHOOSE q \in Range(found) : \A r \in Range(found) : weight[r.severity] <= weight[q.severity]
<1>3. top \in Range(found) /\ \A r \in Range(found) : weight[r.severity] <= weight[top.severity]
  BY <1>2, WorstOne
<1>4. report.grade = SeverityGrade[top.severity]
  BY <1>1, <1>2 DEF overall_grade_for_paths
<1> HIDE DEF top
<1>5. weight[p.severity] <= weight[top.severity] /\ top.severity \in Severity
  BY <1>2, <1>3 DEF Path
<1>6. p.severity = "critical" => top.severity = "critical"
  BY <1>5 DEF Severity, weight
<1>7. p.severity \in {"critical", "high"} => top.severity \in {"critical", "high"}
  BY <1>5 DEF Severity, weight
<1>8. p.severity = "critical" => report.failed = Severity \ {"info"}
  <2>1. \A t \in Severity : "critical" \in blocking(t)
    BY DEF blocking, Severity, weight
  <2> QED BY <1>1, <2>1 DEF FailedAt
<1> QED BY <1>4, <1>6, <1>7, <1>8 DEF SeverityGrade

\* An exposed server that can act makes a chain of two edges.
LEMMA ShortChain ==
  ASSUME NEW g, IsGraph(g), NEW s, NEW t,
         <<"entry", s>> \in EntriesOf(g),
         [src |-> <<"entry", s>>, kind |-> "reaches", dst |-> <<"server", s>>] \in g.edge,
         [src |-> <<"server", s>>, kind |-> "can_act", dst |-> <<"target", t>>] \in g.edge
  PROVE  /\ Chain(g, <<<<"entry", s>>, <<"server", s>>, <<"target", t>>>>, <<"reaches", "can_act">>)
         /\ Len(<<"reaches", "can_act">>) = 2
<1> DEFINE n == <<<<"entry", s>>, <<"server", s>>, <<"target", t>>>>
           e == <<"reaches", "can_act">>
           a == [src |-> <<"entry", s>>, kind |-> "reaches", dst |-> <<"server", s>>]
           b == [src |-> <<"server", s>>, kind |-> "can_act", dst |-> <<"target", t>>]
<1>1. a.src \in g.node /\ a.dst \in g.node /\ b.dst \in g.node
  BY DEF IsGraph
<1>2. <<"entry", s>> \in g.node /\ <<"server", s>> \in g.node /\ <<"target", t>> \in g.node
  BY <1>1
<1>3. /\ Len(n) = 3 /\ Len(e) = 2 /\ DOMAIN n = 1..3
      /\ n[1] = <<"entry", s>> /\ n[2] = <<"server", s>> /\ n[3] = <<"target", t>>
      /\ e[1] = "reaches" /\ e[2] = "can_act"
  OBVIOUS
<1>4. n \in Seq(g.node)
  <2> DEFINE N == g.node  x == <<"entry", s>>  y == <<"server", s>>  z == <<"target", t>>
  <2>1. x \in N /\ y \in N /\ z \in N
    BY <1>2
  <2> HIDE DEF N, x, y, z
  <2>2. <<x, y, z>> \in Seq(N)
    BY <2>1
  <2> QED BY <2>2 DEF N, x, y, z
<1>5. e \in Seq(EdgeKind)
  BY DEF EdgeKind
<1>6. Actionable(e)
  <2>1. e[2] \in Range(e)
    BY DEF Range
  <2> QED BY <1>3, <2>1 DEF Actionable
<1>7. \A i, j \in 1..3 : n[i] = n[j] => i = j
  <2>1. \A i \in 1..3 : i = 1 \/ i = 2 \/ i = 3
    OBVIOUS
  <2>2. n[1][1] = "entry" /\ n[2][1] = "server" /\ n[3][1] = "target"
    BY <1>3
  <2> QED BY <2>1, <2>2
<1>8. \A i \in 1..2 : [src |-> n[i], kind |-> e[i], dst |-> n[i + 1]] \in g.edge
  <2>1. \A i \in 1..2 : i = 1 \/ i = 2
    OBVIOUS
  <2> QED BY <1>3, <2>1
<1>9. n[1] \in EntriesOf(g) /\ n[Len(n)][1] = "target"
  <2>1. n[1] = <<"entry", s>> /\ n[Len(n)] = <<"target", t>>
    BY <1>3
  <2> HIDE DEF n
  <2>2. n[Len(n)][1] = "target"
    BY <2>1
  <2> QED BY <2>1, <2>2
<1> HIDE DEF n, e
<1>10. IsInjective(n)
  BY <1>3, <1>7 DEF IsInjective
<1>11. Chain(g, n, e)
  BY <1>3, <1>4, <1>5, <1>6, <1>8, <1>9, <1>10 DEF Chain
<1> QED BY <1>3, <1>11 DEF n, e

\* Exposed server, shared credential and a server that can act make one of four.
LEMMA LongChain ==
  ASSUME NEW g, IsGraph(g), NEW s, NEW c, NEW r, NEW t, r # s,
         <<"entry", s>> \in EntriesOf(g),
         [src |-> <<"entry", s>>, kind |-> "reaches", dst |-> <<"server", s>>] \in g.edge,
         [src |-> <<"server", s>>, kind |-> "holds", dst |-> <<"cred", c>>] \in g.edge,
         [src |-> <<"cred", c>>, kind |-> "shared_with", dst |-> <<"server", r>>] \in g.edge,
         [src |-> <<"server", r>>, kind |-> "can_act", dst |-> <<"target", t>>] \in g.edge
  PROVE  LET n == <<<<"entry", s>>, <<"server", s>>, <<"cred", c>>, <<"server", r>>, <<"target", t>>>>
             e == <<"reaches", "holds", "shared_with", "can_act">>
         IN  Chain(g, n, e) /\ Len(e) = 4 /\ "shared_with" \in Range(e)
<1> DEFINE n == <<<<"entry", s>>, <<"server", s>>, <<"cred", c>>, <<"server", r>>, <<"target", t>>>>
           e == <<"reaches", "holds", "shared_with", "can_act">>
           a == [src |-> <<"entry", s>>, kind |-> "reaches", dst |-> <<"server", s>>]
           b == [src |-> <<"server", s>>, kind |-> "holds", dst |-> <<"cred", c>>]
           d == [src |-> <<"server", r>>, kind |-> "can_act", dst |-> <<"target", t>>]
<1>1. a.src \in g.node /\ b.src \in g.node /\ b.dst \in g.node /\ d.src \in g.node /\ d.dst \in g.node
  BY DEF IsGraph
<1>2. /\ <<"entry", s>> \in g.node /\ <<"server", s>> \in g.node /\ <<"cred", c>> \in g.node
      /\ <<"server", r>> \in g.node /\ <<"target", t>> \in g.node
  BY <1>1
<1>3. /\ Len(n) = 5 /\ Len(e) = 4 /\ DOMAIN n = 1..5
      /\ n[1] = <<"entry", s>> /\ n[2] = <<"server", s>> /\ n[3] = <<"cred", c>>
      /\ n[4] = <<"server", r>> /\ n[5] = <<"target", t>>
      /\ e[1] = "reaches" /\ e[2] = "holds" /\ e[3] = "shared_with" /\ e[4] = "can_act"
  OBVIOUS
<1>4. n \in Seq(g.node)
  <2> DEFINE N == g.node  v == <<"entry", s>>  w == <<"server", s>>  x == <<"cred", c>>
             y == <<"server", r>>  z == <<"target", t>>
  <2>1. v \in N /\ w \in N /\ x \in N /\ y \in N /\ z \in N
    BY <1>2
  <2> HIDE DEF N, v, w, x, y, z
  <2>2. <<v, w, x, y, z>> \in Seq(N)
    BY <2>1
  <2> QED BY <2>2 DEF N, v, w, x, y, z
<1>5. e \in Seq(EdgeKind)
  BY DEF EdgeKind
<1>6. "shared_with" \in Range(e)
  <2>1. e[3] \in Range(e)
    BY DEF Range
  <2> QED BY <1>3, <2>1
<1>7. \A i, j \in 1..5 : n[i] = n[j] => i = j
  <2>1. \A i \in 1..5 : i = 1 \/ i = 2 \/ i = 3 \/ i = 4 \/ i = 5
    OBVIOUS
  <2>2. /\ n[1][1] = "entry" /\ n[2][1] = "server" /\ n[3][1] = "cred"
        /\ n[4][1] = "server" /\ n[5][1] = "target" /\ n[2][2] = s /\ n[4][2] = r
    BY <1>3
  <2> HIDE DEF n
  <2> QED BY <2>1, <2>2
<1>8. \A i \in 1..4 : [src |-> n[i], kind |-> e[i], dst |-> n[i + 1]] \in g.edge
  <2>1. \A i \in 1..4 : i = 1 \/ i = 2 \/ i = 3 \/ i = 4
    OBVIOUS
  <2> QED BY <1>3, <2>1
<1>9. n[1] \in EntriesOf(g) /\ n[Len(n)][1] = "target" /\ Actionable(e)
  <2>1. n[1] = <<"entry", s>> /\ n[Len(n)] = <<"target", t>>
    BY <1>3
  <2> HIDE DEF n, e
  <2>2. n[Len(n)][1] = "target"
    BY <2>1
  <2> QED BY <2>1, <2>2, <1>6 DEF Actionable
<1> HIDE DEF n, e
<1>10. IsInjective(n)
  BY <1>3, <1>7 DEF IsInjective
<1>11. Chain(g, n, e)
  BY <1>3, <1>4, <1>5, <1>6, <1>8, <1>9, <1>10 DEF Chain
<1> QED BY <1>3, <1>6, <1>11 DEF n, e

\* An edge from an entry makes a node of it.
LEMMA EntryIs ==
  ASSUME NEW g, IsGraph(g), NEW s, NEW d,
         [src |-> <<"entry", s>>, kind |-> "reaches", dst |-> d] \in g.edge
  PROVE  <<"entry", s>> \in EntriesOf(g)
<1> DEFINE a == [src |-> <<"entry", s>>, kind |-> "reaches", dst |-> d]
<1>1. a.src \in g.node
  BY DEF IsGraph
<1> QED BY <1>1 DEF EntriesOf

\* An exposed server that shares a credential with a server that can act grades the report
\* F and fails it at every threshold, whatever the cap on chains kept, if the depth is
\* four edges at least and the ceiling was not hit.
THEOREM ExposedPivotFails == Spec => []ExposedPivotIsCritical
<1>1. ASSUME IInv PROVE ExposedPivotIsCritical
  <2> SUFFICES ASSUME pc = "done", MaxHops >= 4, NEW s \in Exposed(machine), NEW r \in Pivots(s), ~ceiling_hit
               PROVE  report.grade = "F" /\ report.failed = Severity \ {"info"}
    BY DEF ExposedPivotIsCritical
  <2> DEFINE m == machine
             E == build_graph(m).edge
  <2>1. m \in Machines /\ graph = build_graph(m) /\ IsGraph(graph) /\ graph.edge = E
    BY <1>1, GraphIs DEF IInv
  <2>2. s \in Subjects(m)
    BY <2>1, ExposedIs
  <2>3. r # s /\ r \in Subjects(m) /\ \E c \in credential_fingerprints(m, s) : r \in holders(m, c)
    BY DEF Pivots, peers, holders
  <2>4. PICK c \in credential_fingerprints(m, s) : r \in holders(m, c)
    BY <2>3
  <2>5. c \in Credentials(m) /\ s \in holders(m, c)
    BY <2>2, <2>4 DEF Credentials, holders
  <2>6. Cardinality(holders(m, c)) >= 2
    <3>1. IsFiniteSet(holders(m, c))
      <4>1. holders(m, c) \subseteq DOMAIN m.server /\ IsFiniteSet(DOMAIN m.server)
        BY <2>1, MachineAssumption DEF holders, Subjects
      <4> QED BY <4>1, FS_Subset
    <3>2. {s, r} \subseteq holders(m, c)
      BY <2>4, <2>5
    <3>3. Cardinality({s}) = 1 /\ IsFiniteSet({s})
      BY FS_Singleton
    <3>4. Cardinality({s} \cup {r}) = Cardinality({s}) + 1
      BY <2>3, <3>3, FS_AddElement
    <3>5. Cardinality({s} \cup {r}) <= Cardinality(holders(m, c)) /\ Cardinality(holders(m, c)) \in Nat
      <4>1. {s} \cup {r} \subseteq holders(m, c)
        BY <3>2
      <4> QED BY <3>1, <4>1, FS_Subset, FS_CardinalityType
    <3> QED BY <3>3, <3>4, <3>5
  <2>7. \E t : [src |-> <<"server", r>>, kind |-> "can_act", dst |-> <<"target", t>>] \in E
    <3>1. \/ Dangerous(m.server[r])
          \/ /\ privilege_risk(m.server[r]) > 0
             /\ \E d \in credential_fingerprints(m, r) : cred_targets(m, d) # {}
      BY DEF Pivots
    <3> QED BY <2>3, <3>1, EdgesHave
  <2>8. PICK t : [src |-> <<"server", r>>, kind |-> "can_act", dst |-> <<"target", t>>] \in E
    BY <2>7
  <2>9. /\ [src |-> <<"entry", s>>, kind |-> "reaches", dst |-> <<"server", s>>] \in E
        /\ [src |-> <<"server", s>>, kind |-> "holds", dst |-> <<"cred", c>>] \in E
        /\ [src |-> <<"cred", c>>, kind |-> "shared_with", dst |-> <<"server", r>>] \in E
    BY <2>4, <2>5, <2>6, EdgesHave
  <2> DEFINE n == <<<<"entry", s>>, <<"server", s>>, <<"cred", c>>, <<"server", r>>, <<"target", t>>>>
             e == <<"reaches", "holds", "shared_with", "can_act">>
  <2> HIDE DEF E
  <2>10. Chain(graph, n, e) /\ Len(e) = 4 /\ "shared_with" \in Range(e)
    <3>1. <<"entry", s>> \in EntriesOf(graph)
      BY <2>1, <2>9, EntryIs
    <3> QED BY <2>1, <2>3, <2>8, <2>9, <3>1, LongChain
  <2> HIDE DEF n, e
  <2>11. Len(e) <= MaxHops
    BY <2>10
  <2>12. MakePath(m, n, e) \in Range(found)
    BY <1>1, <2>10, <2>11, ChainFound
  <2>13. MakePath(m, n, e).severity = "critical"
    BY <2>10 DEF MakePath, PathSeverity
  <2> QED BY <1>1, <2>12, <2>13, GradeOfWorst
<1> QED BY <1>1, Invariance, PTL

\* `trust' and `graph' judge the same servers: what trust calls exposed and privileged, and
\* has something to act on, grades the graph D or F unless the ceiling was hit; the servers
\* on both sides of a shared credential in a chain are related by it in trust.
THEOREM TrustMatchesGraph == Spec => []TrustAndGraphAgree
<1>1. ASSUME IInv PROVE TrustAndGraphAgree
  <2> SUFFICES ASSUME pc = "done", MaxHops >= 2
               PROVE  LET trust == build_trust_report(machine)
                      IN  /\ \A s \in Subjects(machine) :
                                /\ "exposed_privileged" \in trust.related[s]
                                /\ \/ Dangerous(machine.server[s])
                                   \/ \E c \in credential_fingerprints(machine, s) : cred_targets(machine, c) # {}
                                => report.grade \in {"D", "F"} \/ ceiling_hit
                          /\ \A p \in Range(report.paths) : \A i \in DOMAIN p.edges :
                                p.edges[i] = "shared_with" =>
                                    \A n \in {p.nodes[i - 1], p.nodes[i + 1]} :
                                        "shared_credential" \in trust.related[n[2]]
    BY DEF TrustAndGraphAgree
  <2> DEFINE m == machine
             E == build_graph(m).edge
             related == build_trust_report(m).related
  <2>1. m \in Machines /\ graph = build_graph(m) /\ IsGraph(graph) /\ graph.edge = E
    BY <1>1, GraphIs DEF IInv
  <2>2. related = [s \in Subjects(m) |->
                     relationships(m.server[s])
                     \union (IF peers(m, s) # {} THEN {"shared_credential"} ELSE {})]
    BY DEF build_trust_report, apply_shared_credentials
  <2> HIDE DEF E, related
  <2>3. ASSUME NEW s \in Subjects(m), "exposed_privileged" \in related[s],
               \/ Dangerous(m.server[s])
               \/ \E c \in credential_fingerprints(m, s) : cred_targets(m, c) # {},
               ~ceiling_hit
        PROVE  report.grade \in {"D", "F"}
    <3> DEFINE d == m.server[s]
    <3>1. "exposed_privileged" \in relationships(d)
      BY <2>2, <2>3
    <3>2. {"reach", "privilege"} \subseteq active(d)
      BY <3>1 DEF relationships, Combination
    <3>3. reach_risk(d) > 0 /\ privilege_risk(d) > 0
      BY <3>2 DEF active
    <3>4. s \in Exposed(m)
      BY <3>3 DEF Exposed
    <3>5. PICK t : [src |-> <<"server", s>>, kind |-> "can_act", dst |-> <<"target", t>>] \in E
      BY <2>3, <3>3, EdgesHave DEF E
    <3>6. [src |-> <<"entry", s>>, kind |-> "reaches", dst |-> <<"server", s>>] \in E
      BY <3>4, EdgesHave DEF E
    <3> DEFINE n == <<<<"entry", s>>, <<"server", s>>, <<"target", t>>>>
               e == <<"reaches", "can_act">>
    <3>7. Chain(graph, n, e) /\ Len(e) = 2
      <4>1. <<"entry", s>> \in EntriesOf(graph)
        BY <2>1, <3>6, EntryIs
      <4> QED BY <2>1, <3>5, <3>6, <4>1, ShortChain
    <3>8. n[1] = <<"entry", s>>
      OBVIOUS
    <3> HIDE DEF n, e
    <3>9. MakePath(m, n, e) \in Range(found)
      BY <1>1, <2>3, <3>7, ChainFound
    <3>10. MakePath(m, n, e).severity \in {"critical", "high"}
      <4>1. entry_reach(m, n[1]) \in {"wildcard", "public_routable", "private_lan"}
        BY <2>1, <3>4, <3>8, ExposedIs
      <4> QED BY <4>1 DEF MakePath, PathSeverity
    <3> QED BY <1>1, <3>9, <3>10, GradeOfWorst
  <2>4. ASSUME NEW p \in Range(report.paths), NEW i \in DOMAIN p.edges, p.edges[i] = "shared_with"
        PROVE  /\ "shared_credential" \in related[p.nodes[i - 1][2]]
               /\ "shared_credential" \in related[p.nodes[i + 1][2]]
    <3> DEFINE n == p.nodes
               e == p.edges
    <3>1. Chain(graph, n, e)
      <4>1. p \in Range(found)
        BY <1>1, KeptIs
      <4>2. FoundOK(m, graph, found)
        BY <1>1, OverIs
      <4>3. found \in Seq(Path)
        BY <4>2 DEF FoundOK
      <4>4. PICK k \in 1..Len(found) : p = found[k]
        BY <4>1, <4>3, LenProperties DEF Range
      <4> QED BY <4>2, <4>4 DEF FoundOK
    <3> HIDE DEF n, e
    <3>2. /\ Len(e) \in Nat /\ Len(n) = Len(e) + 1 /\ DOMAIN e = 1..Len(e) /\ DOMAIN n = 1..Len(n)
      BY <2>1, <3>1, ChainIs
    <3>3. i \in 1..Len(e) /\ e[i] = "shared_with"
      BY <2>4, <3>2 DEF e
    <3>4. \A j \in 1..Len(e) : [src |-> n[j], kind |-> e[j], dst |-> n[j + 1]] \in E
      BY <2>1, <3>1 DEF Chain
    <3>5. PICK c \in Credentials(m) : \E x \in holders(m, c) : n[i] = <<"cred", c>> /\ n[i + 1] = <<"server", x>>
      <4> DEFINE a == [src |-> n[i], kind |-> e[i], dst |-> n[i + 1]]
      <4>1. a \in E /\ a.kind = "shared_with" /\ a.src = n[i] /\ a.dst = n[i + 1]
        BY <3>3, <3>4
      <4> HIDE DEF a
      <4>2. \E b \in Credentials(m) : \E y \in holders(m, b) : a.src = <<"cred", b>> /\ a.dst = <<"server", y>>
        BY <2>1, <4>1, HoldersAre DEF E
      <4> QED BY <4>1, <4>2
    <3> PICK x \in holders(m, c) : n[i] = <<"cred", c>> /\ n[i + 1] = <<"server", x>>
      BY <3>5
    <3>6. i - 1 \in 1..Len(e)
      <4>1. n[1][1] = "entry"
        BY <3>1 DEF Chain, EntriesOf
      <4>2. n[i][1] = "cred"
        BY <3>5
      <4>3. i # 1
        BY <4>1, <4>2
      <4> QED BY <3>2, <3>3, <4>3
    <3>7. PICK y \in holders(m, c) : n[i - 1] = <<"server", y>>
      <4> DEFINE a == [src |-> n[i - 1], kind |-> e[i - 1], dst |-> n[(i - 1) + 1]]
      <4>0. (i - 1) + 1 = i
        BY <3>2, <3>3
      <4>1. a \in E /\ a.src = n[i - 1] /\ a.dst = n[i]
        BY <3>4, <3>6, <4>0
      <4> HIDE DEF a
      <4>2. a.dst[1] = "cred"
        BY <3>5, <4>1
      <4>3. PICK b \in Credentials(m) : \E y \in holders(m, b) : a.src = <<"server", y>> /\ a.dst = <<"cred", b>>
        BY <2>1, <4>1, <4>2, HoldersAre DEF E
      <4>4. b = c
        BY <4>1, <4>3
      <4> QED BY <4>1, <4>3, <4>4
    <3>8. x # y
      <4>1. n[i - 1] # n[i + 1]
        <5>1. i - 1 \in DOMAIN n /\ i + 1 \in DOMAIN n /\ i - 1 # i + 1
          BY <3>2, <3>3, <3>6
        <5> QED BY <3>1, <5>1 DEF Chain, IsInjective
      <4> QED BY <3>5, <3>7, <4>1
    <3>9. x \in Subjects(m) /\ y \in Subjects(m) /\ x \in peers(m, y) /\ y \in peers(m, x)
      BY <3>8 DEF holders, peers
    <3>10. "shared_credential" \in related[x] /\ "shared_credential" \in related[y]
      BY <2>2, <3>9
    <3>11. n[i - 1][2] = y /\ n[i + 1][2] = x
      BY <3>5, <3>7
    <3> QED BY <3>10, <3>11 DEF n
  <2> QED BY <2>3, <2>4 DEF related
<1> QED BY <1>1, Invariance, PTL
=============================================================================
