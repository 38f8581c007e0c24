----------------------------- MODULE TrustGraph -----------------------------
(***************************************************************************)
(* What `mcpscan trust` and `mcpscan graph` make of the declared servers   *)
(* of a machine, as pure operators: the factors of one server and their    *)
(* score, the dangerous combinations, the join of servers that hold one    *)
(* credential, and the attack graph over entries, servers, credentials and *)
(* targets.  The search for chains in that graph is module AttackPaths.    *)
(*                                                                         *)
(* A machine is a record: `server' gives every subject (a config path and  *)
(* a name, numbered in the order of their ids) its declaration, `unread'   *)
(* is the config files that cannot be read, `socket' the listeners as the  *)
(* enumeration lists them.  A declaration is                               *)
(*   config   the file that declares it                                    *)
(*   env      the credential each secret-bearing variable holds            *)
(*   args     the argument tokens, see Token                               *)
(*   binds    the values of HOST, BIND and the like in its environment     *)
(*   approve  its autoApprove entries, told by what the checks see in them *)
(*   floating whether it runs an unpinned package                          *)
(* A credential stands for the (sha256_8, length) of its fingerprint.      *)
(***************************************************************************)
EXTENDS Scoring, Sequences, Functions

CONSTANTS
    Words,      \* the catalog words each environment variable's name contains
    Catalog,    \* sequence of [needles, target]: what a variable's name unlocks
    LocalShell  \* number of the target local_shell

-----------------------------------------------------------------------------
(* How far an address is reachable.                                        *)

Address == {"localhost", "loopback", "any", "empty", "unspecified",
            "private", "link_local", "global", "unparseable"}

\* "any" is 0.0.0.0 or ::, "unspecified" another spelling of the same address.
classify_reachability(addr) ==
    CASE addr \in {"localhost", "loopback"} -> "loopback"
      [] addr \in {"any", "empty", "unspecified"} -> "wildcard"
      [] addr \in {"private", "link_local"} -> "private_lan"
      [] addr \in {"global", "unparseable"} -> "public_routable"

ReachRank == [loopback |-> 0, private_lan |-> 1, public_routable |-> 2, wildcard |-> 3]

\* An argument: a bind flag on its own, a bind flag or key with its value, or a
\* word.  `addr' is the value it carries or, for a flag or a word, what it is as
\* an address itself (a flag is unparseable).
Token == [kind : {"flag", "assign", "word"}, addr : Address]

\* The flags that take the next argument as their value; one that was itself
\* taken as a value does not.
TakesNext(args) ==
    LET takes[i \in 1..Len(args)] ==
            /\ args[i].kind = "flag"
            /\ i < Len(args)
            /\ i > 1 => ~takes[i - 1]
    IN  {i \in 1..(Len(args) - 1) : takes[i]}

bind_candidates(decl) ==
    LET args  == decl.args
        flags == TakesNext(args)
        seen  == {i \in 1..Len(args) : i - 1 \notin flags}
    IN  {args[i + 1].addr : i \in flags}
        \union {args[i].addr : i \in {j \in seen : \/ args[j].kind = "assign"
                                                   \/ args[j] = [kind |-> "word", addr |-> "any"]}}
        \union decl.binds

\* The most exposed tier hinted, "none" when there is no hint or only loopback.
bind_hint(decl) ==
    LET tiers == {classify_reachability(a) : a \in bind_candidates(decl)} \ {"loopback"}
    IN  IF tiers = {} THEN "none"
        ELSE CHOOSE t \in tiers : \A u \in tiers : ReachRank[u] <= ReachRank[t]

-----------------------------------------------------------------------------
(* One server's factors, score and combinations.                           *)

Least(a, b) == IF a <= b THEN a ELSE b

\* An entry may be dangerous and a wildcard at once; both count.
Approval == {"dangerous", "wildcard", "dangerous wildcard", "plain"}
Dangerous(decl) == decl.approve \cap {"dangerous", "dangerous wildcard"} # {}
Wildcard(decl) == decl.approve \cap {"wildcard", "dangerous wildcard"} # {}

secret_risk(decl) ==
    LET n == Cardinality(DOMAIN decl.env)
    IN  IF n = 0 THEN 0 ELSE Least(25 + (n - 1) * 5, 40)

privilege_risk(decl) ==
    Least((IF Dangerous(decl) THEN 25 ELSE 0) + (IF Wildcard(decl) THEN 20 ELSE 0), 40)

autonomy_risk(decl) == IF decl.approve = {} THEN 0 ELSE 15

provenance_risk(decl) == IF decl.floating THEN 10 ELSE 0

reach_risk(decl) ==
    CASE bind_hint(decl) = "none" -> 0
      [] bind_hint(decl) = "private_lan" -> 10
      [] OTHER -> 20

trust_score(decl) ==
    Floored(100 - (secret_risk(decl) + privilege_risk(decl) + autonomy_risk(decl)
                   + provenance_risk(decl) + reach_risk(decl)))

trust_grade(decl) == grade_for_score(trust_score(decl))

\* The factors present, and the combinations of them that have a name.
active(decl) ==
       (IF secret_risk(decl) > 0 THEN {"secret"} ELSE {})
    \union (IF privilege_risk(decl) > 0 THEN {"privilege"} ELSE {})
    \union (IF autonomy_risk(decl) > 0 THEN {"autonomy"} ELSE {})
    \union (IF provenance_risk(decl) > 0 THEN {"provenance"} ELSE {})
    \union (IF reach_risk(decl) > 0 THEN {"reach"} ELSE {})

Combination ==
    [autonomous_exfil_path    |-> {"autonomy", "privilege", "secret"},
     privileged_secret_holder |-> {"secret", "privilege"},
     autonomous_privileged    |-> {"autonomy", "privilege"},
     autonomous_secret_holder |-> {"autonomy", "secret"},
     unvetted_privileged      |-> {"provenance", "privilege"},
     exposed_privileged       |-> {"reach", "privilege"}]

relationships(decl) == {r \in DOMAIN Combination : Combination[r] \subseteq active(decl)}

-----------------------------------------------------------------------------
(* The report of trust: the join by credential adds a relationship only.   *)

\* A config that cannot be read is passed over, without a word.
Subjects(machine) ==
    {s \in DOMAIN machine.server : machine.server[s].config \notin machine.unread}

credential_fingerprints(machine, s) == Range(machine.server[s].env)

Credentials(machine) == UNION {credential_fingerprints(machine, s) : s \in Subjects(machine)}

holders(machine, cred) == {s \in Subjects(machine) : cred \in credential_fingerprints(machine, s)}

peersByName(machine, s) ==
    {t \in Subjects(machine) :
        \E k \in DOMAIN machine.server[s].env \cap DOMAIN machine.server[t].env :
            machine.server[s].env[k] = machine.server[t].env[k]} \ {s}

peers(machine, s) ==
    (UNION {holders(machine, c) : c \in credential_fingerprints(machine, s)}) \ {s}

apply_shared_credentials(machine) ==
    [s \in Subjects(machine) |->
        relationships(machine.server[s])
        \union (IF peers(machine, s) # {} THEN {"shared_credential"} ELSE {})]

build_trust_report(machine) ==
    [score   |-> [s \in Subjects(machine) |-> trust_score(machine.server[s])],
     related |-> apply_shared_credentials(machine),
     overall |-> worst_grade({trust_grade(machine.server[s]) : s \in Subjects(machine)})]

\* Exit code of `trust --min-grade floor'.
trust_exit(machine, floor) ==
    IF \E s \in Subjects(machine) : GradeRank[trust_grade(machine.server[s])] > GradeRank[floor]
    THEN 1 ELSE 0

-----------------------------------------------------------------------------
(* The graph.  A node is its kind and a number within it.                  *)

EntryOf(s) == <<"entry", s>>
ServerOf(s) == <<"server", s>>
CredOf(c) == <<"cred", c>>
TargetOf(t) == <<"target", t>>

Exposed(machine) == {s \in Subjects(machine) : reach_risk(machine.server[s]) > 0}

\* The first group of the catalog with a word in the variable's name.
infer_target(key) ==
    LET groups == {i \in DOMAIN Catalog : Catalog[i].needles \cap Words[key] # {}}
    IN  IF groups = {} THEN {} ELSE {Catalog[Min(groups)].target}

\* All the names a credential goes by, at any of its holders, tell its targets.
cred_targets(machine, cred) ==
    UNION {UNION {infer_target(k) : k \in {k \in DOMAIN machine.server[s].env :
                                            machine.server[s].env[k] = cred}} :
           s \in Subjects(machine)}

-----------------------------------------------------------------------------
(* The inventory's listeners.  One is known by its process, by an endpoint *)
(* that answers when it may be asked, or by its port, in this order.       *)

probeable(addr) == addr \in {"any", "empty", "localhost", "loopback"}

\* How sure the inventory is of a listener, "none" when it leaves it out.
classify_socket(l, probing) ==
    IF l.proc THEN "high"
    ELSE IF probing /\ probeable(l.addr) /\ l.answers # "none" THEN l.answers
    ELSE IF l.hint THEN "low" ELSE "none"

\* collect_inventory: of the listeners with one port and pid the first is kept.
SocketAssets(machine, probing) ==
    {machine.socket[i] : i \in {i \in DOMAIN machine.socket :
        /\ \A j \in 1..(i - 1) : <<machine.socket[j].port, machine.socket[j].pid>>
                                  # <<machine.socket[i].port, machine.socket[i].pid>>
        /\ classify_socket(machine.socket[i], probing) # "none"}}

\* The graph asks no endpoint.
Listeners(machine) == SocketAssets(machine, FALSE)

-----------------------------------------------------------------------------
(* The graph's edges.                                                      *)

\* A listener adds an entry and no edge from it.
SocketEntries(machine) ==
    {<<"entry", l.location>> :
        l \in {x \in Listeners(machine) : classify_reachability(x.addr) # "loopback"}}

HostEdges(machine) ==
    {[src |-> <<"host", machine.server[s].config>>, kind |-> "hosts", dst |-> ServerOf(s)] :
        s \in Subjects(machine)}

ReachEdges(machine) ==
    {[src |-> EntryOf(s), kind |-> "reaches", dst |-> ServerOf(s)] : s \in Exposed(machine)}

CredentialEdgesOfThree(machine) ==
    UNION {{[src |-> ServerOf(s), kind |-> "holds", dst |-> CredOf(c)] :
               s \in holders(machine, c)}
           \union (IF Cardinality(holders(machine, c)) > 2
                   THEN {[src |-> CredOf(c), kind |-> "shared_with", dst |-> ServerOf(s)] :
                            s \in holders(machine, c)}
                   ELSE {})
           \union {[src |-> CredOf(c), kind |-> "unlocks", dst |-> TargetOf(t)] :
                      t \in cred_targets(machine, c)} :
           c \in Credentials(machine)}

\* A server holds its credentials; one with two holders leads back to each.
CredentialEdges(machine) ==
    UNION {{[src |-> ServerOf(s), kind |-> "holds", dst |-> CredOf(c)] :
               s \in holders(machine, c)}
           \union (IF Cardinality(holders(machine, c)) >= 2
                   THEN {[src |-> CredOf(c), kind |-> "shared_with", dst |-> ServerOf(s)] :
                            s \in holders(machine, c)}
                   ELSE {})
           \union {[src |-> CredOf(c), kind |-> "unlocks", dst |-> TargetOf(t)] :
                      t \in cred_targets(machine, c)} :
           c \in Credentials(machine)}

\* A privileged server acts on what its credentials unlock, one with a dangerous
\* tool on the machine itself.
ActionEdges(machine) ==
    UNION {{[src |-> ServerOf(s), kind |-> "can_act", dst |-> TargetOf(t)] :
               t \in (IF privilege_risk(machine.server[s]) > 0
                      THEN UNION {cred_targets(machine, c) :
                                     c \in credential_fingerprints(machine, s)}
                      ELSE {})
                     \union (IF Dangerous(machine.server[s]) THEN {LocalShell} ELSE {})} :
           s \in Subjects(machine)}

build_graph(machine) ==
    LET edges == HostEdges(machine) \union ReachEdges(machine)
                 \union CredentialEdges(machine) \union ActionEdges(machine)
    IN  [node |-> (UNION {{e.src, e.dst} : e \in edges}) \union SocketEntries(machine),
         edge |-> edges]

\* The reach a chain's entry is annotated with; a server's entry is there first.
entry_reach(machine, entry) ==
    IF entry[2] \in Exposed(machine) THEN bind_hint(machine.server[entry[2]])
    ELSE classify_reachability((CHOOSE l \in Listeners(machine) : l.location = entry[2]).addr)
=============================================================================
