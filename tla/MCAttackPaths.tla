--------------------------- MODULE MCAttackPaths ---------------------------
(***************************************************************************)
(* Machines of three servers over two credentials and four variables, in   *)
(* three families: every way to expose, arm and share between the servers; *)
(* names and grants of every kind at one holder; and entries that are      *)
(* listeners or come from a config that cannot be read.  The caps are      *)
(* small enough for each of them to bite and large enough not to.          *)
(***************************************************************************)
EXTENDS AttackPaths

\* GITHUB_API_KEY has words of two groups, the first of which counts.
MCWords == [GITHUB_TOKEN |-> {"GITHUB"}, GITHUB_API_KEY |-> {"GITHUB", "API_KEY"},
            API_KEY |-> {"API_KEY"}, SECRET |-> {}]
MCCatalog == <<[needles |-> {"GITHUB"}, target |-> 1], [needles |-> {"API_KEY"}, target |-> 2]>>
MCLocalShell == 3

Decl(env, binds, approve) ==
    [config |-> 1, env |-> env, args |-> <<>>, binds |-> binds, approve |-> approve, floating |-> FALSE]

Bare(server) == [server |-> server, unread |-> {}, socket |-> <<>>]

Envs == {<<>>, [GITHUB_TOKEN |-> 1], [SECRET |-> 2], [GITHUB_TOKEN |-> 1, SECRET |-> 2]}
Armed == {Decl(e, b, a) : e \in Envs, b \in {{}, {"private"}, {"any"}}, a \in {{}, {"dangerous"}}}
Chained == {Bare(<<a, b, c>>) : a \in Armed, b \in Armed, c \in {d \in Armed : d.binds # {"any"}}}

\* One holder that is exposed, another that is privileged in every way.
Grants == {{}, {"plain"}, {"wildcard"}, {"dangerous wildcard"}, {"dangerous", "wildcard"}}
Names == {[GITHUB_API_KEY |-> 1], [API_KEY |-> 1, GITHUB_TOKEN |-> 1], [SECRET |-> 1], [API_KEY |-> 2]}
Hints == {<<>>,
          <<[kind |-> "flag", addr |-> "unparseable"], [kind |-> "word", addr |-> "any"]>>,
          <<[kind |-> "flag", addr |-> "unparseable"], [kind |-> "flag", addr |-> "unparseable"],
            [kind |-> "word", addr |-> "private"]>>,
          <<[kind |-> "word", addr |-> "any"]>>,
          <<[kind |-> "assign", addr |-> "link_local"], [kind |-> "flag", addr |-> "unparseable"]>>}
Named == {Bare(<<[Decl(e, b, {}) EXCEPT !.args = h], Decl(n, {}, g)>>) :
             e \in {[SECRET |-> 1], [GITHUB_TOKEN |-> 1]}, b \in {{}, {"loopback", "empty"}},
             h \in Hints, n \in Names, g \in Grants}

Socket(location, addr, pid, proc) ==
    [location |-> location, addr |-> addr, port |-> 1, pid |-> pid, proc |-> proc,
     answers |-> "none", hint |-> FALSE]

Listening ==
    {[server |-> <<[d EXCEPT !.config = 2], Decl([GITHUB_TOKEN |-> 1], b, {"dangerous"})>>,
      unread |-> u, socket |-> <<Socket(9, a, 1, TRUE), Socket(8, "global", p, TRUE), Socket(7, "any", 3, FALSE)>>] :
        d \in {x \in Armed : x.approve = {}}, b \in {{}, {"global"}}, u \in {{}, {2}},
        a \in {"loopback", "private", "unspecified"}, p \in {1, 2}}

MCMachines == Chained \union Named \union Listening
=============================================================================
