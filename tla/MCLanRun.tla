------------------------------ MODULE MCLanRun ------------------------------
(* A small network for LanRun: one exact private host, a private range that  *)
(* overlaps it, an exact public host, an unusable string, and a private     *)
(* range too large to list.                                                 *)
EXTENDS LanRun

CONSTANTS h1, h2, h3, p1, p2

MCHost == {h1, h2, h3}
MCPort == {p1, p2}
MCTarget == {"exact", "range", "public", "bad", "huge"}
MCExpansion == [exact |-> {h1}, range |-> {h1, h2}, public |-> {h3}, bad |-> {h1},
                huge |-> {h2}]
MCPolicy == {{}, {"public"}}
MCInvalid == {"bad"}
MCSingle == {"exact", "public"}
MCPrivate == {"exact", "range", "huge"}
MCEndless == {"huge"}

M(targets, ps, expires) ==
  [valid |-> TRUE, expires_at |-> expires, targets |-> targets, ports |-> ps]

\* Expired exactly at `now`; expiring during the run; one host; a range; a plan over
\* the host budget, one over the connection budget, one over the port budget; a port
\* listed twice; an unusable target; a range without end, alone and beside a public host
\* that may be refused before it; a file that does not parse.
MCManifest ==
  { M({"exact"}, <<p1>>, 0), M({"exact"}, <<p1, p2>>, 2), M({"range"}, <<p1>>, 20),
    M({"exact", "range"}, <<p1, p2>>, 20), M({"exact", "public"}, <<p2>>, 20),
    M({"range", "public"}, <<p1>>, 20), M({"exact", "public"}, <<p1, p2>>, 20),
    M({"exact"}, <<p1, p2, p1>>, 20), M({"exact"}, <<p1, p1>>, 20),
    M({"exact", "bad"}, <<p1>>, 20), M({"huge"}, <<p1>>, 20),
    M({"huge", "public"}, <<p1>>, 20),
    [valid |-> FALSE, expires_at |-> 20, targets |-> {}, ports |-> <<>>] }

\* max_total_connections lies below hosts times ports, as in the compiled ceilings,
\* and the agent's hosts and connections below the human's; its longer runtime lets a
\* run end both before and after its deadline.
MCBudget ==
  [human |-> [max_hosts |-> 3, max_ports_per_host |-> 2, max_total_connections |-> 4,
              max_runtime_s |-> 3, per_target_cooldown_s |-> 1],
   agent |-> [max_hosts |-> 2, max_ports_per_host |-> 2, max_total_connections |-> 3,
              max_runtime_s |-> 4, per_target_cooldown_s |-> 1]]
=============================================================================
