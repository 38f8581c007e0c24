---------------------------- MODULE BrokerPosture ----------------------------
(***************************************************************************)
(* The broker posture check (checks/broker.py, engine._audit_broker) as    *)
(* pure operators.  A manifest that parses is a record of the subjects it  *)
(* fronts, three posture enums (TRUE for the good value) and its evidence: *)
(* a set of at most one [tip, hash, chained].  A chain is the sequence of  *)
(* its lines: a record [id, hash], a line cut short or no JSON object.     *)
(***************************************************************************)
EXTENDS StaticChecks

Torn == [id |-> -1, hash |-> 0]
NoObject == [id |-> -2, hash |-> 0]

\* The ways a server is launched; only a path counts as the broker's wrapper.
Launch == {"wrapper path", "runner of wrapper path", "wrapper name", "runner of wrapper name", "other"}

routes_through_broker(decl) == decl.launch \in {"wrapper path", "runner of wrapper path"}

is_privileged(decl) == decl.approve \cap {"dangerous", "wildcard"} # {}

claims_governance(m) == m.fronts # {} \/ m.least_privilege \/ m.signed \/ m.audited

\* Only the id of the tip is compared.
verify_chain_tip_id(chain, evidence) ==
    IF chain = <<>> THEN "empty_chain"
    ELSE IF chain[Len(chain)].id # evidence.tip THEN "tip_id_mismatch" ELSE "none"

\* The reason the chain does not bear the evidence out, "none" when it does.
verify_chain_tip(chain, evidence) ==
    IF chain = <<>> THEN "empty_chain"
    ELSE LET tip == chain[Len(chain)]
         IN  CASE tip = Torn -> "tip_unparseable"
               [] tip = NoObject -> "tip_not_object"
               [] tip \notin {Torn, NoObject} /\ tip.id # evidence.tip -> "tip_id_mismatch"
               [] tip \notin {Torn, NoObject} /\ tip.id = evidence.tip /\ tip.hash # evidence.hash
                    -> "tip_hash_mismatch"
               [] OTHER -> "none"

\* The evidence a chain is read for: without a path, none is.
Checkable(m) == {e \in m.evidence : e.chained}

Privileged(subjects) == {s \in subjects : is_privileged(s.decl)}

\* The privileged servers neither fronted nor wrapped; a manifest that cannot be
\* used fronts nothing.
Unbrokered(subjects, fronts) ==
    {s \in Privileged(subjects) : s.id \notin fronts /\ ~routes_through_broker(s.decl)}

Absences(subjects, fronts) ==
    {Finding("BROKER_ABSENT", s.id) : s \in Unbrokered(subjects, fronts)}

check_broker_posture(subjects, m, reason) ==
    Absences(subjects, m.fronts)
    \union When(claims_governance(m) /\ m.evidence = {}, "BROKER_EVIDENCE_MISSING", <<"broker">>)
    \union When(reason # "none", "BROKER_EVIDENCE_MISMATCH", <<"broker">>)
    \union When(~m.signed /\ \E s \in Privileged(subjects) : s.id \in m.fronts,
                "BROKER_MANIFEST_UNVERIFIED", <<"broker">>)
    \union When(~m.audited, "BROKER_NO_AUDIT", <<"broker">>)
    \union When(~m.least_privilege, "BROKER_ALLOWLIST_PERMISSIVE", <<"broker">>)

\* The broker:// server, when there is something to say.
audit_broker(subjects, m, reason) ==
    Surfaced(<<"broker">>, reason # "none", check_broker_posture(subjects, m, reason))

\* No manifest, and one that is there but cannot be used.
NoBroker(subjects) == Surfaced(<<"broker">>, FALSE, Absences(subjects, {}))
ParseError(subjects) ==
    {Server(<<"broker">>, TRUE, Absences(subjects, {}) \union {Finding("BROKER_PARSE_ERROR", <<"broker">>)})}
=============================================================================
