----------------------------- MODULE MCFixApply -----------------------------
(* Small instances of FixApply: two lists the fixer looks at and one it does   *)
(* not, one dangerous, one wildcard and one safe entry, and three permission   *)
(* modes of which the umask narrows one.                                       *)
EXTENDS FixApply

CONSTANTS f1, f2, q1, q2, q3, none, bad, torn

MCPath == <<q1, q2>>
MCOnePath == <<q1>>
MCList == {"allow", "autoApprove", "servers"}
MCReached == {"allow", "autoApprove"}
MCEntry == {"danger", "wildcard", "safe"}
MCUnsafe == {"danger", "wildcard"}

D(allow, auto) == [allow |-> allow, autoApprove |-> auto, servers |-> <<"danger">>]

\* Unsafe grants in all lists, in two, and only where the fixer does not look.
MCDocument == { D(<<"danger", "safe">>, <<"wildcard">>), D(<<"safe">>, <<"wildcard">>),
                D(<<"safe">>, <<>>) }

MCMode == {"0600", "0644", "0664"}
MCMasked == [m \in MCMode |-> IF m = "0664" THEN "0644" ELSE m]
MCOneMode == {"0600"}
MCOneMasked == [m \in MCOneMode |-> m]
=============================================================================
