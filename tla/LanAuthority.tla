---------------------------- MODULE LanAuthority ----------------------------
(***************************************************************************)
(* What a LAN assessment promises, whatever its gates and its loop look     *)
(* like: a packet goes only to an endpoint the operator's authorization     *)
(* covers, only after the run has been let through, never more packets than *)
(* the invoker's connection ceiling, and none at all after the run is over. *)
(* LanRun is shown to implement this specification.                        *)
(***************************************************************************)
EXTENDS Naturals

VARIABLES
  permitted,  \* endpoints the authorization covers (fixed for the run)
  ceiling,    \* connection ceiling of the invoker (fixed for the run)
  decision,   \* "pending", "granted" or "over"
  contacted,  \* endpoints a packet has been sent to
  packets     \* number of connections opened

avars == <<permitted, ceiling, decision, contacted, packets>>

AInit ==
  /\ ceiling \in Nat
  /\ decision = "pending"
  /\ contacted = {}
  /\ packets = 0

\* The gates let the run through: only a run that has something permitted.
Grant ==
  /\ decision = "pending"
  /\ permitted # {}
  /\ decision' = "granted"
  /\ UNCHANGED <<permitted, ceiling, contacted, packets>>

\* One probe of one endpoint.
Contact(e) ==
  /\ decision = "granted"
  /\ e \in permitted
  /\ packets < ceiling
  /\ contacted' = contacted \cup {e}
  /\ packets' = packets + 1
  /\ UNCHANGED <<permitted, ceiling, decision>>

\* Refused, finished, halted or interrupted: all of them are final.
Close ==
  /\ decision # "over"
  /\ decision' = "over"
  /\ UNCHANGED <<permitted, ceiling, contacted, packets>>

ANext == Grant \/ Close \/ \E e \in permitted : Contact(e)

ASpec == AInit /\ [][ANext]_avars
=============================================================================
