------------------------------ MODULE MCDrift ------------------------------
(* A machine of two live servers with a tool each, one declared server and one     *)
(* listener, set up with everything in place. d1 and d2 differ in their hints only; *)
(* turned is go with its arguments in another order.                              *)
EXTENDS Drift

CONSTANTS s1, s2, t1, d1, d2, d3, c1, go, turned, other, r1, high, l1

MCSeal == [d \in {d1, d2, d3} |-> IF d = d3 THEN "b" ELSE "a"]
MCIdentity == [l \in {go, turned, other} |-> IF l = other THEN "y" ELSE "x"]
MCInitialWorld ==
  [tools |-> [s \in Live |-> [t \in {t1} |-> d1]],
   decls |-> [c \in {c1} |-> [launch |-> go, flaws |-> [r \in {r1} |-> <<high>>]]],
   listening |-> {}]
MCLock == {[server |-> s1, tool |-> t1, seal |-> "a"]}
=============================================================================
