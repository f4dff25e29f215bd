------------------------------- MODULE MCPool -------------------------------
(***************************************************************************)
(* Instances of Pool for TLC: which call asks for which key.               *)
(***************************************************************************)
EXTENDS Pool

CONSTANTS t1, t2, t3, s1, k1, k2, a, b, c

\* Two calls compete for k1, one uses k2: they share _draining and the condition.
TwoKeys == [t \in Calls |-> IF t = t3 THEN k2 ELSE k1]

\* All calls compete for one key.
OneKey == [t \in Calls |-> k1]
=============================================================================
