----------------------------- MODULE MCRequest -----------------------------
(***************************************************************************)
(* Instances of Request for TLC: calls and hosts are model values.         *)
(***************************************************************************)
EXTENDS Request, TLC

CONSTANTS r1, r2, h1

\* The calls are alike: both may be cancelled.
CallSymmetry == Permutations(Calls)
=============================================================================
