------------------------------ MODULE MCH2Conn ------------------------------
(***************************************************************************)
(* Instances of H2Conn for TLC: the calls, the reader and the closer are   *)
(* model values; the .cfg files choose how many and what the peer may do.  *)
(***************************************************************************)
EXTENDS H2Conn

CONSTANTS r1, r2, c1
=============================================================================
