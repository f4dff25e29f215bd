----------------------------- MODULE MCKeyUpdate -----------------------------
(***************************************************************************)
(* Instances of KeyUpdate for TLC.                                         *)
(***************************************************************************)
EXTENDS KeyUpdate
=============================================================================
