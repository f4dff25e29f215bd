------------------------------ MODULE MCCrypto ------------------------------
(***************************************************************************)
(* Instances of Crypto for TLC.                                            *)
(***************************************************************************)
EXTENDS Crypto
=============================================================================
