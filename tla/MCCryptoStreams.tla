--------------------------- MODULE MCCryptoStreams ---------------------------
(***************************************************************************)
(* Instances of CryptoStreams for TLC.                                     *)
(***************************************************************************)
EXTENDS CryptoStreams, TLC

\* A ClientHello of six bytes, a Handshake flight of one, no tickets.
Lengths == (Initial :> 6) @@ (Handshake :> 1) @@ (ApplicationData :> 0)
Flights == (Initial :> {6}) @@ (Handshake :> {1}) @@ (ApplicationData :> {})
=============================================================================
