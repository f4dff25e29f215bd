----------------------------- MODULE ByteChannel -----------------------------
(***************************************************************************)
(* What the CRYPTO streams of a QUIC connection promise to TLS: in each    *)
(* packet number space the bytes one side writes are read by the other in  *)
(* order, each once, none invented, whatever the network does to packets.  *)
(***************************************************************************)
EXTENDS Naturals, Sequences

CONSTANT Spaces

VARIABLES
    sent,       \* [Spaces -> the bytes TLS wrote, in order]
    got         \* [Spaces -> the bytes the peer's TLS read, in order]

Init ==
    /\ sent = [s \in Spaces |-> <<>>]
    /\ got = [s \in Spaces |-> <<>>]

Longer(a, b) == Len(a) < Len(b) /\ a = SubSeq(b, 1, Len(a))

Write(s) ==
    /\ sent' = [sent EXCEPT ![s] = sent'[s]] /\ Longer(sent[s], sent'[s])
    /\ UNCHANGED got

Read(s) ==
    /\ got' = [got EXCEPT ![s] = got'[s]] /\ Longer(got[s], got'[s])
    /\ Len(got'[s]) <= Len(sent[s]) /\ got'[s] = SubSeq(sent[s], 1, Len(got'[s]))
    /\ UNCHANGED sent

Next == \E s \in Spaces : Write(s) \/ Read(s)

Spec == Init /\ [][Next]_<<sent, got>>
=============================================================================
