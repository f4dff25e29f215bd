----------------------------- MODULE InitialKeys -----------------------------
(***************************************************************************)
(* The Initial and Handshake keys of one QUIC client connection            *)
(* (CryptoStates of native/h3/files/neqo/neqo-transport/src/crypto.rs).    *)
(* There are Initial keys for every version the client offers, because     *)
(* the server may answer in another version than the first packet's; a     *)
(* Retry makes them anew.  Packet numbers go on over both.                 *)
(*                                                                         *)
(* The peer is honest: it numbers its Initial packets upwards, and changes *)
(* the version at most once.  They arrive in any order, repeatedly or not  *)
(* at all.                                                                 *)
(***************************************************************************)
EXTENDS Integers, Sequences, PacketNumbers

CONSTANTS
    Versions,       \* the versions offered; the client begins with the least
    FirstPns,       \* packet numbers init may begin with
    MaxPn,          \* bound: packet numbers used
    MaxPeer,        \* bound: Initial packets the peer sends
    None

VARIABLES
    initials,       \* CryptoStates::initials, [Versions -> keys or None]
    handshake,      \* CryptoStates::handshake, keys or None
    last,           \* [space -> the number of the last packet sent, or -1]
    peer,           \* the version of the peer's Initial packet number i - 1
    accepted,       \* the numbers of the peer's Initial packets that were accepted
    refused         \* the numbers refused that had not been accepted before

keyVars == <<initials, handshake, last, peer, accepted, refused>>

\* CryptoDxState::new, as far as numbers go; CryptoState.
Numbers(first) == [lo |-> first, hi |-> first, min |-> first]
KeyPair(first) == [tx |-> Numbers(first), rx |-> Numbers(0)]

Pns  == [lo : Nat, hi : Nat, min : Nat]
Keys == [tx : Pns, rx : Pns]

ASSUME KeysAssumption ==
    /\ Versions \subseteq Nat \ {0} /\ 1 \in Versions
    /\ FirstPns \subseteq Nat /\ MaxPn \in Nat /\ MaxPeer \in Nat
    /\ None \notin Keys

KeysTypeOK ==
    /\ initials \in [Versions -> Keys \cup {None}] /\ handshake \in Keys \cup {None}
    /\ last \in [{"Initial", "Handshake"} -> Int] /\ peer \in Seq(Versions)
    /\ accepted \subseteq Nat /\ refused \subseteq Nat

KeysInit ==
    /\ initials = [v \in Versions |-> None] /\ handshake = None
    /\ last = [s \in {"Initial", "Handshake"} |-> -1]
    /\ peer = <<>> /\ accepted = {} /\ refused = {}

InitialsIsEmpty == \A v \in Versions : initials[v] = None

\* Mutant: after a Retry numbers begin again.
InitKeys_Fresh(first) == initials' = [v \in Versions |-> KeyPair(first)]

\* init: keys for every version; those there are, are continued.
InitKeys(first) ==
    initials' = [v \in Versions |->
        IF initials[v] = None THEN KeyPair(first)
        ELSE [tx |-> Continuation(Numbers(first), initials[v].tx),
              rx |-> Continuation(Numbers(0), initials[v].rx)]]

\* select_tx_mut(version, Initial), encrypt.
EncryptInitial(v) ==
    /\ initials[v] # None /\ initials[v].tx.hi < MaxPn
    /\ last' = [last EXCEPT !["Initial"] = initials[v].tx.hi]
    /\ initials' = [initials EXCEPT ![v].tx = UsedPn(@, @.hi)]
    /\ UNCHANGED <<handshake, peer, accepted, refused>>

\* select_tx_mut(version, Handshake), encrypt.
EncryptHandshake ==
    /\ handshake # None /\ handshake.tx.hi < MaxPn
    /\ last' = [last EXCEPT !["Handshake"] = handshake.tx.hi]
    /\ handshake' = [handshake EXCEPT !.tx = UsedPn(@, @.hi)]
    /\ UNCHANGED <<initials, peer, accepted, refused>>

\* The peer sends an Initial packet, in a version it does not leave again.
PeerSends(v) ==
    /\ Len(peer) < MaxPeer
    /\ \A i \in DOMAIN peer : peer[i] <= v
    /\ peer' = Append(peer, v)
    /\ UNCHANGED <<initials, handshake, last, accepted, refused>>

\* maybe_continue_initial_rx: keys not used yet go on where another version is.
SeenIn == {w \in Versions : initials[w] # None /\ initials[w].rx.hi > 0}
ContinueInitialRx(v) ==
    IF initials[v].rx.hi # 0 \/ SeenIn = {} THEN initials[v].rx
    ELSE LET other == CHOOSE w \in SeenIn : \A u \in SeenIn : w <= u
         IN  Continuation(initials[v].rx, initials[other].rx)

\* rx_hp, then decrypt of the peer's packet number pn: accepted, or refused as too old.
DecryptInitial(pn) ==
    LET v == peer[pn + 1]
        r == ContinueInitialRx(v)
    IN  /\ initials[v] # None
        /\ IF pn >= r.min
             THEN /\ initials' = [initials EXCEPT ![v].rx = UsedPn(r, pn)]
                  /\ accepted' = accepted \cup {pn} /\ UNCHANGED refused
             ELSE /\ initials' = [initials EXCEPT ![v].rx = r]
                  /\ refused' = refused \cup ({pn} \ accepted) /\ UNCHANGED accepted
        /\ UNCHANGED <<handshake, last, peer>>

\* confirm_version: the confirmed version goes on after the original one, whose keys are
\* taken out and not put back when that fails.
ConfirmVersion(orig, confirmed, res) ==
    /\ LET prev == initials[orig]
           next == initials[confirmed]
           rx   == Continuation(next.rx, prev.rx)
       IN  IF orig = confirmed \/ prev = None
             THEN res = "ok" /\ UNCHANGED initials
           ELSE IF next = None
             THEN res = "version" /\ initials' = [initials EXCEPT ![orig] = None]
           ELSE IF Overlaps(next.rx, prev.rx)
             THEN res = "overlap"
                  /\ initials' = [initials EXCEPT ![orig] = None, ![confirmed].rx = rx]
           ELSE /\ res = IF Overlaps(next.tx, prev.tx) THEN "overlap" ELSE "ok"
                /\ initials' = [initials EXCEPT ![orig] = IF res = "ok" THEN @ ELSE None,
                     ![confirmed] = [tx |-> Continuation(next.tx, prev.tx), rx |-> rx]]
    /\ UNCHANGED <<handshake, last, peer, accepted, refused>>

\* discard, for either space.  Initial packets on their way cannot be opened any more.
DiscardInitial ==
    /\ ~InitialsIsEmpty
    /\ initials' = [v \in Versions |-> None]
    /\ peer' = <<>> /\ accepted' = {}
    /\ UNCHANGED <<handshake, last, refused>>

DiscardHandshake ==
    /\ handshake # None
    /\ handshake' = None
    /\ UNCHANGED <<initials, last, peer, accepted, refused>>

\* rx_pending(Handshake): should a packet be kept for keys that are to come?
RxPendingHandshake == handshake = None /\ ~InitialsIsEmpty
=============================================================================
