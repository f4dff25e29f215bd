------------------------------ MODULE KeyUpdate ------------------------------
(***************************************************************************)
(* The 0-RTT and 1-RTT keys of one QUIC client connection (CryptoDxState   *)
(* and CryptoStates of native/h3/files/neqo/neqo-transport/src/crypto.rs): *)
(* installing, packet-number continuation, invocation limits, and key      *)
(* updates started by either side.                                         *)
(*                                                                         *)
(* A packet is its true key epoch and its number; only the low bit of the  *)
(* epoch (the key phase) is visible before decryption, and the AEAD opens  *)
(* a packet exactly when the chosen key has the packet's epoch.  The peer  *)
(* may send any epoch and number at any time, so packets are reordered,    *)
(* lost, duplicated or wrongly numbered.                                   *)
(*                                                                         *)
(* The build is the released one (build_h3.py:85, cargo build --release):  *)
(* the debug_assert of maybe_update_write and key_update_received, that no *)
(* rotation is pending, is compiled out, and a repeat of the first packet  *)
(* of an epoch, which does not meet it, goes on as the code below it says. *)
(***************************************************************************)
EXTENDS Integers, Sequences, PacketNumbers

CONSTANTS
    WriteLimit, ReadLimit,  \* CryptoDxState::limit of the cipher, per direction
    UpdateAt,               \* UPDATE_WRITE_KEYS_AT
    Sizes,                  \* body lengths in units of 2^11 bytes, rounded up to a power of 2
    MaxPn,                  \* bound: packet numbers used in either direction
    MaxEpoch,               \* bound: epochs reached (2^64 - 1 in the code)
    NoKeys

ASSUME KeyAssumption ==
    /\ WriteLimit \in Nat /\ ReadLimit \in Nat /\ UpdateAt \in Nat
    /\ Sizes \subseteq Nat \ {0}
    /\ MaxPn \in Nat /\ MaxEpoch \in Nat

\* Powers of two: of two sizes the larger is a multiple of the smaller.
ASSUME SizesAssumption == \A s, t \in Sizes : s < t => t % s = 0

ZeroRtt == 1            \* Epoch::ZeroRtt, Epoch::ApplicationData
AppData == 3

VARIABLES
    zeroRtt, write, read, readNext, \* CryptoStates: zero_rtt, app_write, app_read, app_read_next
    timer,                  \* read_update_time is set
    sent,                   \* the packets encrypted and not disowned, in order
    load,                   \* units of 2^11 bytes encrypted with the current write key
    accepted                \* the packets that passed decryption and every check

vars == <<zeroRtt, write, read, readNext, timer, sent, load, accepted>>

\* A CryptoDxState: epoch, used_pn = lo .. hi - 1, min_pn, invocations, largest_packet_len.
Dx == [epoch : Nat, lo : Nat, hi : Nat, min : Nat, inv : Nat, large : Nat \ {0}]

ASSUME NoKeysAssumption == NoKeys \notin Dx

\* CryptoDxState::new.
NewKeys(epoch, limit) ==
    [epoch |-> epoch, lo |-> 0, hi |-> 0, min |-> 0, inv |-> limit, large |-> 1]

\* CryptoDxState::next: a write key has a limit of its own, a read key takes the count over.
NextKeys(dx, inv) ==
    [epoch |-> dx.epoch + 1, lo |-> dx.hi, hi |-> dx.hi, min |-> dx.hi, inv |-> inv, large |-> 1]

KeyPhase(e) == e % 2 # 1

\* invoked() and used(pn), once inv > 0 and pn >= min hold.
Used(dx, pn) == [UsedPn(dx, pn) EXCEPT !.inv = @ - 1]

\* Exactly one packet processed with keys that are not the first ones.
NeedsUpdate(dx) == dx.lo + 1 = dx.hi /\ dx.epoch > AppData

Init ==
    /\ zeroRtt = NoKeys /\ write = NoKeys /\ read = NoKeys /\ readNext = NoKeys
    /\ timer = FALSE
    /\ sent = <<>> /\ load = 0 /\ accepted = {}

-----------------------------------------------------------------------------
(***************************************************************************)
(* Installing and discarding.                                              *)
(***************************************************************************)
Enable0rtt ==
    /\ zeroRtt = NoKeys /\ write = NoKeys
    /\ zeroRtt' = NewKeys(ZeroRtt, WriteLimit)
    /\ UNCHANGED <<write, read, readNext, timer, sent, load, accepted>>

\* The server rejected 0-RTT: what was sent with these keys counts for nothing.
Discard0rtt ==
    /\ zeroRtt # NoKeys /\ read = NoKeys
    /\ zeroRtt' = NoKeys /\ sent' = <<>> /\ load' = 0
    /\ UNCHANGED <<write, read, readNext, timer, accepted>>

\* Mutant: the next read keys are not derived yet.
InstallApplication_NoNext ==
    /\ write = NoKeys
    /\ write' = NewKeys(AppData, WriteLimit)
    /\ zeroRtt' = NoKeys /\ load' = 0
    /\ read' = NewKeys(AppData, ReadLimit) /\ readNext' = NoKeys
    /\ UNCHANGED <<timer, sent, accepted>>

\* install_application_keys at a client: write keys go on after 0-RTT, which ends; the
\* next read keys are derived at once.
InstallApplication ==
    /\ write = NoKeys
    /\ LET app == NewKeys(AppData, WriteLimit)
       IN  write' = IF zeroRtt = NoKeys THEN app ELSE Continuation(app, zeroRtt)
    /\ zeroRtt' = NoKeys /\ load' = 0
    /\ read' = NewKeys(AppData, ReadLimit)
    /\ readNext' = NextKeys(read', read'.inv)
    /\ UNCHANGED <<timer, sent, accepted>>

-----------------------------------------------------------------------------
(***************************************************************************)
(* Sending.                                                                *)
(***************************************************************************)

\* Mutant: larger packets are not charged for.
Spend_Flat(dx, size) == [dx EXCEPT !.large = IF size > @ THEN size ELSE @]

\* encrypt: a packet larger than any before shrinks what is left of the limit.
Spend(dx, size) ==
    [dx EXCEPT !.inv = IF size > dx.large THEN @ \div (size \div dx.large) ELSE @,
               !.large = IF size > @ THEN size ELSE @]

\* select_tx_mut: 1-RTT keys as soon as there are any, else the 0-RTT keys.
Tx == IF write # NoKeys THEN write ELSE zeroRtt
SetTx(dx) ==
    \/ write # NoKeys /\ write' = dx /\ UNCHANGED zeroRtt
    \/ write = NoKeys /\ zeroRtt' = dx /\ UNCHANGED write

Encrypt(size) ==
    /\ Tx # NoKeys /\ Tx.hi < MaxPn
    /\ Spend(Tx, size).inv > 0
    /\ SetTx(Used(Spend(Tx, size), Tx.hi))
    /\ sent' = Append(sent, [epoch |-> Tx.epoch, pn |-> Tx.hi])
    /\ load' = load + size
    /\ UNCHANGED <<read, readNext, timer, accepted>>

\* KeysExhausted: the adjustment for the size is kept, nothing is sent.
Exhausted(size) ==
    /\ Tx # NoKeys /\ Spend(Tx, size).inv = 0
    /\ SetTx(Spend(Tx, size))
    /\ UNCHANGED <<read, readNext, timer, sent, load, accepted>>

-----------------------------------------------------------------------------
(***************************************************************************)
(* Key updates.                                                            *)
(***************************************************************************)

\* can_update, for a largest acknowledged packet number, or none (-1).
CanUpdate(dx, acked) ==
    IF acked = -1 THEN dx.epoch = AppData ELSE acked \in dx.lo .. dx.hi - 1

\* Mutant: the write keys are replaced although they are ahead already.
UpdateWrite_Always == write' = NextKeys(write, WriteLimit) /\ load' = 0

\* maybe_update_write, when it does.
UpdateWrite ==
    /\ write.epoch = read.epoch
    /\ write' = NextKeys(write, WriteLimit) /\ load' = 0

InitiateKeyUpdate(acked) ==
    /\ write # NoKeys /\ CanUpdate(write, acked) /\ ~timer
    /\ UpdateWrite
    /\ UNCHANGED <<zeroRtt, read, readNext, timer, sent, accepted>>

\* auto_update: few invocations left; neither an acknowledgement nor the timer matters.
AutoUpdate ==
    /\ write # NoKeys /\ write.inv <= UpdateAt
    /\ UpdateWrite
    /\ UNCHANGED <<zeroRtt, read, readNext, timer, sent, accepted>>

\* check_key_update once the time has passed.
RotateReadKeys ==
    /\ timer /\ timer' = FALSE
    /\ readNext.epoch < MaxEpoch
    /\ read' = readNext /\ readNext' = NextKeys(readNext, readNext.inv)
    /\ UNCHANGED <<zeroRtt, write, sent, load, accepted>>

-----------------------------------------------------------------------------
(***************************************************************************)
(* Receiving.                                                              *)
(***************************************************************************)

\* rx: the keys the phase bit selects.
Selects(dx, e) == KeyPhase(dx.epoch) = KeyPhase(e)
Rx(e) == IF Selects(read, e) THEN read ELSE readNext

\* decrypt counts the attempt and then fails: wrong key, or a number below min.
DecryptRejected(e, pn) ==
    /\ read # NoKeys
    /\ LET dx == Rx(e)
       IN  /\ dx.inv > 0
           /\ e # dx.epoch \/ pn < dx.min
           /\ IF Selects(read, e)
                THEN read' = [read EXCEPT !.inv = @ - 1] /\ UNCHANGED readNext
                ELSE readNext' = [readNext EXCEPT !.inv = @ - 1] /\ UNCHANGED read
    /\ UNCHANGED <<zeroRtt, write, timer, sent, load, accepted>>

\* Mutant: numbers are compared only when the update is noticed.
CheckPnOverlap_Once(r, n) == timer' /\ ~timer => ~Overlaps(n, r)

\* check_pn_overlap, after every decryption while the timer runs: can the packet stand?
CheckPnOverlap(r, n) == timer' => ~Overlaps(n, r)

\* decrypt succeeds; the first packet of a new epoch is the peer's key update
\* (key_update_received); then check_pn_overlap, whose error rejects the packet but
\* keeps what was noted.
Decrypt(e, pn) ==
    /\ read # NoKeys
    /\ Rx(e).epoch = e /\ Rx(e).inv > 0 /\ pn >= Rx(e).min
    /\ LET dx == Used(Rx(e), pn)
           r  == IF Selects(read, e) THEN dx ELSE read
           n  == IF Selects(read, e) THEN readNext ELSE dx
       IN  /\ timer' = (timer \/ NeedsUpdate(dx))
           /\ IF NeedsUpdate(dx) /\ write.epoch = read.epoch
                THEN UpdateWrite
                ELSE UNCHANGED <<write, load>>
           /\ read' = r
           /\ readNext' = IF timer' THEN Continuation(n, r) ELSE n
           /\ accepted' = IF CheckPnOverlap(r, n)
                            THEN accepted \cup {[epoch |-> e, pn |-> pn]} ELSE accepted
    /\ UNCHANGED <<zeroRtt, sent>>

-----------------------------------------------------------------------------
Next ==
    \/ Enable0rtt \/ Discard0rtt \/ InstallApplication
    \/ \E size \in Sizes : Encrypt(size) \/ Exhausted(size)
    \/ \E acked \in {-1} \cup {sent[i].pn : i \in DOMAIN sent} : InitiateKeyUpdate(acked)
    \/ AutoUpdate \/ RotateReadKeys
    \/ \E e \in AppData .. MaxEpoch, pn \in 0 .. MaxPn - 1 : DecryptRejected(e, pn) \/ Decrypt(e, pn)

Spec == Init /\ [][Next]_vars

-----------------------------------------------------------------------------
(***************************************************************************)
(* What holds.                                                             *)
(***************************************************************************)

Packet == [epoch : Nat, pn : Nat]

\* Every variable has its type.
TypeOK ==
    /\ zeroRtt \in Dx \cup {NoKeys}
    /\ \/ write \in Dx /\ read \in Dx /\ readNext \in Dx
       \/ write = NoKeys /\ read = NoKeys /\ readNext = NoKeys
    /\ timer \in BOOLEAN
    /\ sent \in Seq(Packet) /\ load \in Nat /\ accepted \subseteq Packet

\* The write keys are the read keys' epoch or the one after, the prepared read keys are
\* always the next epoch, and while the timer runs our own keys have been updated: so a
\* phase bit always selects the right one of two keys, whoever updates first, whatever
\* packet triggers it, and an automatic update never runs ahead by two.
KeysInStep ==
    /\ timer => write # NoKeys
    /\ write # NoKeys =>
        /\ readNext.epoch = read.epoch + 1
        /\ write.epoch \in {read.epoch, read.epoch + 1}
        /\ timer => write.epoch = read.epoch + 1

\* Over one key update, packets accepted with the keys before it are numbered below those
\* accepted with the keys after it (used_pn, check_pn_overlap), although old keys still open
\* delayed packets while the timer runs and a rejected packet leaves its number in used_pn.
\* Of epochs with another between them it says something only through packets accepted in
\* that one: see OverlapExact.
ConsecutiveKeysOrdered ==
    \A p, q \in accepted : p.epoch + 1 = q.epoch => p.pn < q.pn

\* No packet number is used twice, and none goes back: not from 0-RTT to 1-RTT, and
\* not over our own updates or those that answer the peer's.
PnNeverReused == \A i, j \in DOMAIN sent : i < j => sent[i].pn < sent[j].pn

\* What is encrypted with one key stays within the limit, large packets counted at
\* their size.
WithinWriteLimit == load <= WriteLimit

-----------------------------------------------------------------------------
(***************************************************************************)
(* What comments say and the code does not do.                             *)
(***************************************************************************)

\* crypto.rs:504-506 used_pn "allows for verifying that packet numbers before a key update are
\* strictly lower than packet numbers after a key update": accepted packets are, whichever
\* update lies between them; and a packet of the old epoch that is, when packets of both epochs
\* were accepted, is accepted too (1323-1325 "continue to receive any delayed packets that use
\* the old keys").
EpochsOrdered == \A p, q \in accepted : p.epoch < q.epoch => p.pn < q.pn

Delayed(e, pn) ==
    /\ timer /\ e = read.epoch
    /\ {e, e + 1} \subseteq {q.epoch : q \in accepted}
    /\ \A q \in accepted : q.epoch > e => pn < q.pn

OverlapExact ==
    [][ /\ EpochsOrdered'
        /\ \A e \in AppData .. MaxEpoch, pn \in 0 .. MaxPn - 1 :
              Delayed(e, pn) /\ Decrypt(e, pn) => [epoch |-> e, pn |-> pn] \in accepted' ]_vars
=============================================================================
