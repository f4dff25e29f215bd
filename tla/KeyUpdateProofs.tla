--------------------------- MODULE KeyUpdateProofs ---------------------------
(***************************************************************************)
(* Theorems about KeyUpdate, for every limit, every set of packet sizes    *)
(* and any number of packets and updates.                                  *)
(***************************************************************************)
EXTENDS KeyUpdate, TLAPS

(***************************************************************************)
(* The operators on one CryptoDxState.                                     *)
(***************************************************************************)

\* Fresh keys, and the next keys of an epoch: unused, beginning after what was used.
LEMMA KeysMade ==
    ASSUME NEW dx \in Dx, NEW epoch \in Nat, NEW inv \in Nat
    PROVE  /\ NewKeys(epoch, inv) \in Dx /\ NextKeys(dx, inv) \in Dx
           /\ NewKeys(epoch, inv).epoch = epoch /\ NextKeys(dx, inv).epoch = dx.epoch + 1
           /\ NewKeys(epoch, inv).hi = 0 /\ NewKeys(epoch, inv).lo = 0 /\ NewKeys(epoch, inv).min = 0
           /\ NewKeys(epoch, inv).inv = inv
           /\ NextKeys(dx, inv).hi = dx.hi /\ NextKeys(dx, inv).lo = dx.hi
           /\ NextKeys(dx, inv).min = dx.hi
  BY DEF NewKeys, NextKeys, Dx

\* What continuation() does to each field.
LEMMA ContinuationFields ==
    ASSUME NEW dx \in Dx, NEW prev \in Dx
    PROVE  /\ Continuation(dx, prev) \in Dx
           /\ Continuation(dx, prev).epoch = dx.epoch
           /\ Continuation(dx, prev).min = prev.hi
           /\ Continuation(dx, prev).lo = IF Overlaps(dx, prev) THEN dx.lo ELSE prev.hi
           /\ Continuation(dx, prev).hi = IF Unused(dx) THEN prev.hi ELSE dx.hi
  BY DEF Continuation, Dx

\* What a packet processed does to each field.
LEMMA UsedFields ==
    ASSUME NEW dx \in Dx, NEW pn \in Nat, dx.inv > 0
    PROVE  /\ Used(dx, pn) \in Dx
           /\ Used(dx, pn).epoch = dx.epoch /\ Used(dx, pn).min = dx.min
           /\ Used(dx, pn).lo = IF Unused(dx) THEN pn ELSE dx.lo
           /\ Used(dx, pn).hi = IF pn + 1 > dx.hi THEN pn + 1 ELSE dx.hi
           /\ Used(dx, pn).inv = dx.inv - 1 /\ Used(dx, pn).large = dx.large
  <1>1. PICK lo \in Nat : lo = IF Unused(dx) THEN pn ELSE dx.lo
    BY DEF Dx
  <1>2. PICK hi \in Nat : hi = IF pn + 1 > dx.hi THEN pn + 1 ELSE dx.hi
    BY DEF Dx
  <1>3. PICK inv \in Nat : inv = dx.inv - 1
    BY DEF Dx
  <1>4. PICK u \in Dx : u = [dx EXCEPT !.lo = lo, !.hi = hi]
    BY DEF Dx
  <1>5. u = UsedPn(dx, pn)
    BY <1>1, <1>2, <1>4, Zenon DEF UsedPn
  <1>6. Used(dx, pn) = [u EXCEPT !.inv = u.inv - 1]
    BY <1>5, Zenon DEF Used
  <1> QED  BY <1>1, <1>2, <1>3, <1>4, <1>6 DEF Dx

\* Dividing a count leaves a count.
LEMMA DivNat ==
    ASSUME NEW a \in Nat, NEW b \in Nat \ {0}
    PROVE  a \div b \in Nat
  BY SMT

\* Charging for the size of a packet changes the counts only.
LEMMA SpendFields ==
    ASSUME NEW dx \in Dx, NEW size \in Sizes
    PROVE  /\ Spend(dx, size) \in Dx
           /\ Spend(dx, size).epoch = dx.epoch
           /\ Spend(dx, size).hi = dx.hi /\ Spend(dx, size).lo = dx.lo
  <1>1. size \in Nat /\ size # 0 /\ dx.large \in Nat /\ dx.large # 0 /\ dx.inv \in Nat
    BY KeyAssumption DEF Dx
  <1>2. size > dx.large => size \div dx.large \in Nat \ {0}
    BY <1>1, SMT
  <1>3. size > dx.large => dx.inv \div (size \div dx.large) \in Nat
    BY <1>1, <1>2, DivNat
  <1> QED  BY <1>1, <1>3 DEF Spend, Dx

\* maybe_update_write and the choice of a read key, for typed keys.
LEMMA KeysChosen ==
    ASSUME TypeOK, write # NoKeys, NEW e \in Nat
    PROVE  /\ write \in Dx /\ read \in Dx /\ readNext \in Dx
           /\ Rx(e) \in Dx
  BY DEF TypeOK, Rx

\* Decrypt, with the two read keys as they are before check_pn_overlap: a packet of the
\* current epoch, or of the next.
LEMMA DecryptKeys ==
    ASSUME TypeOK, NEW e \in Nat, NEW pn \in Nat, Decrypt(e, pn)
    PROVE  \E r \in Dx, n \in Dx :
             /\ read' = r /\ readNext' = (IF timer' THEN Continuation(n, r) ELSE n)
             /\ \/ /\ e = read.epoch /\ pn >= read.min /\ read.inv > 0
                   /\ r = Used(read, pn) /\ n = readNext
                   /\ timer' = (timer \/ NeedsUpdate(r))
                   /\ \/ NeedsUpdate(r) /\ UpdateWrite
                      \/ /\ ~(NeedsUpdate(r) /\ write.epoch = read.epoch)
                         /\ UNCHANGED <<write, load>>
                \/ /\ e = readNext.epoch /\ pn >= readNext.min /\ readNext.inv > 0
                   /\ r = read /\ n = Used(readNext, pn)
                   /\ timer' = (timer \/ NeedsUpdate(n))
                   /\ \/ NeedsUpdate(n) /\ UpdateWrite
                      \/ /\ ~(NeedsUpdate(n) /\ write.epoch = read.epoch)
                         /\ UNCHANGED <<write, load>>
             /\ accepted' = IF timer' => ~Overlaps(n, r)
                              THEN accepted \cup {[epoch |-> e, pn |-> pn]} ELSE accepted
  <1>1. read \in Dx /\ readNext \in Dx /\ write \in Dx
    BY DEF Decrypt, TypeOK
  <1>2. CASE Selects(read, e)
    <2>1. Rx(e) = read
      BY <1>2 DEF Rx
    <2>2. read.epoch = e /\ read.inv > 0 /\ pn >= read.min
      BY <2>1 DEF Decrypt
    <2>3. Used(read, pn) \in Dx
      BY <1>1, <2>2, UsedFields
    <2> QED  BY <1>1, <1>2, <2>1, <2>2, <2>3 DEF Decrypt, CheckPnOverlap
  <1>3. CASE ~Selects(read, e)
    <2>1. Rx(e) = readNext
      BY <1>3 DEF Rx
    <2>2. readNext.epoch = e /\ readNext.inv > 0 /\ pn >= readNext.min
      BY <2>1 DEF Decrypt
    <2>3. Used(readNext, pn) \in Dx
      BY <1>1, <2>2, UsedFields
    <2> QED  BY <1>1, <1>3, <2>1, <2>2, <2>3 DEF Decrypt, CheckPnOverlap
  <1> QED  BY <1>2, <1>3

(***************************************************************************)
(* Types.                                                                  *)
(***************************************************************************)

\* Every step keeps the types; in particular no count of invocations passes zero.
LEMMA TypeStep ==
    ASSUME TypeOK, KeysInStep, [Next]_vars
    PROVE  TypeOK'
  <1>1. ASSUME Enable0rtt PROVE TypeOK'
    BY <1>1, KeyAssumption DEF Enable0rtt, NewKeys, ZeroRtt, TypeOK, Dx
  <1>2. ASSUME Discard0rtt PROVE TypeOK'
    BY <1>2 DEF Discard0rtt, TypeOK
  <1>3. ASSUME InstallApplication PROVE TypeOK'
    <2>1. /\ read' = NewKeys(AppData, ReadLimit) /\ read' \in Dx /\ read'.inv \in Nat
          /\ NewKeys(AppData, WriteLimit) \in Dx
      BY <1>3, KeyAssumption DEF InstallApplication, NewKeys, AppData, Dx
    <2>2. readNext' \in Dx
      BY <1>3, <2>1, KeysMade DEF InstallApplication
    <2>3. write' \in Dx
      BY <1>3, <2>1, ContinuationFields DEF InstallApplication, TypeOK
    <2> QED  BY <1>3, <2>1, <2>2, <2>3 DEF InstallApplication, TypeOK
  <1>4. ASSUME NEW size \in Sizes, Encrypt(size) PROVE TypeOK'
    <2>1. Tx \in Dx
      BY <1>4 DEF Encrypt, Tx, TypeOK
    <2>2. Used(Spend(Tx, size), Tx.hi) \in Dx /\ Tx.epoch \in Nat /\ Tx.hi \in Nat
      <3>1. Tx.epoch \in Nat /\ Tx.hi \in Nat
        BY <2>1 DEF Dx
      <3>2. Spend(Tx, size) \in Dx /\ Spend(Tx, size).inv > 0
        BY <1>4, <2>1, SpendFields DEF Encrypt
      <3> QED  BY <3>1, <3>2, UsedFields
    <2>3. /\ [epoch |-> Tx.epoch, pn |-> Tx.hi] \in Packet
          /\ sent' = Append(sent, [epoch |-> Tx.epoch, pn |-> Tx.hi])
          /\ load' = load + size /\ size \in Nat
      BY <1>4, <2>2, KeyAssumption DEF Encrypt, Packet
    <2>4. sent' \in Seq(Packet) /\ load' \in Nat
      BY <2>3 DEF TypeOK
    <2>5. UNCHANGED <<read, readNext, timer, accepted>>
      BY <1>4 DEF Encrypt
    <2>6. CASE write # NoKeys
      <3>1. write' \in Dx /\ zeroRtt' = zeroRtt
        BY <1>4, <2>2, <2>6 DEF Encrypt, SetTx
      <3> QED  BY <2>4, <2>5, <2>6, <3>1 DEF TypeOK
    <2>7. CASE write = NoKeys
      <3>1. zeroRtt' \in Dx /\ write' = write
        BY <1>4, <2>2, <2>7 DEF Encrypt, SetTx
      <3> QED  BY <2>4, <2>5, <2>7, <3>1 DEF TypeOK
    <2> QED  BY <2>6, <2>7
  <1>5. ASSUME NEW size \in Sizes, Exhausted(size) PROVE TypeOK'
    <2>1. Tx \in Dx
      BY <1>5 DEF Exhausted, Tx, TypeOK
    <2>2. Spend(Tx, size) \in Dx
      BY <2>1, SpendFields
    <2>3. UNCHANGED <<read, readNext, timer, sent, load, accepted>>
      BY <1>5 DEF Exhausted
    <2>4. CASE write # NoKeys
      <3>1. write' \in Dx /\ zeroRtt' = zeroRtt
        BY <1>5, <2>2, <2>4 DEF Exhausted, SetTx
      <3> QED  BY <2>3, <2>4, <3>1 DEF TypeOK
    <2>5. CASE write = NoKeys
      <3>1. zeroRtt' \in Dx /\ write' = write
        BY <1>5, <2>2, <2>5 DEF Exhausted, SetTx
      <3> QED  BY <2>3, <2>5, <3>1 DEF TypeOK
    <2> QED  BY <2>4, <2>5
  <1>6. ASSUME write # NoKeys, UpdateWrite,
               UNCHANGED <<zeroRtt, read, readNext, timer, sent, accepted>>
        PROVE  TypeOK'
    <2>1. write' \in Dx /\ load' = 0
      BY <1>6, KeyAssumption, KeysMade DEF UpdateWrite, TypeOK
    <2> QED  BY <1>6, <2>1 DEF TypeOK
  <1>7. ASSUME NEW acked, InitiateKeyUpdate(acked) PROVE TypeOK'
    BY <1>6, <1>7 DEF InitiateKeyUpdate
  <1>8. ASSUME AutoUpdate PROVE TypeOK'
    BY <1>6, <1>8 DEF AutoUpdate
  <1>9. ASSUME RotateReadKeys PROVE TypeOK'
    <2>1. readNext \in Dx
      BY <1>9 DEF RotateReadKeys, TypeOK, KeysInStep
    <2>2. NextKeys(readNext, readNext.inv) \in Dx
      BY <2>1 DEF NextKeys, Dx
    <2> QED  BY <1>9, <2>1, <2>2 DEF RotateReadKeys, TypeOK, KeysInStep
  <1>10. ASSUME NEW e \in Nat, NEW pn \in Nat, DecryptRejected(e, pn) PROVE TypeOK'
    <2>1. read \in Dx /\ readNext \in Dx /\ write \in Dx
      BY <1>10 DEF DecryptRejected, TypeOK
    <2>2. UNCHANGED <<zeroRtt, write, timer, sent, load, accepted>>
      BY <1>10 DEF DecryptRejected
    <2>3. CASE Selects(read, e)
      <3>1. read.inv > 0 /\ read' = [read EXCEPT !.inv = @ - 1] /\ readNext' = readNext
        BY <1>10, <2>3 DEF DecryptRejected, Rx
      <3>2. read' \in Dx
        BY <2>1, <3>1 DEF Dx
      <3> QED  BY <2>1, <2>2, <3>1, <3>2 DEF TypeOK
    <2>4. CASE ~Selects(read, e)
      <3>1. readNext.inv > 0 /\ readNext' = [readNext EXCEPT !.inv = @ - 1] /\ read' = read
        BY <1>10, <2>4 DEF DecryptRejected, Rx
      <3>2. readNext' \in Dx
        BY <2>1, <3>1 DEF Dx
      <3> QED  BY <2>1, <2>2, <3>1, <3>2 DEF TypeOK
    <2> QED  BY <2>3, <2>4
  <1>11. ASSUME NEW e \in Nat, NEW pn \in Nat, Decrypt(e, pn) PROVE TypeOK'
    <2>1. read' \in Dx /\ readNext' \in Dx
      BY <1>11, DecryptKeys, ContinuationFields
    <2>2. write' \in Dx /\ load' \in Nat
      <3>1. write \in Dx /\ load \in Nat
        BY <1>11 DEF Decrypt, TypeOK
      <3>2. UpdateWrite \/ UNCHANGED <<write, load>>
        BY <1>11 DEF Decrypt
      <3> QED  BY <3>1, <3>2, KeysMade, KeyAssumption DEF UpdateWrite
    <2>3. accepted' \subseteq Packet
      BY <1>11 DEF Decrypt, TypeOK, Packet
    <2>4. /\ timer' \in BOOLEAN
          /\ UNCHANGED <<zeroRtt, sent>>
      BY <1>11 DEF Decrypt, TypeOK, NeedsUpdate
    <2> QED  BY <2>1, <2>2, <2>3, <2>4 DEF TypeOK
  <1>12. ASSUME UNCHANGED vars PROVE TypeOK'
    BY <1>12 DEF vars, TypeOK
  <1>13. AppData .. MaxEpoch \subseteq Nat /\ 0 .. MaxPn - 1 \subseteq Nat
    BY KeyAssumption DEF AppData
  <1> QED
    BY <1>1, <1>2, <1>3, <1>4, <1>5, <1>7, <1>8, <1>9, <1>10, <1>11, <1>12, <1>13 DEF Next

(***************************************************************************)
(* Epochs.                                                                 *)
(***************************************************************************)

\* Every step keeps the two directions and the prepared keys in step.
LEMMA KeysInStepStep ==
    ASSUME TypeOK, KeysInStep, [Next]_vars
    PROVE  KeysInStep'
  <1>1. CASE UNCHANGED <<write, read, readNext, timer>>
    BY <1>1 DEF KeysInStep
  <1>2. ASSUME InstallApplication PROVE KeysInStep'
    <2>1. /\ read' = NewKeys(AppData, ReadLimit) /\ read' \in Dx /\ read'.epoch = AppData
          /\ read'.inv \in Nat
          /\ NewKeys(AppData, WriteLimit) \in Dx
          /\ NewKeys(AppData, WriteLimit).epoch = AppData
      BY <1>2, KeyAssumption DEF InstallApplication, NewKeys, AppData, Dx
    <2>2. readNext'.epoch = AppData + 1
      BY <1>2, <2>1, KeysMade DEF InstallApplication
    <2>3. write'.epoch = AppData
      BY <1>2, <2>1, ContinuationFields DEF InstallApplication, TypeOK
    <2>4. ~timer'
      BY <1>2 DEF InstallApplication, KeysInStep
    <2> QED  BY <2>1, <2>2, <2>3, <2>4 DEF KeysInStep, AppData
  <1>3. ASSUME NEW size \in Sizes, Encrypt(size) \/ Exhausted(size) PROVE KeysInStep'
    <2>1. UNCHANGED <<read, readNext, timer>>
      BY <1>3 DEF Encrypt, Exhausted
    <2>2. CASE write = NoKeys
      <3>1. UNCHANGED write
        BY <1>3, <2>2 DEF Encrypt, Exhausted, SetTx
      <3> QED  BY <1>1, <2>1, <3>1
    <2>3. CASE write # NoKeys
      <3>1. write \in Dx /\ Tx = write /\ write.hi \in Nat
        BY <2>3 DEF TypeOK, Tx, Dx
      <3>2. Spend(write, size) \in Dx /\ Spend(write, size).epoch = write.epoch
        BY <3>1, SpendFields
      <3>3. write'.epoch = write.epoch /\ write' \in Dx
        <4>1. ASSUME Encrypt(size) PROVE write'.epoch = write.epoch /\ write' \in Dx
          <5>1. write' = Used(Spend(write, size), write.hi) /\ Spend(write, size).inv > 0
            BY <2>3, <3>1, <4>1 DEF Encrypt, SetTx
          <5> QED  BY <3>1, <3>2, <5>1, UsedFields
        <4>2. ASSUME Exhausted(size) PROVE write'.epoch = write.epoch /\ write' \in Dx
          BY <2>3, <3>1, <3>2, <4>2 DEF Exhausted, SetTx
        <4> QED  BY <1>3, <4>1, <4>2
      <3> QED  BY <2>1, <2>3, <3>3, NoKeysAssumption DEF KeysInStep
    <2> QED  BY <2>2, <2>3
  <1>4. ASSUME write # NoKeys, UpdateWrite, UNCHANGED <<read, readNext, timer>>
        PROVE  KeysInStep'
    <2>1. write.epoch = read.epoch /\ write'.epoch = write.epoch + 1
      BY <1>4, KeysMade, KeyAssumption DEF UpdateWrite, TypeOK
    <2>2. read.epoch \in Nat /\ write' \in Dx
      BY <1>4, KeysMade, KeyAssumption DEF UpdateWrite, TypeOK, Dx
    <2> QED  BY <1>4, <2>1, <2>2, NoKeysAssumption DEF KeysInStep
  <1>5. ASSUME NEW acked, InitiateKeyUpdate(acked) PROVE KeysInStep'
    BY <1>4, <1>5 DEF InitiateKeyUpdate
  <1>6. ASSUME AutoUpdate PROVE KeysInStep'
    BY <1>4, <1>6 DEF AutoUpdate
  <1>7. ASSUME RotateReadKeys PROVE KeysInStep'
    <2>1. readNext \in Dx /\ readNext.inv \in Nat /\ readNext.epoch = read.epoch + 1
      BY <1>7 DEF RotateReadKeys, TypeOK, KeysInStep, Dx
    <2>2. readNext'.epoch = readNext.epoch + 1 /\ read' = readNext /\ write' = write /\ ~timer'
      BY <1>7, <2>1, KeysMade DEF RotateReadKeys
    <2>3. timer /\ timer' = FALSE
      BY <1>7 DEF RotateReadKeys
    <2>4. write.epoch = read.epoch + 1 /\ write # NoKeys
      BY <2>3 DEF KeysInStep
    <2>5. write'.epoch = read'.epoch
      BY <2>1, <2>2, <2>4
    <2> QED  BY <2>1, <2>2, <2>3, <2>5 DEF KeysInStep
  <1>8. ASSUME NEW e \in Nat, NEW pn \in Nat, DecryptRejected(e, pn) PROVE KeysInStep'
    <2>1. /\ read \in Dx /\ readNext \in Dx /\ UNCHANGED <<write, timer>>
          /\ read' = read \/ read' = [read EXCEPT !.inv = @ - 1]
          /\ readNext' = readNext \/ readNext' = [readNext EXCEPT !.inv = @ - 1]
      BY <1>8 DEF DecryptRejected, TypeOK
    <2>2. read'.epoch = read.epoch /\ readNext'.epoch = readNext.epoch
      BY <2>1 DEF Dx
    <2> QED  BY <2>1, <2>2 DEF KeysInStep
  <1>9. ASSUME NEW e \in Nat, NEW pn \in Nat, Decrypt(e, pn) PROVE KeysInStep'
    <2>1. write \in Dx /\ read \in Dx /\ readNext \in Dx /\ write # NoKeys
      BY <1>9, NoKeysAssumption DEF Decrypt, TypeOK
    <2>2. read'.epoch = read.epoch /\ readNext'.epoch = readNext.epoch
      BY <1>9, <2>1, DecryptKeys, UsedFields, ContinuationFields
    <2>3. \/ write'.epoch = read.epoch + 1
          \/ /\ UNCHANGED write /\ timer' = timer
          \/ /\ UNCHANGED write /\ write.epoch # read.epoch
      <3>1. ASSUME UpdateWrite PROVE write'.epoch = read.epoch + 1
        BY <2>1, <3>1, KeysMade, KeyAssumption DEF UpdateWrite
      <3> QED  BY <1>9, <3>1 DEF Decrypt, TypeOK, NeedsUpdate
    <2>4. write.epoch \in Nat /\ read.epoch \in Nat
      BY <2>1 DEF Dx
    <2>5. UNCHANGED write \/ write' \in Dx
      <3>1. UpdateWrite \/ UNCHANGED write
        BY <1>9 DEF Decrypt
      <3> QED  BY <2>1, <3>1, KeysMade, KeyAssumption DEF UpdateWrite
    <2> QED  BY <2>1, <2>2, <2>3, <2>4, <2>5, NoKeysAssumption DEF KeysInStep
  <1>10. AppData .. MaxEpoch \subseteq Nat /\ 0 .. MaxPn - 1 \subseteq Nat
    BY KeyAssumption DEF AppData
  <1>11. ASSUME Enable0rtt \/ Discard0rtt \/ UNCHANGED vars PROVE KeysInStep'
    BY <1>1, <1>11 DEF Enable0rtt, Discard0rtt, vars
  <1> QED
    BY <1>2, <1>3, <1>5, <1>6, <1>7, <1>8, <1>9, <1>10, <1>11 DEF Next

\* The empty connection.
LEMMA InitInStep == Init => TypeOK /\ KeysInStep
  <1> SUFFICES ASSUME Init PROVE TypeOK /\ KeysInStep
    OBVIOUS
  <1>1. KeysInStep
    BY Zenon DEF Init, KeysInStep
  <1>2. sent = <<>> /\ accepted = {} /\ load = 0 /\ timer = FALSE
    BY DEF Init
  <1>3. zeroRtt = NoKeys /\ write = NoKeys /\ read = NoKeys /\ readNext = NoKeys
    BY DEF Init
  <1>4. sent \in Seq(Packet) /\ accepted \subseteq Packet /\ load \in Nat
    BY <1>2
  <1>5. timer \in BOOLEAN
    BY <1>2
  <1> QED  BY <1>1, <1>3, <1>4, <1>5, Zenon DEF TypeOK

\* Every variable keeps its type: no count of invocations passes zero, and the three
\* 1-RTT keys are installed together.
THEOREM TypeCorrect == Spec => []TypeOK
  <1>1. TypeOK /\ KeysInStep /\ [Next]_vars => TypeOK' /\ KeysInStep'
    BY TypeStep, KeysInStepStep
  <1> QED  BY <1>1, InitInStep, PTL DEF Spec

\* The keys stay in step: the read keys the phase bit selects between (CryptoStates::rx)
\* are always the current and the next epoch, and the write keys are never two epochs
\* ahead, whatever the limits and whoever updates.
THEOREM KeysStayInStep == Spec => []KeysInStep
  <1>1. TypeOK /\ KeysInStep /\ [Next]_vars => TypeOK' /\ KeysInStep'
    BY TypeStep, KeysInStepStep
  <1> QED  BY <1>1, InitInStep, PTL DEF Spec

(***************************************************************************)
(* Packet numbers sent.                                                    *)
(***************************************************************************)

\* 0-RTT keys end where 1-RTT keys begin, nothing counts as sent before there are keys,
\* and all that was sent is numbered below what the keys in use will send next.
SentInv ==
    /\ write # NoKeys => zeroRtt = NoKeys
    /\ Tx = NoKeys => sent = <<>>
    /\ Tx # NoKeys => \A i \in DOMAIN sent : sent[i].pn < Tx.hi

\* Every step keeps the numbers going up, through 0-RTT, its end and every update.
LEMMA SentStep ==
    ASSUME TypeOK, KeysInStep, SentInv, PnNeverReused, [Next]_vars, TypeOK'
    PROVE  SentInv' /\ PnNeverReused'
  <1>1. ASSUME UNCHANGED <<zeroRtt, write, sent>> PROVE SentInv' /\ PnNeverReused'
    BY <1>1 DEF SentInv, Tx, PnNeverReused
  <1>2. ASSUME Enable0rtt PROVE SentInv' /\ PnNeverReused'
    <2>1. sent' = <<>> /\ write' = NoKeys
      BY <1>2 DEF Enable0rtt, SentInv, Tx
    <2> QED  BY <2>1 DEF SentInv, Tx, PnNeverReused
  <1>3. ASSUME Discard0rtt PROVE SentInv' /\ PnNeverReused'
    <2>1. sent' = <<>> /\ write' = NoKeys
      BY <1>3, NoKeysAssumption DEF Discard0rtt, TypeOK
    <2> QED  BY <2>1 DEF SentInv, Tx, PnNeverReused
  <1>4. ASSUME InstallApplication PROVE SentInv' /\ PnNeverReused'
    <2>1. /\ write = NoKeys /\ zeroRtt' = NoKeys /\ UNCHANGED sent /\ Tx = zeroRtt
          /\ NewKeys(AppData, WriteLimit) \in Dx
          /\ NewKeys(AppData, WriteLimit).lo = 0 /\ NewKeys(AppData, WriteLimit).hi = 0
      BY <1>4, KeyAssumption DEF InstallApplication, Tx, NewKeys, Dx, AppData
    <2>2. zeroRtt # NoKeys => write'.hi = zeroRtt.hi
      BY <1>4, <2>1, ContinuationFields DEF InstallApplication, TypeOK, Unused
    <2>3. write' # NoKeys
      BY <1>4, <2>1, ContinuationFields, NoKeysAssumption DEF InstallApplication, TypeOK
    <2>4. PnNeverReused'
      BY <2>1 DEF PnNeverReused
    <2> QED  BY <2>1, <2>2, <2>3, <2>4 DEF SentInv, Tx
  <1>5. ASSUME NEW size \in Sizes, Encrypt(size) PROVE SentInv' /\ PnNeverReused'
    <2>1. Tx \in Dx /\ Tx # NoKeys /\ Tx.hi \in Nat
      BY <1>5 DEF Encrypt, Tx, TypeOK, Dx
    <2>2. Tx' = Used(Spend(Tx, size), Tx.hi) /\ (write' # NoKeys => zeroRtt' = NoKeys)
      <3>1. /\ Spend(Tx, size) \in Dx /\ Spend(Tx, size).inv > 0
        BY <1>5, <2>1, SpendFields DEF Encrypt
      <3>2. Used(Spend(Tx, size), Tx.hi) # NoKeys
        BY <2>1, <3>1, UsedFields, NoKeysAssumption
      <3>3. SetTx(Used(Spend(Tx, size), Tx.hi))
        BY <1>5 DEF Encrypt
      <3> QED  BY <3>2, <3>3 DEF SetTx, Tx, SentInv
    <2>3. Tx'.hi = Tx.hi + 1
      <3>1. /\ Spend(Tx, size) \in Dx /\ Spend(Tx, size).inv > 0
            /\ Spend(Tx, size).hi = Tx.hi
        BY <1>5, <2>1, SpendFields DEF Encrypt
      <3> QED  BY <2>1, <2>2, <3>1, UsedFields
    <2>4. sent' = Append(sent, [epoch |-> Tx.epoch, pn |-> Tx.hi]) /\ sent \in Seq(Packet)
      BY <1>5 DEF Encrypt, TypeOK
    <2>5. /\ DOMAIN sent = 1 .. Len(sent) /\ Len(sent) \in Nat
          /\ DOMAIN sent' = 1 .. Len(sent) + 1
          /\ \A i \in DOMAIN sent : sent'[i] = sent[i] /\ sent[i].pn \in Nat
          /\ sent'[Len(sent) + 1].pn = Tx.hi
      <3> DEFINE m == [epoch |-> Tx.epoch, pn |-> Tx.hi]
      <3>1. m \in Packet /\ m.pn = Tx.hi
        BY <2>1 DEF Packet, Dx
      <3>2. sent' = Append(sent, m)
        BY <2>4
      <3>3. \A i \in DOMAIN sent : sent[i] \in Packet
        BY <2>4
      <3>4. \A i \in DOMAIN sent : sent[i].pn \in Nat
        BY <3>3 DEF Packet
      <3> HIDE DEF m
      <3>5. /\ DOMAIN sent = 1 .. Len(sent) /\ Len(sent) \in Nat
            /\ DOMAIN sent' = 1 .. Len(sent) + 1
            /\ \A i \in DOMAIN sent : sent'[i] = sent[i]
            /\ sent'[Len(sent) + 1] = m
        BY <2>4, <3>1, <3>2
      <3> QED  BY <3>1, <3>4, <3>5
    <2>6. \A i \in DOMAIN sent : sent[i].pn < Tx.hi
      BY <2>1 DEF SentInv
    <2>7. \A i \in DOMAIN sent' : sent'[i].pn < Tx'.hi
      BY <2>1, <2>3, <2>5, <2>6
    <2>8. \A i, j \in DOMAIN sent' : i < j => sent'[i].pn < sent'[j].pn
      BY <2>5, <2>6 DEF PnNeverReused
    <2>9. Tx' # NoKeys
      BY <1>5, <2>1, <2>2, SpendFields, UsedFields, NoKeysAssumption DEF Encrypt
    <2> QED  BY <2>2, <2>7, <2>8, <2>9 DEF SentInv, PnNeverReused
  <1>6. ASSUME NEW size \in Sizes, Exhausted(size) PROVE SentInv' /\ PnNeverReused'
    <2>1. Tx \in Dx /\ Tx # NoKeys
      BY <1>6 DEF Exhausted, Tx, TypeOK
    <2>2. Spend(Tx, size) \in Dx /\ Spend(Tx, size).hi = Tx.hi /\ Spend(Tx, size) # NoKeys
      BY <2>1, SpendFields, NoKeysAssumption
    <2>3. SetTx(Spend(Tx, size)) /\ UNCHANGED sent
      BY <1>6 DEF Exhausted
    <2>4. Tx' = Spend(Tx, size) /\ (write' # NoKeys => zeroRtt' = NoKeys)
      BY <2>2, <2>3 DEF SetTx, Tx, SentInv
    <2> QED  BY <2>1, <2>2, <2>3, <2>4 DEF SentInv, PnNeverReused
  <1>7. ASSUME write # NoKeys, UpdateWrite, UNCHANGED <<zeroRtt, sent>>
        PROVE  SentInv' /\ PnNeverReused'
    <2>1. write' \in Dx /\ write'.hi = write.hi
      BY <1>7, KeysMade, KeyAssumption DEF UpdateWrite, TypeOK
    <2>2. Tx = write /\ Tx' = write' /\ Tx' # NoKeys
      BY <1>7, <2>1, NoKeysAssumption DEF Tx
    <2> QED  BY <1>7, <2>1, <2>2 DEF SentInv, PnNeverReused
  <1>8. ASSUME NEW e, NEW pn, Decrypt(e, pn) PROVE SentInv' /\ PnNeverReused'
    <2>1. write # NoKeys /\ UNCHANGED <<zeroRtt, sent>> /\ (UpdateWrite \/ UNCHANGED write)
      BY <1>8, NoKeysAssumption DEF Decrypt, TypeOK
    <2> QED  BY <1>1, <1>7, <2>1
  <1>9. ASSUME NEW acked, InitiateKeyUpdate(acked) PROVE SentInv' /\ PnNeverReused'
    BY <1>7, <1>9 DEF InitiateKeyUpdate
  <1>10. ASSUME AutoUpdate PROVE SentInv' /\ PnNeverReused'
    BY <1>7, <1>10 DEF AutoUpdate
  <1>11. ASSUME NEW e, NEW pn, RotateReadKeys \/ DecryptRejected(e, pn) \/ UNCHANGED vars
         PROVE  SentInv' /\ PnNeverReused'
    BY <1>1, <1>11 DEF RotateReadKeys, DecryptRejected, vars
  <1> QED
    BY <1>2, <1>3, <1>4, <1>5, <1>6, <1>8, <1>9, <1>10, <1>11 DEF Next

\* No packet number is used twice and none goes back, over 0-RTT, its end, and any number
\* of updates of either side (CryptoDxState::encrypt, continuation and next).
THEOREM NumbersGoUp == Spec => []PnNeverReused
  <1>1. Init => SentInv /\ PnNeverReused
    BY DEF Init, SentInv, PnNeverReused, Tx
  <1>2. TypeOK /\ KeysInStep /\ SentInv /\ PnNeverReused /\ [Next]_vars
          => TypeOK' /\ KeysInStep' /\ SentInv' /\ PnNeverReused'
    BY TypeStep, KeysInStepStep, SentStep
  <1> QED  BY <1>1, <1>2, InitInStep, PTL DEF Spec

(***************************************************************************)
(* Packet numbers received.                                                *)
(***************************************************************************)

\* The packets accepted, against the two read keys: those of the current epoch are below
\* what it used up, those of the epoch before below its minimum, and those of the next
\* epoch, which there are only while the timer runs, within what it used; while the timer
\* runs the next keys' minimum is the end of the current keys' range.
ReadInv ==
    IF read = NoKeys THEN accepted = {} ELSE
      /\ read.epoch >= AppData
      /\ readNext.lo <= readNext.hi
      /\ Unused(readNext) => readNext.min = readNext.hi
      /\ ~timer => Unused(readNext)
      /\ timer => readNext.min = read.hi
      /\ \A p \in accepted :
           /\ p.epoch <= readNext.epoch
           /\ p.epoch = read.epoch => p.pn < read.hi
           /\ p.epoch + 1 = read.epoch => p.pn < read.min
           /\ p.epoch = readNext.epoch => readNext.lo <= p.pn /\ p.pn < readNext.hi

\* The numbers in a key's state, and in a packet, are natural.
LEMMA Numbers ==
    /\ \A dx \in Dx : dx.epoch \in Nat /\ dx.lo \in Nat /\ dx.hi \in Nat /\ dx.min \in Nat
    /\ \A p \in Packet : p.epoch \in Nat /\ p.pn \in Nat
  BY DEF Dx, Packet

\* A packet of the current epoch: below every packet of the next one, or rejected.
LEMMA DecryptCurrent ==
    ASSUME TypeOK, KeysInStep, ReadInv, ConsecutiveKeysOrdered, read \in Dx, readNext \in Dx,
           NEW pn \in Nat, NEW r \in Dx, NEW e \in Nat, NEW packet \in Packet,
           packet.epoch = e, packet.pn = pn, write # NoKeys, read # NoKeys, read' # NoKeys,
           e = read.epoch, pn >= read.min, read.inv > 0,
           r = Used(read, pn), read' = r,
           timer \in BOOLEAN, timer' \in BOOLEAN, timer => timer',
           readNext' = (IF timer' THEN Continuation(readNext, r) ELSE readNext),
           accepted' = IF timer' => ~Overlaps(readNext, r)
                         THEN accepted \cup {packet} ELSE accepted
    PROVE  ReadInv' /\ ConsecutiveKeysOrdered'
  <1>1. /\ r.epoch = read.epoch /\ r.min = read.min
        /\ r.hi = IF pn + 1 > read.hi THEN pn + 1 ELSE read.hi
    BY UsedFields
  <1>2. /\ read.epoch \in Nat /\ read.hi \in Nat /\ read.min \in Nat /\ r.hi \in Nat
        /\ readNext.lo \in Nat /\ readNext.hi \in Nat /\ readNext.min \in Nat
    BY Numbers
  <1>3. readNext.epoch = read.epoch + 1 /\ read.epoch >= AppData /\ readNext.lo <= readNext.hi
    BY DEF KeysInStep, ReadInv
  <1>4. \A p \in accepted : p.epoch \in Nat /\ p.pn \in Nat
    BY Numbers DEF TypeOK
  <1>5. \A p \in accepted :
           /\ p.epoch <= readNext.epoch
           /\ p.epoch = read.epoch => p.pn < read.hi
           /\ p.epoch + 1 = read.epoch => p.pn < read.min
           /\ p.epoch = readNext.epoch => readNext.lo <= p.pn /\ p.pn < readNext.hi
    BY DEF ReadInv
  <1>6. /\ readNext' \in Dx /\ readNext'.epoch = readNext.epoch
        /\ readNext'.lo <= readNext'.hi
        /\ Unused(readNext') => readNext'.min = readNext'.hi
        /\ ~timer' => Unused(readNext')
        /\ timer' => readNext'.min = r.hi
        /\ ~Unused(readNext) => readNext'.lo <= readNext.lo /\ readNext'.hi = readNext.hi
    BY <1>2, <1>3, ContinuationFields DEF Unused, Overlaps, ReadInv
  <1>7. \A p \in accepted : p.epoch = readNext.epoch => ~Unused(readNext)
    BY <1>2, <1>4, <1>5 DEF Unused
  <1>8. \A p \in accepted' :
           /\ p.epoch \in Nat /\ p.pn \in Nat
           /\ p.epoch <= readNext'.epoch
           /\ p.epoch = r.epoch => p.pn < r.hi
           /\ p.epoch + 1 = r.epoch => p.pn < r.min
           /\ p.epoch = readNext'.epoch => readNext'.lo <= p.pn /\ p.pn < readNext'.hi
    <2>1. readNext'.lo \in Nat
      BY <1>6, Numbers
    <2> QED  BY <1>1, <1>2, <1>3, <1>4, <1>5, <1>6, <1>7, <2>1
  <1>9. ReadInv'
    BY <1>1, <1>3, <1>6, <1>8 DEF ReadInv
  <1>10. ASSUME packet \in accepted', timer' => ~Overlaps(readNext, r),
                NEW q \in accepted
         PROVE  /\ q.epoch + 1 = e => q.pn < pn
                /\ e + 1 = q.epoch => pn < q.pn
    <2>1. q.epoch + 1 = e => q.pn < pn
      BY <1>2, <1>4, <1>5
    <2>2. ASSUME e + 1 = q.epoch PROVE pn < q.pn
      <3>1. ~Unused(readNext)
        BY <1>3, <1>7, <2>2
      <3>2. timer' /\ r.hi <= readNext.lo
        BY <1>2, <1>10, <3>1 DEF Overlaps, ReadInv
      <3> QED  BY <1>1, <1>2, <1>3, <1>4, <1>5, <2>2, <3>2
    <2> QED  BY <2>1, <2>2
  <1>11. ConsecutiveKeysOrdered'
    <2>1. CASE accepted' = accepted
      BY <2>1 DEF ConsecutiveKeysOrdered
    <2>2. CASE accepted' # accepted
      <3>1. accepted' = accepted \cup {packet} /\ (timer' => ~Overlaps(readNext, r))
        BY <2>2
      <3>2. \A q \in accepted : /\ q.epoch + 1 = e => q.pn < pn
                                /\ e + 1 = q.epoch => pn < q.pn
        BY <1>10, <3>1
      <3>3. e + 1 # e
        OBVIOUS
      <3> QED  BY <3>1, <3>2, <3>3 DEF ConsecutiveKeysOrdered
    <2> QED  BY <2>1, <2>2
  <1> QED  BY <1>9, <1>11

\* A packet of the next epoch: above every packet of the current one, or rejected.
LEMMA DecryptNext ==
    ASSUME TypeOK, KeysInStep, ReadInv, ConsecutiveKeysOrdered, read \in Dx, readNext \in Dx,
           NEW pn \in Nat, NEW n \in Dx, NEW e \in Nat, NEW packet \in Packet,
           packet.epoch = e, packet.pn = pn, write # NoKeys, read # NoKeys, read' # NoKeys,
           e = readNext.epoch, pn >= readNext.min, readNext.inv > 0,
           n = Used(readNext, pn), read' = read,
           timer \in BOOLEAN, timer' = (timer \/ NeedsUpdate(n)),
           readNext' = (IF timer' THEN Continuation(n, read) ELSE n),
           accepted' = IF timer' => ~Overlaps(n, read)
                         THEN accepted \cup {packet} ELSE accepted
    PROVE  ReadInv' /\ ConsecutiveKeysOrdered'
  <1>1. /\ n.epoch = readNext.epoch /\ n.min = readNext.min
        /\ n.lo = IF Unused(readNext) THEN pn ELSE readNext.lo
        /\ n.hi = IF pn + 1 > readNext.hi THEN pn + 1 ELSE readNext.hi
    BY UsedFields
  <1>2. /\ read.epoch \in Nat /\ read.hi \in Nat /\ read.min \in Nat
        /\ readNext.lo \in Nat /\ readNext.hi \in Nat /\ readNext.min \in Nat
        /\ n.lo \in Nat /\ n.hi \in Nat
    BY Numbers
  <1>3. readNext.epoch = read.epoch + 1 /\ read.epoch >= AppData /\ readNext.lo <= readNext.hi
    BY DEF KeysInStep, ReadInv
  <1>4. \A p \in accepted : p.epoch \in Nat /\ p.pn \in Nat
    BY Numbers DEF TypeOK
  <1>5. \A p \in accepted :
           /\ p.epoch <= readNext.epoch
           /\ p.epoch = read.epoch => p.pn < read.hi
           /\ p.epoch + 1 = read.epoch => p.pn < read.min
           /\ p.epoch = readNext.epoch => readNext.lo <= p.pn /\ p.pn < readNext.hi
    BY DEF ReadInv
  <1>6. n.lo < n.hi /\ ~Unused(n)
    BY <1>1, <1>2, <1>3 DEF Unused
  <1>7. timer'
    <2>1. ASSUME ~timer PROVE NeedsUpdate(n)
      <3>1. Unused(readNext) /\ readNext.min = readNext.hi
        BY <2>1 DEF ReadInv
      <3>2. n.lo = pn /\ n.hi = pn + 1
        BY <1>1, <1>2, <3>1
      <3> QED  BY <1>1, <1>2, <1>3, <3>2 DEF NeedsUpdate, AppData
    <2> QED  BY <2>1
  <1>8. /\ readNext' \in Dx /\ readNext'.epoch = readNext.epoch
        /\ readNext'.min = read.hi /\ readNext'.hi = n.hi
        /\ readNext'.lo = IF read.hi > n.lo THEN n.lo ELSE read.hi
    <2>1. readNext' = Continuation(n, read)
      BY <1>7
    <2>2. Overlaps(n, read) <=> read.hi > n.lo
      BY <1>6 DEF Overlaps
    <2> QED  BY <1>1, <1>6, <2>1, <2>2, ContinuationFields
  <1>9. readNext'.lo < readNext'.hi /\ ~Unused(readNext')
    BY <1>2, <1>6, <1>8 DEF Unused
  <1>10. ~Overlaps(n, read) => read.hi <= n.lo /\ read.hi <= pn
    <2>1. ~Overlaps(n, read) => read.hi <= n.lo
      BY <1>2, <1>6 DEF Overlaps
    <2>2. ~timer => Unused(readNext)
      BY DEF ReadInv
    <2>3. timer => readNext.min = read.hi
      BY DEF ReadInv
    <2> QED  BY <1>1, <1>2, <2>1, <2>2, <2>3
  <1>11. \A p \in accepted :
            p.epoch = readNext.epoch => readNext'.lo <= p.pn /\ p.pn < readNext'.hi
    <2>1. \A p \in accepted : p.epoch = readNext.epoch => ~Unused(readNext)
      BY <1>2, <1>4, <1>5 DEF Unused
    <2>2. ~Unused(readNext) => readNext'.lo <= readNext.lo
      BY <1>1, <1>2, <1>8
    <2>3. readNext'.lo \in Nat /\ readNext.hi <= readNext'.hi
      BY <1>1, <1>2, <1>8, Numbers
    <2> QED  BY <1>2, <1>4, <1>5, <1>8, <2>1, <2>2, <2>3
  <1>12. packet \in accepted' /\ ~Overlaps(n, read) =>
            readNext'.lo <= packet.pn /\ packet.pn < readNext'.hi
    BY <1>1, <1>2, <1>8, <1>10
  <1>13. accepted' = accepted \/ (accepted' = accepted \cup {packet} /\ ~Overlaps(n, read))
    BY <1>7
  <1>14. \A p \in accepted' :
           /\ p.epoch <= readNext'.epoch
           /\ p.epoch = read.epoch => p.pn < read.hi
           /\ p.epoch + 1 = read.epoch => p.pn < read.min
           /\ p.epoch = readNext'.epoch => readNext'.lo <= p.pn /\ p.pn < readNext'.hi
    BY <1>2, <1>3, <1>5, <1>8, <1>11, <1>12, <1>13
  <1>15. ReadInv'
    <2>1. readNext'.lo <= readNext'.hi
      BY <1>2, <1>6, <1>8
    <2> QED  BY <1>3, <1>7, <1>8, <1>9, <1>14, <2>1 DEF ReadInv
  <1>16. ConsecutiveKeysOrdered'
    <2>1. CASE accepted' = accepted
      BY <2>1 DEF ConsecutiveKeysOrdered
    <2>2. CASE accepted' = accepted \cup {packet} /\ ~Overlaps(n, read)
      <3>1. \A q \in accepted : q.epoch + 1 = e => q.pn < pn
        BY <1>2, <1>3, <1>4, <1>5, <1>10, <2>2
      <3>2. \A q \in accepted : e + 1 # q.epoch
        BY <1>2, <1>3, <1>4, <1>5
      <3>3. e + 1 # e
        OBVIOUS
      <3> QED  BY <2>2, <3>1, <3>2, <3>3 DEF ConsecutiveKeysOrdered
    <2> QED  BY <1>13, <2>1, <2>2
  <1> QED  BY <1>15, <1>16

\* Every step keeps the packets accepted in order.
LEMMA ReadStep ==
    ASSUME TypeOK, KeysInStep, ReadInv, ConsecutiveKeysOrdered, [Next]_vars
    PROVE  ReadInv' /\ ConsecutiveKeysOrdered'
  <1>1. ASSUME UNCHANGED <<read, readNext, timer, accepted>> PROVE ReadInv' /\ ConsecutiveKeysOrdered'
    BY <1>1 DEF ReadInv, ConsecutiveKeysOrdered
  <1>2. ASSUME InstallApplication PROVE ReadInv' /\ ConsecutiveKeysOrdered'
    <2>1. accepted' = {} /\ timer' = FALSE
      <3>1. read = NoKeys /\ UNCHANGED <<accepted, timer>>
        BY <1>2, NoKeysAssumption DEF InstallApplication, TypeOK
      <3>2. timer = FALSE
        BY <1>2 DEF InstallApplication, KeysInStep, TypeOK
      <3> QED  BY <3>1, <3>2 DEF ReadInv
    <2>2. /\ read' = NewKeys(AppData, ReadLimit) /\ read' \in Dx /\ read'.inv \in Nat
          /\ read'.epoch = AppData
      BY <1>2, KeyAssumption DEF InstallApplication, NewKeys, AppData, Dx
    <2>3. /\ readNext'.lo = read'.hi /\ readNext'.hi = read'.hi /\ readNext'.min = read'.hi
      BY <1>2, <2>2, KeysMade DEF InstallApplication
    <2>4. read'.hi \in Nat
      BY <2>2, Numbers
    <2> QED
      BY <2>1, <2>2, <2>3, <2>4, NoKeysAssumption DEF ReadInv, ConsecutiveKeysOrdered, Unused, AppData
  <1>3. ASSUME RotateReadKeys PROVE ReadInv' /\ ConsecutiveKeysOrdered'
    <2>1. /\ timer /\ timer' = FALSE /\ UNCHANGED accepted /\ read' = readNext
          /\ readNext' = NextKeys(readNext, readNext.inv)
      BY <1>3 DEF RotateReadKeys
    <2>2. read \in Dx /\ readNext \in Dx /\ readNext.inv \in Nat /\ read # NoKeys
      BY <2>1, NoKeysAssumption DEF TypeOK, KeysInStep, Dx
    <2>3. /\ readNext'.lo = readNext.hi /\ readNext'.hi = readNext.hi
          /\ readNext'.min = readNext.hi /\ readNext'.epoch = readNext.epoch + 1
      BY <2>1, <2>2, KeysMade
    <2>4. readNext.epoch = read.epoch + 1 /\ readNext.min = read.hi /\ read.epoch >= AppData
      BY <2>1, <2>2 DEF KeysInStep, ReadInv
    <2>5. readNext.hi \in Nat /\ read.epoch \in Nat
      BY <2>2, Numbers
    <2>6. \A p \in accepted : p.epoch \in Nat /\ p.pn \in Nat
      BY Numbers DEF TypeOK
    <2>7. \A p \in accepted :
            /\ p.epoch <= readNext.epoch
            /\ p.epoch = read.epoch => p.pn < read.hi
            /\ p.epoch = readNext.epoch => p.pn < readNext.hi
      BY <2>2 DEF ReadInv
    <2>8. \A p \in accepted :
            /\ p.epoch <= readNext'.epoch
            /\ p.epoch = readNext.epoch => p.pn < readNext.hi
            /\ p.epoch + 1 = readNext.epoch => p.pn < readNext.min
            /\ p.epoch # readNext'.epoch
      BY <2>3, <2>4, <2>5, <2>6, <2>7
    <2>9. ReadInv'
      <3>1. read' # NoKeys /\ read'.epoch >= AppData /\ readNext'.lo <= readNext'.hi
        BY <2>1, <2>2, <2>3, <2>4, <2>5, NoKeysAssumption DEF AppData
      <3> QED  BY <2>1, <2>3, <2>8, <3>1 DEF ReadInv, Unused
    <2> QED  BY <2>1, <2>9 DEF ConsecutiveKeysOrdered
  <1>4. ASSUME NEW e \in Nat, NEW pn \in Nat, DecryptRejected(e, pn)
        PROVE  ReadInv' /\ ConsecutiveKeysOrdered'
    <2>1. /\ read \in Dx /\ readNext \in Dx /\ UNCHANGED <<timer, accepted>> /\ read # NoKeys
          /\ read' = read \/ read' = [read EXCEPT !.inv = @ - 1]
          /\ readNext' = readNext \/ readNext' = [readNext EXCEPT !.inv = @ - 1]
      BY <1>4, NoKeysAssumption DEF DecryptRejected, TypeOK
    <2>2. /\ read'.epoch = read.epoch /\ read'.hi = read.hi /\ read'.min = read.min
          /\ readNext'.epoch = readNext.epoch /\ readNext'.lo = readNext.lo
          /\ readNext'.hi = readNext.hi /\ readNext'.min = readNext.min
      BY <2>1 DEF Dx
    <2>3. read' # NoKeys
      <3>1. CASE read' = read
        BY <2>1, <3>1
      <3>2. CASE Rx(e).inv > 0 /\ Rx(e) = read /\ read' = [read EXCEPT !.inv = @ - 1]
        <4>1. read' \in Dx
          BY <2>1, <3>2 DEF Dx
        <4> QED  BY <4>1, NoKeysAssumption
      <3> QED  BY <1>4, <3>1, <3>2 DEF DecryptRejected, Rx
    <2> QED  BY <2>1, <2>2, <2>3 DEF ReadInv, ConsecutiveKeysOrdered, Unused
  <1>5. ASSUME NEW e \in Nat, NEW pn \in Nat, Decrypt(e, pn)
        PROVE  ReadInv' /\ ConsecutiveKeysOrdered'
    <2>1. /\ read \in Dx /\ readNext \in Dx /\ write # NoKeys /\ read # NoKeys
          /\ timer \in BOOLEAN
      BY <1>5, NoKeysAssumption DEF Decrypt, TypeOK
    <2>2. PICK packet \in Packet : packet = [epoch |-> e, pn |-> pn]
      BY DEF Packet
    <2>3. packet.epoch = e /\ packet.pn = pn
      BY <2>2
    <2>4. PICK r \in Dx, n \in Dx :
             /\ read' = r /\ readNext' = (IF timer' THEN Continuation(n, r) ELSE n)
             /\ \/ /\ e = read.epoch /\ pn >= read.min /\ read.inv > 0
                   /\ r = Used(read, pn) /\ n = readNext
                   /\ timer' = (timer \/ NeedsUpdate(r))
                \/ /\ e = readNext.epoch /\ pn >= readNext.min /\ readNext.inv > 0
                   /\ r = read /\ n = Used(readNext, pn)
                   /\ timer' = (timer \/ NeedsUpdate(n))
             /\ accepted' = IF timer' => ~Overlaps(n, r)
                              THEN accepted \cup {packet} ELSE accepted
      BY <1>5, <2>2, DecryptKeys
    <2>5. read' # NoKeys
      BY <2>4, NoKeysAssumption
    <2>6. CASE e = read.epoch /\ r = Used(read, pn) /\ n = readNext
                /\ pn >= read.min /\ read.inv > 0 /\ timer' = (timer \/ NeedsUpdate(r))
      <3>1. timer' \in BOOLEAN /\ (timer => timer')
        BY <2>1, <2>6 DEF NeedsUpdate
      <3> QED  BY <2>1, <2>3, <2>4, <2>5, <2>6, <3>1, DecryptCurrent
    <2>7. CASE e = readNext.epoch /\ r = read /\ n = Used(readNext, pn)
                /\ pn >= readNext.min /\ readNext.inv > 0 /\ timer' = (timer \/ NeedsUpdate(n))
      BY <2>1, <2>3, <2>4, <2>5, <2>7, DecryptNext
    <2> QED  BY <2>4, <2>6, <2>7
  <1>6. ASSUME NEW size, NEW acked,
               \/ Enable0rtt \/ Discard0rtt \/ Encrypt(size) \/ Exhausted(size)
               \/ InitiateKeyUpdate(acked) \/ AutoUpdate \/ UNCHANGED vars
        PROVE  ReadInv' /\ ConsecutiveKeysOrdered'
    BY <1>1, <1>6
    DEF Enable0rtt, Discard0rtt, Encrypt, Exhausted, InitiateKeyUpdate, AutoUpdate, vars
  <1>7. AppData .. MaxEpoch \subseteq Nat /\ 0 .. MaxPn - 1 \subseteq Nat
    BY KeyAssumption DEF AppData
  <1> QED
    BY <1>2, <1>3, <1>4, <1>5, <1>6, <1>7 DEF Next

\* A packet accepted with the keys of one epoch is numbered below every one accepted with
\* those of the next epoch, however packets are delayed, duplicated or wrongly numbered
\* (CryptoDxState::used and continuation, CryptoStates::check_pn_overlap).  No more is true:
\* EpochsOrdered, a part of OverlapExact, fails over two updates.
THEOREM ConsecutivePacketsOrdered == Spec => []ConsecutiveKeysOrdered
  <1>1. Init => ReadInv /\ ConsecutiveKeysOrdered
    BY DEF Init, ReadInv, ConsecutiveKeysOrdered
  <1>2. TypeOK /\ KeysInStep /\ ReadInv /\ ConsecutiveKeysOrdered /\ [Next]_vars
          => TypeOK' /\ KeysInStep' /\ ReadInv' /\ ConsecutiveKeysOrdered'
    BY TypeStep, KeysInStepStep, ReadStep
  <1> QED  BY <1>1, <1>2, InitInStep, PTL DEF Spec

(***************************************************************************)
(* The limit on what one key encrypts.                                     *)
(***************************************************************************)

\* Multiplying keeps the order.
LEMMA TimesOrder ==
    ASSUME NEW a \in Nat, NEW b \in Nat, NEW k \in Nat, a <= b
    PROVE  a * k <= b * k
  <1>1. PICK d \in Nat : b = a + d
    BY SMT
  <1>2. b * k = a * k + d * k /\ d * k \in Nat /\ a * k \in Nat
    BY <1>1, SMT
  <1> QED  BY <1>2, SMT

\* What is left of a division, times the divisor, is no more than was divided.
LEMMA DivTimes ==
    ASSUME NEW a \in Nat, NEW q \in Nat \ {0}
    PROVE  (a \div q) * q <= a
  BY SMT

\* A multiple is its quotient times the divisor.
LEMMA MultipleIs ==
    ASSUME NEW s \in Nat, NEW k \in Nat \ {0}, s % k = 0
    PROVE  s = (s \div k) * k
  BY SMT

\* When a packet is larger than any before, what may still be encrypted does not grow: the
\* count shrinks at least as much as the packets grow.
LEMMA SpendShrinks ==
    ASSUME NEW a \in Nat, NEW k \in Nat \ {0}, NEW s \in Nat, s > k, s % k = 0
    PROVE  (a \div (s \div k)) * s <= a * k
  <1> DEFINE q == s \div k
             m == a \div q
  <1>1. q \in Nat \ {0} /\ s = q * k
    BY MultipleIs, SMT
  <1>2. m \in Nat /\ m * q <= a
    BY <1>1, DivNat, DivTimes
  <1> HIDE DEF q, m
  <1>3. m * q \in Nat
    BY <1>1, <1>2, SMT
  <1>4. (m * q) * k <= a * k
    BY <1>2, <1>3, TimesOrder
  <1>5. m * (q * k) = (m * q) * k
    BY <1>1, <1>2, SMT
  <1> QED  BY <1>1, <1>4, <1>5 DEF m, q

\* What the keys in use may still encrypt, at the largest size seen, fits the limit with
\* what they have encrypted.
Lengths == Sizes \cup {1}
Fits(dx, done) == dx.large \in Lengths /\ done + dx.inv * dx.large <= WriteLimit
LimitInv ==
    /\ Tx = NoKeys => load = 0
    /\ Tx # NoKeys => Fits(Tx, load)

\* Of two lengths the larger is a multiple of the smaller.
LEMMA LengthsDivide ==
    ASSUME NEW k \in Lengths, NEW s \in Sizes
    PROVE  k \in Nat \ {0} /\ s \in Nat \ {0} /\ (s > k => s % k = 0)
  <1>1. k \in Nat \ {0} /\ s \in Nat \ {0}
    BY KeyAssumption DEF Lengths
  <1>2. CASE k \in Sizes
    BY <1>1, <1>2, SizesAssumption
  <1>3. CASE k = 1
    BY <1>1, <1>3
  <1> QED  BY <1>1, <1>2, <1>3 DEF Lengths

\* encrypt() adjusts the count before it is used up, so that what is left fits.
LEMMA SpendFits ==
    ASSUME NEW done \in Nat, NEW dx \in Dx, NEW size \in Sizes, Fits(dx, done)
    PROVE  Fits(Spend(dx, size), done) /\ size <= Spend(dx, size).large
  <1>1. dx.large \in Lengths /\ dx.inv \in Nat /\ done + dx.inv * dx.large <= WriteLimit
    BY DEF Fits, Dx
  <1>2. /\ dx.large \in Nat \ {0} /\ size \in Nat \ {0}
        /\ (size > dx.large => size % dx.large = 0)
    BY <1>1, LengthsDivide
  <1>3. CASE size > dx.large
    <2>1. /\ Spend(dx, size).inv = dx.inv \div (size \div dx.large)
          /\ Spend(dx, size).large = size
      BY <1>3 DEF Spend, Dx
    <2>2. Spend(dx, size).inv * size <= dx.inv * dx.large
      BY <1>1, <1>2, <1>3, <2>1, SpendShrinks
    <2>3. Spend(dx, size).inv \in Nat
      BY SpendFields DEF Dx
    <2>4. Spend(dx, size).inv * size \in Nat /\ dx.inv * dx.large \in Nat /\ WriteLimit \in Nat
      BY <1>1, <1>2, <2>3, KeyAssumption, SMT
    <2>5. done + Spend(dx, size).inv * size <= WriteLimit
      BY <1>1, <2>2, <2>4
    <2> QED  BY <1>2, <2>1, <2>5 DEF Fits, Lengths
  <1>4. CASE ~(size > dx.large)
    <2>1. Spend(dx, size).inv = dx.inv /\ Spend(dx, size).large = dx.large
      BY <1>4 DEF Spend, Dx
    <2> QED  BY <1>1, <1>2, <1>4, <2>1 DEF Fits
  <1> QED  BY <1>3, <1>4

\* Fresh keys may encrypt the whole limit.
LEMMA FreshFits ==
    ASSUME NEW dx \in Dx, dx.inv = WriteLimit, dx.large = 1
    PROVE  Fits(dx, 0)
  BY KeyAssumption DEF Fits, Lengths

\* Every step keeps what may still be encrypted within the limit.
LEMMA LimitStep ==
    ASSUME TypeOK, LimitInv, [Next]_vars
    PROVE  LimitInv'
  <1>1. ASSUME UNCHANGED <<zeroRtt, write, load>> PROVE LimitInv'
    BY <1>1 DEF LimitInv, Tx
  <1>2. ASSUME Enable0rtt PROVE LimitInv'
    <2>1. /\ zeroRtt' \in Dx /\ zeroRtt'.inv = WriteLimit /\ zeroRtt'.large = 1
          /\ write' = NoKeys /\ load' = 0
      BY <1>2, KeyAssumption DEF Enable0rtt, NewKeys, ZeroRtt, Dx, LimitInv, Tx
    <2>2. Fits(zeroRtt', 0)
      BY <2>1, FreshFits
    <2> QED  BY <2>1, <2>2 DEF LimitInv, Tx
  <1>3. ASSUME Discard0rtt PROVE LimitInv'
    <2>1. zeroRtt' = NoKeys /\ write' = NoKeys /\ load' = 0
      BY <1>3, NoKeysAssumption DEF Discard0rtt, TypeOK
    <2> QED  BY <2>1 DEF LimitInv, Tx
  <1>4. ASSUME InstallApplication PROVE LimitInv'
    <2> DEFINE app == NewKeys(AppData, WriteLimit)
    <2>1. app \in Dx /\ app.inv = WriteLimit /\ app.large = 1
      BY KeyAssumption DEF NewKeys, Dx, AppData
    <2>2. write' = (IF zeroRtt = NoKeys THEN app ELSE Continuation(app, zeroRtt)) /\ load' = 0
      BY <1>4 DEF InstallApplication
    <2> HIDE DEF app
    <2>3. write' \in Dx /\ write'.inv = WriteLimit /\ write'.large = 1
      BY <2>1, <2>2, ContinuationFields DEF Continuation, Dx, TypeOK
    <2>4. write' # NoKeys /\ Fits(write', 0)
      BY <2>3, FreshFits, NoKeysAssumption
    <2> QED  BY <2>2, <2>4 DEF LimitInv, Tx
  <1>5. ASSUME NEW size \in Sizes, Encrypt(size) PROVE LimitInv'
    <2> DEFINE dx == Spend(Tx, size)
               new == Used(dx, Tx.hi)
    <2>1. Tx \in Dx /\ Tx # NoKeys /\ Tx.hi \in Nat /\ load \in Nat /\ Fits(Tx, load)
      BY <1>5 DEF Encrypt, Tx, TypeOK, Dx, LimitInv
    <2>2. dx \in Dx /\ dx.inv > 0 /\ Fits(dx, load) /\ size <= dx.large
      BY <1>5, <2>1, SpendFields, SpendFits DEF Encrypt
    <2>3. SetTx(new) /\ load' = load + size /\ size \in Nat
      BY <1>5, KeyAssumption DEF Encrypt
    <2> HIDE DEF dx
    <2>4. new \in Dx /\ new.inv = dx.inv - 1 /\ new.large = dx.large
      BY <2>1, <2>2, UsedFields
    <2> HIDE DEF new
    <2>5. Fits(new, load')
      <3>1. dx.inv \in Nat /\ dx.large \in Nat /\ dx.large \in Lengths
            /\ load + dx.inv * dx.large <= WriteLimit
        BY <2>2 DEF Dx, Fits
      <3>2. dx.inv * dx.large = (dx.inv - 1) * dx.large + dx.large
            /\ dx.inv * dx.large \in Int /\ (dx.inv - 1) * dx.large \in Int
        BY <3>1, SMT
      <3>3. load' + new.inv * new.large <= WriteLimit
        BY <2>1, <2>2, <2>3, <2>4, <3>1, <3>2, KeyAssumption
      <3> QED  BY <2>4, <3>1, <3>3 DEF Fits
    <2>6. new # NoKeys
      BY <2>4, NoKeysAssumption
    <2>7. Tx' = new
      BY <2>1, <2>3, <2>6 DEF SetTx, Tx
    <2> QED  BY <2>5, <2>6, <2>7 DEF LimitInv
  <1>6. ASSUME NEW size \in Sizes, Exhausted(size) PROVE LimitInv'
    <2>1. Tx \in Dx /\ Tx # NoKeys /\ load \in Nat /\ Fits(Tx, load)
      BY <1>6 DEF Exhausted, Tx, TypeOK, LimitInv
    <2>2. Spend(Tx, size) \in Dx /\ Fits(Spend(Tx, size), load)
      BY <2>1, SpendFields, SpendFits
    <2>3. SetTx(Spend(Tx, size)) /\ load' = load
      BY <1>6 DEF Exhausted
    <2>4. Tx' = Spend(Tx, size)
      BY <2>2, <2>3, NoKeysAssumption DEF SetTx, Tx
    <2> QED  BY <2>1, <2>2, <2>3, <2>4, NoKeysAssumption DEF LimitInv
  <1>7. ASSUME write \in Dx, UpdateWrite PROVE LimitInv'
    <2>1. write' = NextKeys(write, WriteLimit) /\ load' = 0
      BY <1>7 DEF UpdateWrite
    <2>2. write' \in Dx /\ write'.inv = WriteLimit /\ write'.large = 1
      BY <1>7, <2>1, KeysMade, KeyAssumption DEF NextKeys
    <2>3. write' # NoKeys /\ Fits(write', 0)
      BY <2>2, FreshFits, NoKeysAssumption
    <2> QED  BY <2>1, <2>3 DEF LimitInv, Tx
  <1>8. ASSUME AutoUpdate \/ \E acked : InitiateKeyUpdate(acked) PROVE LimitInv'
    <2>1. write \in Dx /\ UpdateWrite
      BY <1>8 DEF AutoUpdate, InitiateKeyUpdate, TypeOK
    <2> QED  BY <1>7, <2>1
  <1>9. ASSUME NEW e, NEW pn, Decrypt(e, pn) PROVE LimitInv'
    <2>1. write \in Dx
      BY <1>9 DEF Decrypt, TypeOK
    <2>2. UpdateWrite \/ UNCHANGED <<write, load>>
      BY <1>9 DEF Decrypt
    <2>3. UNCHANGED zeroRtt
      BY <1>9 DEF Decrypt
    <2> QED  BY <1>1, <1>7, <2>1, <2>2, <2>3
  <1>10. ASSUME RotateReadKeys \/ (\E e, pn : DecryptRejected(e, pn)) \/ UNCHANGED vars PROVE LimitInv'
    BY <1>1, <1>10 DEF RotateReadKeys, DecryptRejected, vars
  <1> QED
    BY <1>2, <1>3, <1>4, <1>5, <1>6, <1>8, <1>9, <1>10 DEF Next

\* What one key encrypts stays within the limit of its cipher, whatever the sizes of the
\* packets and the order in which they grow.
THEOREM LimitKept == Spec => []WithinWriteLimit
  <1>1. Init => LimitInv
    BY DEF Init, LimitInv, Tx
  <1>2. TypeOK /\ LimitInv /\ [Next]_vars => LimitInv'
    BY LimitStep
  <1>3. TypeOK /\ LimitInv => WithinWriteLimit
    <2> SUFFICES ASSUME TypeOK, LimitInv PROVE WithinWriteLimit
      OBVIOUS
    <2>1. CASE Tx = NoKeys
      BY <2>1, KeyAssumption DEF LimitInv, WithinWriteLimit
    <2>2. CASE Tx # NoKeys
      <3>1. Tx.inv \in Nat /\ Tx.large \in Nat /\ load \in Nat
        BY <2>2 DEF Tx, TypeOK, Dx
      <3>2. Tx.inv * Tx.large \in Nat
        BY <3>1, SMT
      <3> QED  BY <2>2, <3>1, <3>2, KeyAssumption DEF LimitInv, Fits, WithinWriteLimit
    <2> QED  BY <2>1, <2>2
  <1> QED  BY <1>1, <1>2, <1>3, TypeCorrect, PTL DEF Spec
=============================================================================
