---------------------------- MODULE CryptoProofs ----------------------------
(***************************************************************************)
(* Proofs about Crypto, for every set of versions, every first packet      *)
(* number and every number of packets and tickets.                         *)
(*                                                                         *)
(* AgentInv ties TLS's state to what NSS waits for and to the step that is *)
(* due; SecretsInv says which secrets are still in the holder; NumbersInv  *)
(* adds to NumbersFresh when there are keys, so that a step that makes     *)
(* them is known to happen only before the first packet or as a            *)
(* continuation.                                                           *)
(***************************************************************************)
EXTENDS Crypto, WellFoundedInduction, SequenceTheorems, TLAPS

AgentInv ==
    /\ state = "New" => ~nss.started
    /\ ~nss.started => nss.fed = 0 /\ secrets = {} /\ peer = <<>> /\ step \in {"init", "idle"}
    /\ authRequired => Asking(nss)
    /\ AuthenticationNeeded => authRequired
    /\ state = "Authenticated" => Asking(nss) /\ ~authRequired /\ verdict # "none"
    /\ closed = None /\ state = "Authenticated" => step = "resume"
    /\ nss.verified => verdict = "ok"
    /\ nss.rejected => ~nss.resumed
    /\ state = "Complete" => Done(nss) /\ ~nss.rejected
    /\ closed = None /\ Done(nss) => state = "Complete"
    /\ closed = None /\ Asking(nss) => AuthenticationNeeded \/ state = "Authenticated"
    /\ app # {} => state = "Complete"
    /\ step = "resume" => state = "Authenticated"
    /\ closed # None => step = "idle"
    /\ state = "Failed" => closed # None

AppSecrets == {<<"read", "ApplicationData">>, <<"write", "ApplicationData">>}

SecretsInv ==
    /\ <<"write", "Handshake">> \in secrets
         => <<"read", "Handshake">> \in secrets /\ installed = 0 /\ nss.fed >= ServerHello
    /\ step = "enable_0rtt" => nss.fed = 0 /\ (nss.early => <<"write", "ZeroRtt">> \in secrets)
    /\ step = "application" => state = "Complete" /\ app = {} /\ AppSecrets \subseteq secrets
    /\ closed = None /\ state = "Complete"
         => step = "application" \/ (app = {"read", "write"} /\ ~zeroRtt)
    /\ installed \in {0, 1}
    /\ installed = 1 => nss.fed >= ServerHello
    /\ nss.fed >= EncryptedExtensions => installed = 1
    /\ closed # "internal"

AllInitials == \A v \in Versions : initials[v] # None
Ordered(dx) == dx.lo <= dx.hi

NumbersInv ==
    /\ NumbersFresh
    /\ \A v \in Versions : initials[v] # None => Ordered(initials[v].tx)
    /\ handshake # None => Ordered(handshake.tx)
    /\ installed = 0 => handshake = None /\ last["Handshake"] = -1
    /\ installed = 1 /\ handshake = None => InitialsIsEmpty
    /\ installed = 0 /\ closed = None /\ step # "init" => AllInitials
    /\ step = "init" => nss.fed = 0 /\ (AllInitials \/ (InitialsIsEmpty /\ last["Initial"] = -1))
    /\ step = "confirm_version" => installed = 0

IInv == TypeOK /\ AgentInv /\ SecretsInv /\ NumbersInv

NssType == [started : BOOLEAN, fed : 0 .. Finished, verified : BOOLEAN, early : BOOLEAN,
            resumed : BOOLEAN, rejected : BOOLEAN]

-----------------------------------------------------------------------------
(***************************************************************************)
(* Packet numbers.                                                         *)
(***************************************************************************)

\* continuation(), field by field.
LEMMA ContinuationPns ==
    ASSUME NEW dx \in Pns, NEW prev \in Pns
    PROVE  /\ Continuation(dx, prev) \in Pns
           /\ Continuation(dx, prev).lo = IF Overlaps(dx, prev) THEN dx.lo ELSE prev.hi
           /\ Continuation(dx, prev).hi = IF Unused(dx) THEN prev.hi ELSE dx.hi
  BY DEF Continuation, Pns

\* A continuation of an ordered range that does not overlap is ordered, and goes on after
\* the numbers that were used.
LEMMA ContinuationOrdered ==
    ASSUME NEW dx \in Pns, NEW prev \in Pns, Ordered(dx), ~Overlaps(dx, prev)
    PROVE  Ordered(Continuation(dx, prev)) /\ Continuation(dx, prev).hi >= prev.hi
  <1>1. dx.lo \in Nat /\ dx.hi \in Nat /\ prev.hi \in Nat
    BY DEF Pns
  <1> QED  BY <1>1, ContinuationPns DEF Ordered, Overlaps, Unused

\* used(), field by field.
LEMMA UsedPnPns ==
    ASSUME NEW dx \in Pns, NEW pn \in Nat
    PROVE  /\ UsedPn(dx, pn) \in Pns
           /\ UsedPn(dx, pn).lo = IF Unused(dx) THEN pn ELSE dx.lo
           /\ UsedPn(dx, pn).hi = IF pn + 1 > dx.hi THEN pn + 1 ELSE dx.hi
  <1>1. PICK lo \in Nat : lo = IF Unused(dx) THEN pn ELSE dx.lo
    BY DEF Pns
  <1>2. PICK hi \in Nat : hi = IF pn + 1 > dx.hi THEN pn + 1 ELSE dx.hi
    BY DEF Pns
  <1>3. UsedPn(dx, pn) = [dx EXCEPT !.lo = lo, !.hi = hi]
    BY <1>1, <1>2, Zenon DEF UsedPn
  <1> QED  BY <1>1, <1>2, <1>3 DEF Pns

\* Sending the next number keeps a range ordered and moves its end up by one.
LEMMA SendPns ==
    ASSUME NEW dx \in Pns, Ordered(dx)
    PROVE  /\ UsedPn(dx, dx.hi) \in Pns /\ Ordered(UsedPn(dx, dx.hi))
           /\ UsedPn(dx, dx.hi).hi = dx.hi + 1
  <1>1. dx.lo \in Nat /\ dx.hi \in Nat
    BY DEF Pns
  <1>2. /\ UsedPn(dx, dx.hi) \in Pns
        /\ UsedPn(dx, dx.hi).lo = IF Unused(dx) THEN dx.hi ELSE dx.lo
        /\ UsedPn(dx, dx.hi).hi = IF dx.hi + 1 > dx.hi THEN dx.hi + 1 ELSE dx.hi
    BY <1>1, UsedPnPns
  <1> QED  BY <1>1, <1>2 DEF Ordered, Unused

\* New keys.
LEMMA KeyPairKeys ==
    ASSUME NEW first \in Nat
    PROVE  /\ KeyPair(first) \in Keys /\ KeyPair(first) # None
           /\ KeyPair(first).tx = Numbers(first) /\ Numbers(first) \in Pns
           /\ Ordered(KeyPair(first).tx) /\ Unused(Numbers(first))
           /\ KeyPair(first).tx.hi = first
  BY KeysAssumption DEF KeyPair, Numbers, Keys, Pns, Ordered, Unused

-----------------------------------------------------------------------------
(***************************************************************************)
(* TLS.                                                                    *)
(***************************************************************************)

\* Which secrets NSS has derived.
LEMMA DerivedIs ==
    ASSUME NEW n \in NssType
    PROVE  /\ Derived(n) \subseteq {"read", "write"} \X {"ZeroRtt", "Handshake", "ApplicationData"}
           /\ <<"write", "ZeroRtt">> \in Derived(n) <=> n.started /\ n.early
           /\ <<"write", "Handshake">> \in Derived(n) <=> n.fed >= ServerHello
           /\ <<"read", "Handshake">> \in Derived(n) <=> n.fed >= ServerHello
           /\ AppSecrets \subseteq Derived(n) <=> Done(n)
           /\ <<"read", "ApplicationData">> \in Derived(n) <=> Done(n)
           /\ <<"write", "ApplicationData">> \in Derived(n) <=> Done(n)
  <1>1. Derived(n) \subseteq {"read", "write"} \X {"ZeroRtt", "Handshake", "ApplicationData"}
    BY DEF Derived
  <1>2. /\ <<"write", "ZeroRtt">> \in Derived(n) <=> n.started /\ n.early
        /\ <<"write", "Handshake">> \in Derived(n) <=> n.fed >= ServerHello
        /\ <<"read", "Handshake">> \in Derived(n) <=> n.fed >= ServerHello
    BY DEF Derived
  <1>3. /\ <<"read", "ApplicationData">> \in Derived(n) <=> Done(n)
        /\ <<"write", "ApplicationData">> \in Derived(n) <=> Done(n)
    BY DEF Derived
  <1> QED  BY <1>1, <1>2, <1>3 DEF AppSecrets

\* What a call of handshake_raw leaves, whatever its outcome.
LEMMA RawOutcome ==
    ASSUME TypeOK, AgentInv, closed = None, state # "Complete",
           NEW fed \in 0 .. Finished, fed >= nss.fed, NEW res, HandshakeRaw(fed, res)
    PROVE  /\ nss' \in NssType /\ nss'.started /\ nss'.fed = fed
           /\ nss'.early = nss.early /\ nss'.resumed = nss.resumed /\ nss'.rejected = nss.rejected
           /\ nss'.verified => verdict = "ok"
           /\ Asking(nss) /\ state # "Authenticated" => Asking(nss')
           /\ Asking(nss') => Asking(nss) \/ fed >= Certificate
           /\ state = "Authenticated" /\ Asking(nss') => verdict # "ok"
           /\ state # "Authenticated" => nss'.verified = nss.verified
  <1>1. nss \in NssType /\ state \in States /\ verdict \in {"none", "ok", "bad"}
    BY DEF TypeOK, AgentTypeOK, NssType
  <1>2. PICK b \in BOOLEAN : b = (nss.verified \/ (state = "Authenticated" /\ verdict = "ok"))
    BY <1>1 DEF NssType
  <1>3. nss' = [nss EXCEPT !.started = TRUE, !.fed = fed, !.verified = b]
    BY <1>2, Zenon DEF HandshakeRaw
  <1>4. /\ nss' \in NssType /\ nss'.started = TRUE /\ nss'.fed = fed /\ nss'.verified = b
        /\ nss'.early = nss.early /\ nss'.resumed = nss.resumed /\ nss'.rejected = nss.rejected
    BY <1>1, <1>3 DEF NssType
  <1>5. nss.verified => verdict = "ok"
    BY DEF AgentInv
  <1> QED  BY <1>1, <1>2, <1>4, <1>5 DEF Asking, Certificate, Finished, NssType

\* The states and flags a call of handshake_raw leaves.  required is what update_state sees
\* in auth_required.
LEMMA RawStates ==
    ASSUME TypeOK, AgentInv, closed = None, state # "Complete",
           NEW fed \in 0 .. Finished, fed >= nss.fed, state = "New" => fed = 0,
           NEW res, HandshakeRaw(fed, res)
    PROVE  \/ /\ res = "ok" /\ authRequired' /\ Asking(nss') /\ ~Done(nss')
              /\ state' \in {"AuthenticationPending", "EchFallbackAuthenticationPending"}
              /\ NewSecrets(nss')
           \/ /\ res = "ok" /\ ~authRequired' /\ ~Asking(nss') /\ ~Done(nss')
              /\ state' = "InProgress" /\ NewSecrets(nss')
           \/ /\ res = "ok" /\ ~authRequired' /\ state' = "Complete" /\ Done(nss')
              /\ ~nss'.rejected /\ NewSecrets(nss')
           \/ /\ res = "error" /\ authRequired' /\ Asking(nss') /\ state' = state
              /\ state \notin {"New", "Authenticated"} /\ NewSecrets(nss') /\ alert' = alert
           \/ /\ res \in {"error", "EchRetry"} /\ state' = "Failed" /\ secrets' = secrets
              /\ authRequired' = authRequired /\ (authRequired => Asking(nss'))
  <1> DEFINE hook == Asking(nss') /\ ~Asking(nss)
  <1>1. /\ nss' \in NssType /\ nss'.fed = fed
        /\ Asking(nss) /\ state # "Authenticated" => Asking(nss')
        /\ state = "Authenticated" /\ Asking(nss') => verdict # "ok"
    BY RawOutcome
  <1>2. /\ authRequired \in BOOLEAN /\ state \in States /\ verdict \in {"none", "ok", "bad"}
        /\ authRequired => Asking(nss) /\ state # "Authenticated"
        /\ AuthenticationNeeded => authRequired
        /\ state = "Authenticated" => Asking(nss) /\ verdict # "none"
        /\ Asking(nss) => AuthenticationNeeded \/ state = "Authenticated"
    BY DEF TypeOK, AgentTypeOK, AgentInv
  <1>3. authRequired => Asking(nss')
    BY <1>1, <1>2
  <1>4. Asking(nss') => ~Done(nss')
    BY DEF Done
  <1>5. \/ state = "Authenticated" /\ verdict = "bad" /\ res = "error" /\ Fails
        \/ ~(state = "Authenticated" /\ verdict = "bad") /\ UpdateState(nss', hook, res)
    BY Zenon DEF HandshakeRaw
  <1>6. CASE Fails /\ res \in {"error", "EchRetry"}
    BY <1>3, <1>6 DEF Fails, AlertSent
  <1>7. CASE ~(state = "Authenticated" /\ verdict = "bad") /\ Blocked(nss', authRequired \/ hook, res)
    <2>1. CASE authRequired \/ hook
      <3>1. Asking(nss')
        BY <1>3, <2>1
      <3>2. state # "New"
        <4>1. CASE state = "New"
          BY <1>1, <3>1, <4>1 DEF Asking, Certificate, NssType
        <4> QED  BY <4>1
      <3>3. state # "Authenticated"
        BY <1>2, <2>1
      <3> HIDE DEF hook
      <3> QED  BY <1>4, <1>7, <2>1, <3>1, <3>2, <3>3 DEF Blocked, Pending
    <2>2. CASE ~(authRequired \/ hook)
      <3>1. ~Asking(nss')
        <4>1. CASE state = "Authenticated"
          BY <1>1, <1>2, <1>7, <4>1
        <4>2. CASE state # "Authenticated"
          BY <1>2, <2>2, <4>2
        <4> QED  BY <4>1, <4>2
      <3> HIDE DEF hook
      <3> QED  BY <1>7, <2>2, <3>1 DEF Blocked
    <2> QED  BY <2>1, <2>2
  <1>8. CASE /\ Done(nss') /\ ~nss'.rejected /\ res = "ok" /\ state' = "Complete"
             /\ NewSecrets(nss') /\ UNCHANGED <<authRequired, alert>>
    BY <1>3, <1>4, <1>8
  <1> QED  BY <1>5, <1>6, <1>7, <1>8 DEF UpdateState

\* Secrets after a call that did not end in a failure of NSS.
LEMMA RawSecrets ==
    ASSUME TypeOK, AgentInv, SecretsInv, NEW n \in NssType, n.fed >= nss.fed, NewSecrets(n),
           nss \in NssType
    PROVE  /\ secrets' \subseteq {"read", "write"} \X {"ZeroRtt", "Handshake", "ApplicationData"}
           /\ <<"write", "Handshake">> \in secrets'
                => <<"read", "Handshake">> \in secrets' /\ installed = 0 /\ n.fed >= ServerHello
           /\ ~nss.started /\ n.started /\ n.early => <<"write", "ZeroRtt">> \in secrets'
           /\ Done(n) /\ ~Done(nss) => AppSecrets \subseteq secrets'
  <1>1. secrets' = secrets \cup (Derived(n) \ Derived(nss))
    BY DEF NewSecrets
  <1>2. secrets \subseteq {"read", "write"} \X {"ZeroRtt", "Handshake", "ApplicationData"}
    BY DEF TypeOK, AgentTypeOK
  <1>3. secrets' \subseteq {"read", "write"} \X {"ZeroRtt", "Handshake", "ApplicationData"}
    BY <1>1, <1>2, DerivedIs, Zenon
  <1>4. ASSUME <<"write", "Handshake">> \in secrets'
        PROVE  <<"read", "Handshake">> \in secrets' /\ installed = 0 /\ n.fed >= ServerHello
    <2>1. CASE <<"write", "Handshake">> \in secrets
      BY <1>1, <2>1 DEF SecretsInv, ServerHello, NssType
    <2>2. CASE <<"write", "Handshake">> \notin secrets
      <3>1. <<"write", "Handshake">> \in Derived(n) /\ <<"write", "Handshake">> \notin Derived(nss)
        BY <1>1, <1>4, <2>2
      <3>2. n.fed >= ServerHello /\ ~(nss.fed >= ServerHello)
        BY <3>1, DerivedIs
      <3>3. <<"read", "Handshake">> \in Derived(n) /\ <<"read", "Handshake">> \notin Derived(nss)
        BY <3>2, DerivedIs
      <3> QED  BY <1>1, <3>2, <3>3 DEF SecretsInv
    <2> QED  BY <2>1, <2>2
  <1>5. ASSUME ~nss.started, n.started, n.early  PROVE <<"write", "ZeroRtt">> \in secrets'
    BY <1>1, <1>5, DerivedIs
  <1>6. ASSUME Done(n), ~Done(nss)  PROVE AppSecrets \subseteq secrets'
    BY <1>1, <1>6, DerivedIs DEF AppSecrets
  <1> QED  BY <1>3, <1>4, <1>5, <1>6

\* A call of Crypto::handshake: TLS's part of the invariant.
LEMMA HandshakeKeeps ==
    ASSUME IInv, closed = None, state \notin {"Complete", "Failed"},
           NEW fed \in 0 .. Finished, fed >= nss.fed, state = "New" => fed = 0,
           NEW next \in {"enable_0rtt", "confirm_version", "install_keys", "idle"},
           next = "enable_0rtt" => ~nss.started /\ fed = 0,
           fed >= EncryptedExtensions => installed = 1,
           Handshake(fed, next)
    PROVE  /\ AgentTypeOK' /\ AgentInv' /\ SecretsInv'
           /\ step' \in {next, "idle", "application"} /\ closed' \in Reasons \cup {None}
           /\ UNCHANGED <<version, zeroRtt, app, installed, retries>>
  <1>1. PICK res \in {"ok", "error", "EchRetry"} :
          /\ HandshakeRaw(fed, res)
          /\ \/ /\ res = "ok" /\ UNCHANGED closed
                /\ step' = IF state' = "Complete" /\ app = {} THEN "application" ELSE next
             \/ res = "ok" /\ closed' = "records" /\ step' = "idle"
             \/ /\ res # "ok" /\ step' = "idle"
                /\ closed' = IF res # "EchRetry" /\ alert' THEN "alert" ELSE res
    BY DEF Handshake
  <1>2. UNCHANGED <<version, zeroRtt, app, installed, retries>>
    BY DEF Handshake
  <1>3. UNCHANGED <<verdict, echConfig, tickets, received, taken, bad>>
    BY <1>1 DEF HandshakeRaw
  <1>4. TypeOK /\ AgentInv /\ SecretsInv /\ nss \in NssType /\ app = {} /\ ~Done(nss)
    BY DEF IInv, TypeOK, AgentTypeOK, NssType, AgentInv
  <1>5. /\ nss' \in NssType /\ nss'.started /\ nss'.fed = fed
        /\ nss'.early = nss.early /\ nss'.resumed = nss.resumed /\ nss'.rejected = nss.rejected
        /\ nss'.verified => verdict = "ok"
    BY <1>1, <1>4, RawOutcome
  <1>6. alert' \in BOOLEAN
    <2>1. alert \in BOOLEAN
      BY <1>4 DEF TypeOK, AgentTypeOK
    <2>2. alert' = alert \/ alert' \in {alert, TRUE}
      BY <1>1, Zenon DEF HandshakeRaw, UpdateState, Blocked, Fails, AlertSent
    <2> QED  BY <2>1, <2>2
  <1>7. None \notin {"alert", "error", "EchRetry", "records"}
    BY CryptoAssumption DEF Reasons
  <1>8. /\ closed' = None => res = "ok"
        /\ closed' # None
             => step' = "idle" /\ closed' \in {"alert", "error", "EchRetry", "records"}
        /\ res # "ok" => closed' # None
    BY <1>1, <1>7
  <1>9. step' \in {next, "idle", "application"} /\ closed' \in Reasons \cup {None}
    BY <1>1, <1>8 DEF Reasons
  <1>10. \/ /\ res = "ok" /\ authRequired' /\ Asking(nss') /\ ~Done(nss')
            /\ state' \in {"AuthenticationPending", "EchFallbackAuthenticationPending"}
            /\ NewSecrets(nss')
         \/ /\ res = "ok" /\ ~authRequired' /\ ~Asking(nss') /\ ~Done(nss')
            /\ state' = "InProgress" /\ NewSecrets(nss')
         \/ /\ res = "ok" /\ ~authRequired' /\ state' = "Complete" /\ Done(nss')
            /\ ~nss'.rejected /\ NewSecrets(nss')
         \/ /\ res = "error" /\ authRequired' /\ Asking(nss') /\ state' = state
            /\ state \notin {"New", "Authenticated"} /\ NewSecrets(nss') /\ alert' = alert
         \/ /\ res \in {"error", "EchRetry"} /\ state' = "Failed" /\ secrets' = secrets
            /\ authRequired' = authRequired /\ (authRequired => Asking(nss'))
    BY <1>1, <1>4, RawStates
  <1>11. /\ secrets' \subseteq {"read", "write"} \X {"ZeroRtt", "Handshake", "ApplicationData"}
         /\ <<"write", "Handshake">> \in secrets'
              => <<"read", "Handshake">> \in secrets' /\ installed = 0 /\ nss'.fed >= ServerHello
         /\ res = "ok" /\ ~nss.started /\ nss'.early => <<"write", "ZeroRtt">> \in secrets'
         /\ res = "ok" /\ Done(nss') => AppSecrets \subseteq secrets'
    <2>1. CASE NewSecrets(nss')
      BY <1>4, <1>5, <2>1, RawSecrets
    <2>2. CASE secrets' = secrets /\ res # "ok"
      <3>1. /\ secrets \subseteq {"read", "write"} \X {"ZeroRtt", "Handshake", "ApplicationData"}
            /\ <<"write", "Handshake">> \in secrets
                 => <<"read", "Handshake">> \in secrets /\ installed = 0 /\ nss.fed >= ServerHello
        BY <1>4 DEF TypeOK, AgentTypeOK, SecretsInv
      <3> QED  BY <1>4, <1>5, <2>2, <3>1 DEF ServerHello, NssType
    <2> QED  BY <1>10, <2>1, <2>2
  <1>12. AgentTypeOK'
    <2>1. authRequired' \in BOOLEAN
      <3>1. authRequired \in BOOLEAN
        BY <1>4 DEF TypeOK, AgentTypeOK
      <3>2. \/ authRequired' = (authRequired \/ (Asking(nss') /\ ~Asking(nss)))
            \/ authRequired' = authRequired
        BY <1>1, Zenon DEF HandshakeRaw, UpdateState, Blocked, Fails, AlertSent
      <3> QED  BY <3>1, <3>2
    <2>2. state' \in States
      BY <1>4, <1>10 DEF States, TypeOK, AgentTypeOK
    <2> QED  BY <1>3, <1>4, <1>5, <1>6, <1>11, <2>1, <2>2 DEF TypeOK, AgentTypeOK, NssType
  <1>13. AgentInv'
    <2>1. nss'.rejected => ~nss'.resumed
      BY <1>4, <1>5 DEF AgentInv
    <2>2. authRequired' => Asking(nss')
      BY <1>10
    <2>3. state' # "New" /\ state' # "Authenticated"
      BY <1>10
    <2>4. AuthenticationNeeded' => authRequired'
      BY <1>4, <1>10 DEF AuthenticationNeeded, AgentInv
    <2>5. /\ state' = "Complete" => Done(nss') /\ ~nss'.rejected
          /\ closed' = None /\ Done(nss') => state' = "Complete"
          /\ closed' = None /\ Asking(nss') => AuthenticationNeeded'
          /\ state' = "Failed" => closed' # None
      BY <1>7, <1>8, <1>10 DEF AuthenticationNeeded, Done
    <2>6. step' # "resume" /\ (closed' # None => step' = "idle")
      BY <1>8, <1>9, <1>1
    <2> QED  BY <1>2, <1>3, <1>4, <1>5, <2>1, <2>2, <2>3, <2>4, <2>5, <2>6 DEF AgentInv
  <1>14. SecretsInv'
    <2>1. step' = "enable_0rtt"
            => nss'.fed = 0 /\ (nss'.early => <<"write", "ZeroRtt">> \in secrets')
      BY <1>1, <1>5, <1>8, <1>11
    <2>2. step' = "application" => state' = "Complete" /\ app' = {} /\ AppSecrets \subseteq secrets'
      BY <1>1, <1>2, <1>4, <1>8, <1>10, <1>11
    <2>3. closed' = None /\ state' = "Complete" => step' = "application"
      BY <1>1, <1>4, <1>7, <1>8
    <2>4. /\ installed' \in {0, 1} /\ (installed' = 1 => nss'.fed >= ServerHello)
          /\ (nss'.fed >= EncryptedExtensions => installed' = 1)
      BY <1>2, <1>4, <1>5 DEF SecretsInv, ServerHello, NssType
    <2>5. closed' # "internal"
      BY <1>8, CryptoAssumption DEF Reasons
    <2> QED  BY <1>2, <1>11, <2>1, <2>2, <2>3, <2>4, <2>5 DEF SecretsInv
  <1> QED  BY <1>2, <1>9, <1>12, <1>13, <1>14

-----------------------------------------------------------------------------
(***************************************************************************)
(* Each action keeps the invariant.                                        *)
(***************************************************************************)

\* A step that changes nothing NumbersInv is about but step, closed and installed data.
LEMMA KeysKept ==
    ASSUME NumbersInv, UNCHANGED <<initials, handshake, last, version, installed>>,
           step # "init", closed' = None => closed = None,
           step' # "init", step' = "confirm_version" => installed = 0
    PROVE  NumbersInv'
  BY DEF NumbersInv, NumbersFresh, AllInitials, InitialsIsEmpty, Ordered

\* init.
LEMMA InitStepKeeps ==
    ASSUME IInv, InitStep  PROVE IInv'
  <1>1. /\ TypeOK /\ AgentInv /\ SecretsInv /\ NumbersInv /\ step = "init" /\ nss \in NssType
        /\ initials \in [Versions -> Keys \cup {None}] /\ version \in Versions
        /\ last \in [{"Initial", "Handshake"} -> Int]
    BY DEF IInv, InitStep, TypeOK, KeysTypeOK, AgentTypeOK, NssType
  <1>2. PICK first \in FirstPns : InitKeys(first)
    BY DEF InitStep
  <1>3. first \in Nat
    BY <1>2, KeysAssumption
  <1>4. step' = "idle" /\ closed' = closed
    BY <1>1 DEF InitStep, Return, Then
  <1>5. /\ UNCHANGED <<handshake, last, peer, accepted, refused>>
        /\ UNCHANGED agentVars /\ UNCHANGED stepVars
    BY DEF InitStep
  <1>6. ASSUME NEW v \in Versions
        PROVE  /\ initials'[v] \in Keys /\ initials'[v] # None /\ Ordered(initials'[v].tx)
               /\ initials'[v].tx.hi = IF initials[v] = None THEN first ELSE initials[v].tx.hi
    <2>1. CASE initials[v] = None
      <3>1. initials'[v] = KeyPair(first)
        BY <1>2, <2>1 DEF InitKeys
      <3> QED  BY <1>3, <2>1, <3>1, KeyPairKeys
    <2>2. CASE initials[v] # None
      <3>1. initials[v] \in Keys /\ initials[v].tx \in Pns /\ initials[v].rx \in Pns
        BY <1>1, <2>2 DEF Keys
      <3>2. initials'[v] = [tx |-> Continuation(Numbers(first), initials[v].tx),
                            rx |-> Continuation(Numbers(0), initials[v].rx)]
        BY <1>2, <2>2 DEF InitKeys
      <3>3. /\ Numbers(first) \in Pns /\ Unused(Numbers(first)) /\ Ordered(Numbers(first))
            /\ Numbers(0) \in Pns
        BY <1>3, KeyPairKeys DEF Ordered, Numbers, Pns
      <3>4. ~Overlaps(Numbers(first), initials[v].tx)
        BY <3>3 DEF Overlaps
      <3>5. /\ Continuation(Numbers(first), initials[v].tx) \in Pns
            /\ Continuation(Numbers(0), initials[v].rx) \in Pns
            /\ Ordered(Continuation(Numbers(first), initials[v].tx))
            /\ Continuation(Numbers(first), initials[v].tx).hi = initials[v].tx.hi
        BY <3>1, <3>3, <3>4, ContinuationPns, ContinuationOrdered
      <3> QED  BY <2>2, <3>2, <3>5, KeysAssumption DEF Keys
    <2> QED  BY <2>1, <2>2
  <1>7. initials' \in [Versions -> Keys \cup {None}]
    <2>1. initials' = [v \in Versions |-> initials'[v]]
      BY <1>2 DEF InitKeys
    <2> QED  BY <1>6, <2>1
  <1>8. TypeOK'
    BY <1>1, <1>4, <1>5, <1>7 DEF TypeOK, KeysTypeOK, AgentTypeOK, agentVars, stepVars
  <1>9. AgentInv' /\ SecretsInv'
    BY <1>1, <1>4, <1>5 DEF AgentInv, SecretsInv, agentVars, stepVars, AuthenticationNeeded,
                            AppSecrets
  <1>10. NumbersInv'
    <2>1. installed = 0 /\ handshake = None
      BY <1>1 DEF NumbersInv, SecretsInv, ServerHello
    <2>2. initials'[version].tx.hi > last["Initial"]
      <3>1. CASE initials[version] = None
        <4>1. last["Initial"] = -1
          BY <1>1, <3>1 DEF NumbersInv, AllInitials
        <4> QED  BY <1>1, <1>3, <1>6, <3>1, <4>1
      <3>2. CASE initials[version] # None
        BY <1>1, <1>6, <3>2 DEF NumbersInv, NumbersFresh
      <3> QED  BY <3>1, <3>2
    <2>3. NumbersFresh'
      BY <1>5, <2>1, <2>2 DEF NumbersFresh, stepVars
    <2> QED  BY <1>1, <1>4, <1>5, <1>6, <2>1, <2>3 DEF NumbersInv, AllInitials, stepVars
  <1> QED  BY <1>8, <1>9, <1>10 DEF IInv

\* enable_0rtt.
LEMMA Enable0rttKeeps ==
    ASSUME IInv, Enable0rtt  PROVE IInv'
  <1>1. /\ TypeOK /\ AgentInv /\ SecretsInv /\ NumbersInv /\ step = "enable_0rtt"
        /\ zeroRtt \in BOOLEAN
    BY DEF IInv, Enable0rtt, TypeOK
  <1>2. /\ UNCHANGED keyVars /\ UNCHANGED <<version, app, installed, packetVersion, retries>>
    BY DEF Enable0rtt
  <1>3. nss.early => <<"write", "ZeroRtt">> \in secrets
    BY <1>1 DEF SecretsInv
  <1>4. /\ step' = "idle" /\ closed' = closed /\ zeroRtt' \in BOOLEAN
        /\ secrets' \in {secrets, secrets \ {<<"write", "ZeroRtt">>}}
        /\ UNCHANGED <<state, verdict, authRequired, alert, echConfig, tickets, received,
                       taken, bad, nss>>
    <2>1. CASE nss.early
      <3>1. {x \in secrets : x = <<"write", "ZeroRtt">>} = {<<"write", "ZeroRtt">>}
        BY <1>3, <2>1
      <3> QED  BY <1>1, <2>1, <3>1 DEF Enable0rtt, Take, Return, Then
    <2>2. CASE ~nss.early
      BY <1>1, <2>2 DEF Enable0rtt, Return, Then, agentVars
    <2> QED  BY <2>1, <2>2
  <1>5. state # "Complete"
    BY <1>1 DEF AgentInv, SecretsInv, Done, Finished
  <1>6. TypeOK'
    BY <1>1, <1>2, <1>4 DEF TypeOK, KeysTypeOK, AgentTypeOK, keyVars
  <1>7. AgentInv' /\ SecretsInv'
    BY <1>1, <1>2, <1>4, <1>5 DEF AgentInv, SecretsInv, AuthenticationNeeded, AppSecrets
  <1>8. NumbersInv'
    BY <1>1, <1>2, <1>4, KeysKept DEF keyVars
  <1> QED  BY <1>6, <1>7, <1>8 DEF IInv

\* install_keys.
LEMMA InstallHandshakeKeeps ==
    ASSUME IInv, InstallHandshakeKeys  PROVE IInv'
  <1>1. /\ TypeOK /\ AgentInv /\ SecretsInv /\ NumbersInv /\ step = "install_keys"
        /\ closed = None /\ last \in [{"Initial", "Handshake"} -> Int]
    BY DEF IInv, InstallHandshakeKeys, AgentInv, TypeOK, KeysTypeOK
  <1>2. UNCHANGED <<initials, last, peer, accepted, refused, version, zeroRtt, app, packetVersion, retries>>
    BY DEF InstallHandshakeKeys
  <1> DEFINE w == {x \in secrets : x = <<"write", "Handshake">>}
             r == {x \in secrets : x = <<"read", "Handshake">>}
  <1>3. \/ /\ Return("ok") /\ UNCHANGED agentVars /\ UNCHANGED <<handshake, installed>>
        \/ /\ w # {} /\ Take(w \cup r)
           /\ \E res \in IF r = {} THEN {"internal"} ELSE {"ok", "error", "noCipher"} :
                 /\ Return(res)
                 /\ handshake' = IF res = "ok" THEN KeyPair(0) ELSE handshake
                 /\ installed' = IF res = "ok" THEN installed + 1 ELSE installed
    BY DEF InstallHandshakeKeys
  <1>4. CASE Return("ok") /\ UNCHANGED agentVars /\ UNCHANGED <<handshake, installed>>
    <2>1. step' = "idle" /\ closed' = closed
      BY <1>1, <1>4 DEF Return, Then
    <2>2. TypeOK'
      BY <1>1, <1>2, <1>4, <2>1 DEF TypeOK, KeysTypeOK, AgentTypeOK, agentVars
    <2>3. AgentInv' /\ SecretsInv'
      BY <1>1, <1>2, <1>4, <2>1 DEF AgentInv, SecretsInv, AuthenticationNeeded, AppSecrets, agentVars
    <2>4. NumbersInv'
      BY <1>1, <1>2, <1>4, <2>1, KeysKept
    <2> QED  BY <2>2, <2>3, <2>4 DEF IInv
  <1>5. CASE /\ w # {} /\ Take(w \cup r)
             /\ \E res \in IF r = {} THEN {"internal"} ELSE {"ok", "error", "noCipher"} :
                 /\ Return(res)
                 /\ handshake' = IF res = "ok" THEN KeyPair(0) ELSE handshake
                 /\ installed' = IF res = "ok" THEN installed + 1 ELSE installed
    <2>1. /\ <<"write", "Handshake">> \in secrets /\ <<"read", "Handshake">> \in secrets
          /\ installed = 0 /\ nss.fed >= ServerHello
      BY <1>1, <1>5 DEF SecretsInv
    <2>2. r # {} /\ w \cup r = {<<"write", "Handshake">>, <<"read", "Handshake">>}
      BY <2>1
    <2>3. PICK res \in {"ok", "error", "noCipher"} :
                 /\ Return(res)
                 /\ handshake' = IF res = "ok" THEN KeyPair(0) ELSE handshake
                 /\ installed' = IF res = "ok" THEN installed + 1 ELSE installed
      BY <1>5, <2>2
    <2>4. /\ secrets' = secrets \ {<<"write", "Handshake">>, <<"read", "Handshake">>}
          /\ UNCHANGED <<state, verdict, authRequired, alert, echConfig, tickets, received,
                         taken, bad, nss>>
      BY <1>5, <2>2 DEF Take
    <2>5. /\ step' = "idle" /\ closed' = IF res = "ok" THEN closed ELSE res
          /\ (res # "ok" => closed' \in {"error", "noCipher"})
      BY <1>1, <2>3 DEF Return, Then
    <2>6. /\ closed' # "internal" /\ closed' \in Reasons \cup {None}
      BY <1>1, <2>3, <2>5, CryptoAssumption DEF Reasons
    <2>7. KeyPair(0) \in Keys /\ KeyPair(0) # None /\ Ordered(KeyPair(0).tx) /\ KeyPair(0).tx.hi = 0
      BY KeyPairKeys
    <2>8. TypeOK'
      <3>1. handshake' \in Keys \cup {None} /\ installed' \in Nat
        BY <1>1, <2>1, <2>3, <2>7 DEF TypeOK, KeysTypeOK
      <3> QED  BY <1>1, <1>2, <2>4, <2>5, <2>6, <3>1 DEF TypeOK, KeysTypeOK, AgentTypeOK
    <2>9. nss.fed \in 0 .. Finished
      BY <1>1 DEF TypeOK, AgentTypeOK
    <2>10. AgentInv'
      BY <1>1, <1>2, <2>4, <2>5 DEF AgentInv, AuthenticationNeeded
    <2>11. SecretsInv'
      BY <1>1, <1>2, <2>1, <2>3, <2>4, <2>5, <2>6, <2>9
         DEF SecretsInv, AppSecrets, ServerHello, EncryptedExtensions, Finished
    <2>12. NumbersInv'
      <3>1. handshake = None /\ last["Handshake"] = -1
        BY <1>1, <2>1 DEF NumbersInv
      <3>2. NumbersFresh'
        BY <1>1, <1>2, <2>3, <2>7, <3>1 DEF NumbersFresh, NumbersInv
      <3>3. CASE res = "ok"
        BY <1>1, <1>2, <2>1, <2>3, <2>5, <2>7, <3>1, <3>2, <3>3 DEF NumbersInv, AllInitials, InitialsIsEmpty
      <3>4. CASE res # "ok"
        BY <1>1, <1>2, <2>1, <2>3, <2>5, <3>1, <3>2, <3>4, CryptoAssumption
           DEF NumbersInv, AllInitials, InitialsIsEmpty, Reasons
      <3> QED  BY <3>3, <3>4
    <2> QED  BY <2>8, <2>10, <2>11, <2>12 DEF IInv
  <1> QED  BY <1>3, <1>4, <1>5

\* install_application_keys.
LEMMA InstallApplicationKeeps ==
    ASSUME IInv, InstallApplicationKeys  PROVE IInv'
  <1>1. /\ TypeOK /\ AgentInv /\ SecretsInv /\ NumbersInv /\ step = "application"
        /\ closed = None
    BY DEF IInv, InstallApplicationKeys, AgentInv
  <1>2. UNCHANGED keyVars /\ UNCHANGED <<version, installed, packetVersion, retries>>
    BY DEF InstallApplicationKeys
  <1>3. state = "Complete" /\ AppSecrets \subseteq secrets
    BY <1>1 DEF SecretsInv
  <1>4. /\ {x \in secrets : x = <<"write", "ApplicationData">>} = {<<"write", "ApplicationData">>}
        /\ {x \in secrets : x = <<"read", "ApplicationData">>} = {<<"read", "ApplicationData">>}
    BY <1>3 DEF AppSecrets
  <1>5. {x[1] : x \in {<<"write", "ApplicationData">>} \cup {<<"read", "ApplicationData">>}}
          = {"read", "write"}
    OBVIOUS
  <1>6. /\ secrets' = secrets \ ({<<"write", "ApplicationData">>} \cup {<<"read", "ApplicationData">>})
        /\ UNCHANGED <<state, verdict, authRequired, alert, echConfig, tickets, received,
                       taken, bad, nss>>
        /\ zeroRtt' = FALSE /\ app' = {"read", "write"}
        /\ step' = "install_keys" /\ closed' = closed
    BY <1>1, <1>4, <1>5 DEF InstallApplicationKeys, Take, Return, Then
  <1>7. TypeOK'
    <2>1. KeysTypeOK'
      BY <1>1, <1>2 DEF TypeOK, KeysTypeOK, keyVars
    <2>2. AgentTypeOK'
      BY <1>1, <1>6 DEF TypeOK, AgentTypeOK
    <2>3. /\ version' \in Versions /\ packetVersion' \in Versions /\ zeroRtt' \in BOOLEAN
          /\ app' \subseteq {"read", "write"} /\ installed' \in Nat /\ retries' \in Nat
          /\ closed' \in Reasons \cup {None}
      BY <1>1, <1>2, <1>6 DEF TypeOK
    <2> QED  BY <1>6, <2>1, <2>2, <2>3 DEF TypeOK
  <1>8. AgentInv' /\ SecretsInv'
    BY <1>1, <1>2, <1>3, <1>6 DEF AgentInv, SecretsInv, AuthenticationNeeded, AppSecrets, keyVars
  <1>9. NumbersInv'
    BY <1>1, <1>2, <1>6, KeysKept DEF keyVars
  <1> QED  BY <1>7, <1>8, <1>9 DEF IInv

\* confirm_version: whatever its result, ranges stay ordered, and the version that is then
\* current goes on after all that was sent.
LEMMA ConfirmKeeps ==
    ASSUME IInv, ConfirmStep  PROVE IInv'
  <1>1. /\ TypeOK /\ AgentInv /\ SecretsInv /\ NumbersInv /\ step = "confirm_version"
        /\ closed = None /\ installed = 0 /\ AllInitials
        /\ initials \in [Versions -> Keys \cup {None}] /\ version \in Versions
        /\ packetVersion \in Versions /\ last \in [{"Initial", "Handshake"} -> Int]
    BY DEF IInv, ConfirmStep, AgentInv, TypeOK, KeysTypeOK, NumbersInv
  <1>2. UNCHANGED agentVars /\ UNCHANGED <<zeroRtt, app, installed, packetVersion, retries>>
    BY DEF ConfirmStep
  <1>3. PICK res \in {"ok", "version", "overlap"} :
          /\ ConfirmVersion(version, packetVersion, res)
          /\ version' = IF res = "ok" THEN packetVersion ELSE version
          /\ Return(res)
    BY DEF ConfirmStep
  <1>4. UNCHANGED <<handshake, last, peer, accepted, refused>>
    BY <1>3 DEF ConfirmVersion
  <1>5. /\ (res = "ok" => step' = "install_keys" /\ closed' = None)
        /\ (res # "ok" => step' = "idle" /\ closed' = res)
        /\ closed' \in Reasons \cup {None} /\ closed' # "internal" /\ (res # "ok" => res # None)
    BY <1>1, <1>3, CryptoAssumption DEF Return, Then, Reasons
  <1> DEFINE prev == initials[version]
             next == initials[packetVersion]
             tx == Continuation(next.tx, prev.tx)
             rx == Continuation(next.rx, prev.rx)
  <1>6. /\ prev \in Keys /\ prev # None /\ next \in Keys /\ next # None
        /\ prev.tx \in Pns /\ next.tx \in Pns /\ prev.rx \in Pns /\ next.rx \in Pns
        /\ Ordered(next.tx) /\ prev.tx.hi > last["Initial"]
    BY <1>1 DEF AllInitials, Keys, NumbersInv, NumbersFresh
  <1>7. tx \in Pns /\ rx \in Pns
    BY <1>6, ContinuationPns
  <1>8. \/ initials' = initials /\ res = "ok" /\ version = packetVersion
        \/ /\ version # packetVersion /\ res = "overlap"
           /\ initials' = [initials EXCEPT ![version] = None, ![packetVersion].rx = rx]
        \/ /\ version # packetVersion /\ res = "overlap"
           /\ initials' = [initials EXCEPT ![version] = None,
                                           ![packetVersion] = [tx |-> tx, rx |-> rx]]
        \/ /\ version # packetVersion /\ res = "ok" /\ ~Overlaps(next.tx, prev.tx)
           /\ initials' = [initials EXCEPT ![packetVersion] = [tx |-> tx, rx |-> rx]]
    BY <1>1, <1>3, <1>6 DEF ConfirmVersion
  <1>9. /\ initials' \in [Versions -> Keys \cup {None}]
        /\ \A v \in Versions : initials'[v] # None => Ordered(initials'[v].tx)
        /\ res = "ok" => \A v \in Versions : initials'[v] # None
        /\ initials'[version'] # None => initials'[version'].tx.hi > last["Initial"]
    <2>1. CASE initials' = initials /\ res = "ok" /\ version = packetVersion
      BY <1>1, <1>3, <1>6, <2>1 DEF NumbersInv, AllInitials
    <2>2. CASE /\ version # packetVersion /\ res = "overlap"
               /\ initials' = [initials EXCEPT ![version] = None, ![packetVersion].rx = rx]
      <3>1. initials'[packetVersion] \in Keys /\ initials'[packetVersion].tx = next.tx
        BY <1>1, <1>6, <1>7, <2>2 DEF Keys
      <3>2. \A v \in Versions \ {packetVersion} : initials'[v] \in {initials[v], None}
        BY <1>1, <2>2
      <3>3. initials'[version] = None
        BY <1>1, <2>2
      <3>4. initials' = [v \in Versions |-> initials'[v]]
        BY <1>1, <2>2
      <3>5. initials' \in [Versions -> Keys \cup {None}]
        BY <1>1, <3>1, <3>2, <3>4
      <3> QED  BY <1>1, <1>3, <1>6, <2>2, <3>1, <3>2, <3>3, <3>5 DEF NumbersInv
    <2>3. CASE /\ version # packetVersion /\ res = "overlap"
               /\ initials' = [initials EXCEPT ![version] = None,
                                               ![packetVersion] = [tx |-> tx, rx |-> rx]]
      <3>1. Ordered(tx)
        <4>1. tx.lo = IF Overlaps(next.tx, prev.tx) THEN next.tx.lo ELSE prev.tx.hi
          BY <1>6, ContinuationPns
        <4>2. tx.hi = IF Unused(next.tx) THEN prev.tx.hi ELSE next.tx.hi
          BY <1>6, ContinuationPns
        <4>3. next.tx.lo \in Nat /\ next.tx.hi \in Nat /\ prev.tx.hi \in Nat
          BY <1>6 DEF Pns
        <4> HIDE DEF tx, next, prev
        <4> QED  BY <1>6, <4>1, <4>2, <4>3 DEF Ordered, Overlaps, Unused
      <3>2. [tx |-> tx, rx |-> rx] \in Keys
        BY <1>7 DEF Keys
      <3> HIDE DEF tx, rx
      <3>3. initials'[packetVersion] = [tx |-> tx, rx |-> rx] /\ initials'[version] = None
        BY <1>1, <2>3
      <3>4. \A v \in Versions \ {packetVersion} : initials'[v] \in {initials[v], None}
        BY <1>1, <2>3
      <3>5. initials' \in [Versions -> Keys \cup {None}]
        BY <1>1, <2>3, <3>2
      <3> QED  BY <1>1, <1>3, <2>3, <3>1, <3>2, <3>3, <3>4, <3>5 DEF NumbersInv
    <2>4. CASE /\ version # packetVersion /\ res = "ok" /\ ~Overlaps(next.tx, prev.tx)
               /\ initials' = [initials EXCEPT ![packetVersion] = [tx |-> tx, rx |-> rx]]
      <3>1. Ordered(tx) /\ tx.hi >= prev.tx.hi
        BY <1>6, <2>4, ContinuationOrdered
      <3>2. [tx |-> tx, rx |-> rx] \in Keys
        BY <1>7 DEF Keys
      <3>3. tx.hi > last["Initial"]
        BY <1>1, <1>6, <1>7, <3>1 DEF Pns
      <3> HIDE DEF tx, rx
      <3>4. initials'[packetVersion] = [tx |-> tx, rx |-> rx]
        BY <1>1, <2>4
      <3>5. \A v \in Versions \ {packetVersion} : initials'[v] = initials[v]
        BY <1>1, <2>4
      <3>6. initials' \in [Versions -> Keys \cup {None}]
        BY <1>1, <2>4, <3>2
      <3>7. [tx |-> tx, rx |-> rx] # None
        BY <3>2, KeysAssumption
      <3> QED  BY <1>1, <1>3, <2>4, <3>1, <3>3, <3>4, <3>5, <3>6, <3>7 DEF NumbersInv, AllInitials
    <2> QED  BY <1>8, <2>1, <2>2, <2>3, <2>4
  <1>10. TypeOK'
    BY <1>1, <1>2, <1>3, <1>4, <1>5, <1>9 DEF TypeOK, KeysTypeOK, AgentTypeOK, agentVars
  <1>11. AgentInv' /\ SecretsInv'
    BY <1>1, <1>2, <1>4, <1>5 DEF AgentInv, SecretsInv, AuthenticationNeeded, AppSecrets, agentVars
  <1>12. NumbersInv'
    <2>1. handshake = None
      BY <1>1 DEF NumbersInv
    <2>2. NumbersFresh'
      BY <1>4, <1>9, <2>1 DEF NumbersFresh
    <2> QED  BY <1>1, <1>2, <1>4, <1>5, <1>9, <2>1, <2>2 DEF NumbersInv, AllInitials
  <1> QED  BY <1>10, <1>11, <1>12 DEF IInv

\* Configuration, before the handshake has started.
LEMMA ConfigureKeeps ==
    ASSUME IInv, Configure  PROVE IInv'
  <1>1. /\ TypeOK /\ AgentInv /\ SecretsInv /\ NumbersInv /\ step = "idle" /\ closed = None
        /\ nss \in NssType
    BY DEF IInv, Configure, Idle, TypeOK, AgentTypeOK, NssType
  <1>2. UNCHANGED keyVars /\ UNCHANGED stepVars /\ UNCHANGED <<step, closed>>
    BY DEF Configure
  <1>3. /\ state = "New" /\ echConfig' \in BOOLEAN
        /\ \E e, r, j \in BOOLEAN : (j => ~r) /\ nss' = [nss EXCEPT !.early = e, !.resumed = r, !.rejected = j]
        /\ UNCHANGED <<state, verdict, authRequired, alert, secrets, tickets, received, taken, bad>>
    <2>1. ASSUME NEW resumes \in BOOLEAN, EnableResumption(resumes)  PROVE <1>3
      <3>1. nss' = [nss EXCEPT !.early = TRUE, !.resumed = resumes, !.rejected = nss.rejected]
        BY <1>1, <2>1 DEF EnableResumption, NssType
      <3>2. nss.rejected \in BOOLEAN /\ (nss.rejected => ~resumes)
        BY <1>1, <2>1 DEF EnableResumption, NssType
      <3>3. echConfig' \in BOOLEAN
        BY <1>1, <2>1 DEF EnableResumption, TypeOK, AgentTypeOK
      <3> QED  BY <2>1, <3>1, <3>2, <3>3, Zenon DEF EnableResumption
    <2>2. ASSUME NEW valid \in BOOLEAN, NEW rejects \in BOOLEAN, EnableEch(valid, rejects)
          PROVE  <1>3
      <3>1. nss' = [nss EXCEPT !.early = nss.early, !.resumed = nss.resumed, !.rejected = rejects]
        BY <1>1, <2>2 DEF EnableEch, NssType
      <3>2. nss.early \in BOOLEAN /\ nss.resumed \in BOOLEAN /\ (rejects => ~nss.resumed)
        BY <1>1, <2>2 DEF EnableEch, NssType
      <3> QED  BY <2>2, <3>1, <3>2, Zenon DEF EnableEch
    <2> QED  BY <2>1, <2>2 DEF Configure
  <1>4. PICK e, r, j \in BOOLEAN : (j => ~r) /\ nss' = [nss EXCEPT !.early = e, !.resumed = r, !.rejected = j]
    BY <1>3
  <1>5. /\ nss' \in NssType /\ nss'.started = nss.started /\ nss'.fed = nss.fed
        /\ nss'.verified = nss.verified /\ (nss'.rejected => ~nss'.resumed)
    BY <1>1, <1>4 DEF NssType
  <1>6. ~nss.started /\ nss.fed = 0 /\ ~authRequired /\ secrets = {}
    BY <1>1, <1>3 DEF AgentInv, Asking, Certificate
  <1>7. ~Asking(nss') /\ ~Done(nss')
    BY <1>5, <1>6 DEF Asking, Done, Certificate, Finished
  <1>8. TypeOK'
    BY <1>1, <1>2, <1>3, <1>5 DEF TypeOK, KeysTypeOK, AgentTypeOK, NssType, keyVars, stepVars
  <1>9. AgentInv'
    BY <1>1, <1>2, <1>3, <1>5, <1>6, <1>7 DEF AgentInv, AuthenticationNeeded, keyVars, stepVars
  <1>10. SecretsInv'
    BY <1>1, <1>2, <1>3, <1>5, <1>6 DEF SecretsInv, keyVars, stepVars
  <1>11. NumbersInv'
    BY <1>1, <1>2, KeysKept DEF keyVars, stepVars
  <1> QED  BY <1>8, <1>9, <1>10, <1>11 DEF IInv

\* The ClientHello.
LEMMA StartKeeps ==
    ASSUME IInv, Start  PROVE IInv'
  <1>1. /\ TypeOK /\ AgentInv /\ SecretsInv /\ NumbersInv /\ step = "idle" /\ closed = None
        /\ state = "New" /\ ~nss.started /\ nss.fed = 0
    BY DEF IInv, Start, Idle, AgentInv
  <1>2. UNCHANGED keyVars /\ UNCHANGED packetVersion /\ Handshake(0, "enable_0rtt")
    BY DEF Start
  <1>3. 0 \in 0 .. Finished /\ ~(0 >= EncryptedExtensions)
    BY DEF Finished, EncryptedExtensions
  <1>4. /\ AgentTypeOK' /\ AgentInv' /\ SecretsInv'
        /\ step' \in {"enable_0rtt", "idle", "application"} /\ closed' \in Reasons \cup {None}
        /\ UNCHANGED <<version, zeroRtt, app, installed, retries>>
    BY <1>1, <1>2, <1>3, HandshakeKeeps
  <1>5. TypeOK'
    BY <1>1, <1>2, <1>4 DEF TypeOK, KeysTypeOK, keyVars
  <1>6. NumbersInv'
    BY <1>1, <1>2, <1>4, KeysKept DEF keyVars
  <1> QED  BY <1>4, <1>5, <1>6 DEF IInv

\* A Retry.
LEMMA RetryKeeps ==
    ASSUME IInv, Retry  PROVE IInv'
  <1>1. /\ TypeOK /\ AgentInv /\ SecretsInv /\ NumbersInv /\ step = "idle" /\ closed = None
        /\ nss.started /\ nss.fed = 0 /\ step' = "init" /\ retries' = retries + 1
    BY DEF IInv, Retry, Idle
  <1>2. /\ UNCHANGED keyVars /\ UNCHANGED agentVars
        /\ UNCHANGED <<version, zeroRtt, app, installed, packetVersion, closed>>
    BY DEF Retry
  <1>3. installed = 0 /\ AllInitials
    BY <1>1 DEF SecretsInv, NumbersInv, ServerHello
  <1>4. TypeOK'
    BY <1>1, <1>2 DEF TypeOK, KeysTypeOK, AgentTypeOK, keyVars, agentVars
  <1>5. state # "Authenticated" /\ state # "Complete"
    BY <1>1 DEF AgentInv, Asking, Done, Certificate, Finished
  <1>6. AgentInv' /\ SecretsInv'
    BY <1>1, <1>2, <1>5 DEF AgentInv, SecretsInv, AuthenticationNeeded, AppSecrets, keyVars, agentVars
  <1>7. NumbersInv'
    BY <1>1, <1>2, <1>3 DEF NumbersInv, NumbersFresh, AllInitials, InitialsIsEmpty, keyVars, agentVars
  <1> QED  BY <1>4, <1>6, <1>7 DEF IInv

\* The peer's packets.
LEMMA PeerSendsKeeps ==
    ASSUME IInv, PeerSendsInitial  PROVE IInv'
  <1>1. /\ TypeOK /\ AgentInv /\ SecretsInv /\ NumbersInv /\ step = "idle" /\ nss.started
        /\ peer \in Seq(Versions)
    BY DEF IInv, PeerSendsInitial, Idle, TypeOK, KeysTypeOK
  <1>2. UNCHANGED agentVars /\ UNCHANGED stepVars /\ UNCHANGED <<step, closed>>
    BY DEF PeerSendsInitial
  <1>3. PICK v \in Versions : PeerSends(v)
    BY DEF PeerSendsInitial
  <1>4. /\ peer' \in Seq(Versions) /\ UNCHANGED <<initials, handshake, last, accepted, refused>>
    BY <1>1, <1>3 DEF PeerSends
  <1>5. TypeOK'
    BY <1>1, <1>2, <1>4 DEF TypeOK, KeysTypeOK, AgentTypeOK, agentVars, stepVars
  <1>6. AgentInv' /\ SecretsInv'
    BY <1>1, <1>2 DEF AgentInv, SecretsInv, AuthenticationNeeded, AppSecrets, agentVars, stepVars
  <1>7. NumbersInv'
    BY <1>1, <1>2, <1>4, KeysKept DEF stepVars
  <1> QED  BY <1>5, <1>6, <1>7 DEF IInv

\* A set of numbers that is not empty has a least element.
LEMMA LeastNat ==
    ASSUME NEW S, S \subseteq Nat, S # {}
    PROVE  \E w \in S : \A u \in S : w <= u
  <1>1. PICK w \in S : \A u \in S : ~(<<u, w>> \in OpToRel(<, Nat))
    BY NatLessThanWellFounded, WFMin
  <1>2. ASSUME NEW u \in S  PROVE w <= u
    <2>1. <<u, w>> \in OpToRel(<, Nat) <=> u < w
      BY DEF OpToRel
    <2>2. ~(u < w) /\ u \in Nat /\ w \in Nat
      BY <1>1, <2>1, Zenon
    <2> QED  BY <2>2
  <1> QED  BY <1>2

\* A packet that is opened, or refused, changes the numbers of the receiving side only.
LEMMA DecryptKeeps ==
    ASSUME KeysTypeOK, NEW pn \in 0 .. Len(peer) - 1, DecryptInitial(pn)
    PROVE  /\ KeysTypeOK'
           /\ \A w \in Versions : /\ initials'[w] = None <=> initials[w] = None
                                  /\ initials[w] # None => initials'[w].tx = initials[w].tx
           /\ UNCHANGED <<handshake, last, peer>>
  <1> DEFINE v == peer[pn + 1]
             r == ContinueInitialRx(v)
  <1>1. /\ initials \in [Versions -> Keys \cup {None}] /\ peer \in Seq(Versions)
        /\ handshake \in Keys \cup {None} /\ last \in [{"Initial", "Handshake"} -> Int]
        /\ accepted \subseteq Nat /\ refused \subseteq Nat
    BY DEF KeysTypeOK
  <1>2. pn \in Nat /\ v \in Versions
    BY <1>1
  <1>3. /\ initials[v] # None /\ UNCHANGED <<handshake, last, peer>>
        /\ \/ /\ initials' = [initials EXCEPT ![v].rx = UsedPn(r, pn)]
              /\ accepted' = accepted \cup {pn} /\ UNCHANGED refused
           \/ /\ initials' = [initials EXCEPT ![v].rx = r]
              /\ refused' = refused \cup ({pn} \ accepted) /\ UNCHANGED accepted
    BY Zenon DEF DecryptInitial
  <1>4. initials[v] \in Keys /\ initials[v].rx \in Pns
    BY <1>1, <1>2, <1>3 DEF Keys
  <1>5. r \in Pns
    <2>1. CASE initials[v].rx.hi # 0 \/ SeenIn = {}
      BY <1>4, <2>1 DEF ContinueInitialRx
    <2>2. CASE ~(initials[v].rx.hi # 0 \/ SeenIn = {})
      <3> DEFINE other == CHOOSE w \in SeenIn : \A u \in SeenIn : w <= u
      <3>1. r = Continuation(initials[v].rx, initials[other].rx)
        BY <2>2 DEF ContinueInitialRx
      <3>2. PICK w \in SeenIn : \A u \in SeenIn : w <= u
        <4>1. SeenIn \subseteq Nat /\ SeenIn # {}
          BY <2>2, KeysAssumption DEF SeenIn
        <4> HIDE DEF r, v
        <4> QED  BY <4>1, LeastNat
      <3>3. other \in SeenIn
        BY <3>2
      <3>4. initials[other].rx \in Pns
        BY <1>1, <3>3 DEF SeenIn, Keys
      <3> QED  BY <1>4, <3>1, <3>4, ContinuationPns
    <2> QED  BY <2>1, <2>2
  <1>6. UsedPn(r, pn) \in Pns
    BY <1>2, <1>5, UsedPnPns
  <1>7. PICK q \in Pns : initials' = [initials EXCEPT ![v].rx = q]
    BY <1>3, <1>5, <1>6, Zenon
  <1> HIDE DEF v, r
  <1>8. initials'[v] = [initials[v] EXCEPT !.rx = q]
    BY <1>1, <1>2, <1>7
  <1>9. initials'[v] \in Keys /\ initials'[v].tx = initials[v].tx
    BY <1>4, <1>8 DEF Keys
  <1>10. \A w \in Versions \ {v} : initials'[w] = initials[w]
    BY <1>1, <1>2, <1>7
  <1>11. initials' \in [Versions -> Keys \cup {None}]
    <2>1. initials' = [w \in Versions |-> initials'[w]]
      BY <1>1, <1>7
    <2> QED  BY <1>1, <1>9, <1>10, <2>1
  <1>12. accepted' \subseteq Nat /\ refused' \subseteq Nat
    BY <1>1, <1>2, <1>3
  <1>13. KeysTypeOK'
    BY <1>1, <1>3, <1>11, <1>12 DEF KeysTypeOK
  <1>14. ASSUME NEW w \in Versions
         PROVE  /\ initials'[w] = None <=> initials[w] = None
                /\ initials[w] # None => initials'[w].tx = initials[w].tx
    BY <1>3, <1>4, <1>9, <1>10, KeysAssumption
  <1> QED  BY <1>3, <1>13, <1>14

\* An Initial packet arrives.
LEMMA InitialArrivesKeeps ==
    ASSUME IInv, NEW pn \in 0 .. Len(peer) - 1, InitialArrives(pn)  PROVE IInv'
  <1>1. /\ TypeOK /\ AgentInv /\ SecretsInv /\ NumbersInv /\ step = "idle" /\ closed = None
        /\ KeysTypeOK /\ DecryptInitial(pn) /\ nss \in NssType /\ peer \in Seq(Versions)
    BY DEF IInv, InitialArrives, Idle, TypeOK, AgentTypeOK, NssType, KeysTypeOK
  <1>2. /\ KeysTypeOK'
        /\ \A w \in Versions : /\ initials'[w] = None <=> initials[w] = None
                               /\ initials[w] # None => initials'[w].tx = initials[w].tx
        /\ UNCHANGED <<handshake, last, peer>>
    BY <1>1, DecryptKeeps
  <1>3. ASSUME UNCHANGED <<version, installed>>, closed' = None => closed = None,
               step' # "init", step' = "confirm_version" => installed = 0
        PROVE  NumbersInv'
    <2>1. version \in Versions
      BY <1>1 DEF TypeOK
    <2>2. NumbersFresh'
      BY <1>1, <1>2, <1>3, <2>1 DEF NumbersInv, NumbersFresh
    <2> QED  BY <1>1, <1>2, <1>3, <2>2 DEF NumbersInv, AllInitials, InitialsIsEmpty
  <1>4. CASE UNCHANGED agentVars /\ UNCHANGED stepVars /\ UNCHANGED <<step, closed>>
    <2>1. TypeOK'
      BY <1>1, <1>2, <1>4 DEF TypeOK, AgentTypeOK, agentVars, stepVars
    <2>2. AgentInv' /\ SecretsInv'
      BY <1>1, <1>2, <1>4 DEF AgentInv, SecretsInv, AuthenticationNeeded, AppSecrets, agentVars, stepVars
    <2>3. NumbersInv'
      BY <1>1, <1>3, <1>4 DEF stepVars
    <2> QED  BY <2>1, <2>2, <2>3 DEF IInv
  <1>5. CASE /\ nss.fed = 0 /\ packetVersion' = peer[pn + 1]
             /\ Handshake(ServerHello, "confirm_version")
    <2>1. state \notin {"New", "Complete", "Failed"}
      <3>1. peer # <<>>
        BY <1>1
      <3> QED  BY <1>1, <1>5, <3>1 DEF AgentInv, Done, Finished
    <2>2. ServerHello \in 0 .. Finished /\ ServerHello >= nss.fed /\ ~(ServerHello >= EncryptedExtensions)
      BY <1>5 DEF ServerHello, Finished, EncryptedExtensions
    <2>3. installed = 0
      BY <1>1, <1>5 DEF SecretsInv, ServerHello
    <2>4. /\ AgentTypeOK' /\ AgentInv' /\ SecretsInv'
          /\ step' \in {"confirm_version", "idle", "application"} /\ closed' \in Reasons \cup {None}
          /\ UNCHANGED <<version, zeroRtt, app, installed, retries>>
      BY <1>1, <1>5, <2>1, <2>2, HandshakeKeeps
    <2>5. packetVersion' \in Versions
      BY <1>1, <1>5
    <2>6. TypeOK'
      BY <1>1, <1>2, <2>4, <2>5 DEF TypeOK
    <2>7. NumbersInv'
      BY <1>1, <1>3, <2>3, <2>4
    <2> QED  BY <2>4, <2>6, <2>7 DEF IInv
  <1> QED  BY <1>4, <1>5 DEF InitialArrives

\* Handshake data arrives.
LEMMA HandshakeArrivesKeeps ==
    ASSUME IInv, NEW fed \in EncryptedExtensions .. Finished, HandshakeArrives(fed)  PROVE IInv'
  <1>1. /\ TypeOK /\ AgentInv /\ SecretsInv /\ NumbersInv /\ step = "idle" /\ closed = None
        /\ nss \in NssType /\ handshake # None /\ fed > nss.fed
    BY DEF IInv, HandshakeArrives, Idle, TypeOK, AgentTypeOK, NssType
  <1>2. UNCHANGED keyVars /\ UNCHANGED packetVersion /\ Handshake(fed, "install_keys")
    BY DEF HandshakeArrives
  <1>3. installed = 1 /\ nss.fed >= ServerHello
    BY <1>1 DEF NumbersInv, SecretsInv
  <1>4. state \notin {"New", "Complete", "Failed"}
    BY <1>1, <1>3 DEF AgentInv, Done, Finished, EncryptedExtensions, ServerHello, NssType
  <1>5. fed \in 0 .. Finished /\ fed >= nss.fed
    BY <1>1 DEF Finished, EncryptedExtensions, NssType
  <1>6. /\ AgentTypeOK' /\ AgentInv' /\ SecretsInv'
        /\ step' \in {"install_keys", "idle", "application"} /\ closed' \in Reasons \cup {None}
        /\ UNCHANGED <<version, zeroRtt, app, installed, retries>>
    BY <1>1, <1>2, <1>3, <1>4, <1>5, HandshakeKeeps
  <1>7. TypeOK'
    BY <1>1, <1>2, <1>6 DEF TypeOK, KeysTypeOK, keyVars
  <1>8. NumbersInv'
    BY <1>1, <1>2, <1>6, KeysKept DEF keyVars
  <1> QED  BY <1>6, <1>7, <1>8 DEF IInv

\* authenticated.
LEMMA VerdictKeeps ==
    ASSUME IInv, Verdict  PROVE IInv'
  <1>1. /\ TypeOK /\ AgentInv /\ SecretsInv /\ NumbersInv /\ step = "idle" /\ closed = None
    BY DEF IInv, Verdict, Idle
  <1>2. PICK status \in {"ok", "bad"} : Authenticated(status)
    BY DEF Verdict
  <1>3. /\ step' = "resume" /\ UNCHANGED keyVars /\ UNCHANGED stepVars /\ UNCHANGED closed
    BY DEF Verdict
  <1>4. /\ authRequired' = FALSE /\ state' = "Authenticated" /\ verdict' = status
        /\ UNCHANGED <<alert, secrets, echConfig, tickets, received, taken, bad, nss>>
        /\ AuthenticationNeeded
    BY <1>2 DEF Authenticated
  <1>5. Asking(nss) /\ state # "Complete" /\ ~nss.verified /\ ~Done(nss) /\ nss.started
    BY <1>1, <1>4 DEF AgentInv, AuthenticationNeeded, Asking, Done, Certificate
  <1>6. TypeOK'
    <2>1. KeysTypeOK'
      BY <1>1, <1>3 DEF TypeOK, KeysTypeOK, keyVars
    <2>2. AgentTypeOK'
      BY <1>1, <1>2, <1>4 DEF TypeOK, AgentTypeOK, States
    <2> QED  BY <1>1, <1>3, <2>1, <2>2 DEF TypeOK, stepVars
  <1>7. AgentInv'
    BY <1>1, <1>2, <1>3, <1>4, <1>5 DEF AgentInv, AuthenticationNeeded, stepVars
  <1>8. SecretsInv'
    BY <1>1, <1>3, <1>4 DEF SecretsInv, AppSecrets, stepVars
  <1>9. NumbersInv'
    BY <1>1, <1>3, KeysKept DEF keyVars, stepVars
  <1> QED  BY <1>6, <1>7, <1>8, <1>9 DEF IInv

\* TLS goes on after the verdict.
LEMMA ResumeKeeps ==
    ASSUME IInv, Resume  PROVE IInv'
  <1>1. /\ TypeOK /\ AgentInv /\ SecretsInv /\ NumbersInv /\ step = "resume" /\ nss \in NssType
    BY DEF IInv, Resume, TypeOK, AgentTypeOK, NssType
  <1>2. UNCHANGED keyVars /\ UNCHANGED packetVersion /\ Handshake(nss.fed, "idle")
    BY DEF Resume
  <1>3. closed = None /\ state = "Authenticated" /\ nss.fed >= Certificate
    BY <1>1 DEF AgentInv, Asking
  <1>4. nss.fed \in 0 .. Finished /\ nss.fed >= nss.fed /\ installed = 1
    BY <1>1, <1>3 DEF NssType, Finished, SecretsInv, Certificate, EncryptedExtensions
  <1>5. /\ AgentTypeOK' /\ AgentInv' /\ SecretsInv'
        /\ step' \in {"idle", "application"} /\ closed' \in Reasons \cup {None}
        /\ UNCHANGED <<version, zeroRtt, app, installed, retries>>
    BY <1>2, <1>3, <1>4, HandshakeKeeps
  <1>6. TypeOK'
    BY <1>1, <1>2, <1>5 DEF TypeOK, KeysTypeOK, keyVars
  <1>7. NumbersInv'
    BY <1>1, <1>2, <1>3, <1>5, KeysKept DEF keyVars
  <1> QED  BY <1>5, <1>6, <1>7 DEF IInv

\* A packet is sent.
LEMMA SendPacketKeeps ==
    ASSUME IInv, SendPacket  PROVE IInv'
  <1>1. /\ TypeOK /\ AgentInv /\ SecretsInv /\ NumbersInv /\ step = "idle" /\ closed = None
        /\ initials \in [Versions -> Keys \cup {None}] /\ handshake \in Keys \cup {None}
        /\ last \in [{"Initial", "Handshake"} -> Int] /\ version \in Versions
        /\ accepted \subseteq Nat /\ refused \subseteq Nat
    BY DEF IInv, SendPacket, Idle, TypeOK, KeysTypeOK
  <1>2. UNCHANGED agentVars /\ UNCHANGED stepVars /\ UNCHANGED <<step, closed>>
    BY DEF SendPacket
  <1>3. CASE EncryptInitial(version)
    <2>1. /\ initials[version] \in Keys /\ initials[version] # None /\ initials[version].tx \in Pns
          /\ Ordered(initials[version].tx)
      BY <1>1, <1>3 DEF EncryptInitial, Keys, NumbersInv
    <2>2. PICK q \in Pns : q = UsedPn(initials[version].tx, initials[version].tx.hi)
      BY <2>1, SendPns
    <2>3. Ordered(q) /\ q.hi = initials[version].tx.hi + 1 /\ initials[version].tx.hi \in Nat
      BY <2>1, <2>2, SendPns DEF Pns
    <2>4. initials' = [initials EXCEPT ![version].tx = q]
      BY <1>3, <2>2, Zenon DEF EncryptInitial
    <2>5. initials'[version] = [initials[version] EXCEPT !.tx = q]
      BY <1>1, <2>4
    <2>6. initials'[version] \in Keys /\ initials'[version].tx = q
      BY <2>1, <2>5 DEF Keys
    <2>7. \A w \in Versions \ {version} : initials'[w] = initials[w]
      BY <1>1, <2>4
    <2>8. initials' \in [Versions -> Keys \cup {None}]
      <3>1. initials' = [w \in Versions |-> initials'[w]]
        BY <1>1, <2>4
      <3> QED  BY <1>1, <2>6, <2>7, <3>1
    <2>9. /\ last' = [last EXCEPT !["Initial"] = initials[version].tx.hi]
          /\ UNCHANGED <<handshake, peer, accepted, refused>>
      BY <1>3 DEF EncryptInitial
    <2>10. /\ last' \in [{"Initial", "Handshake"} -> Int]
           /\ last'["Initial"] = initials[version].tx.hi /\ last'["Handshake"] = last["Handshake"]
      BY <1>1, <2>3, <2>9
    <2>11. \A w \in Versions : initials'[w] = None <=> initials[w] = None
      BY <1>1, <2>1, <2>6, <2>7, KeysAssumption
    <2>12. TypeOK'
      BY <1>1, <1>2, <2>8, <2>9, <2>10 DEF TypeOK, KeysTypeOK, AgentTypeOK, agentVars, stepVars
    <2>13. AgentInv' /\ SecretsInv'
      BY <1>1, <1>2, <2>9 DEF AgentInv, SecretsInv, AuthenticationNeeded, AppSecrets, agentVars, stepVars
    <2>14. NumbersFresh'
      BY <1>1, <1>2, <2>3, <2>6, <2>9, <2>10 DEF NumbersFresh, NumbersInv, stepVars
    <2>15. NumbersInv'
      BY <1>1, <1>2, <2>3, <2>6, <2>7, <2>9, <2>10, <2>11, <2>14
         DEF NumbersInv, AllInitials, InitialsIsEmpty, stepVars
    <2> QED  BY <2>12, <2>13, <2>15 DEF IInv
  <1>4. CASE EncryptHandshake
    <2>1. /\ handshake \in Keys /\ handshake # None /\ handshake.tx \in Pns /\ Ordered(handshake.tx)
      BY <1>1, <1>4 DEF EncryptHandshake, Keys, NumbersInv
    <2>2. PICK q \in Pns : q = UsedPn(handshake.tx, handshake.tx.hi)
      BY <2>1, SendPns
    <2>3. Ordered(q) /\ q.hi = handshake.tx.hi + 1 /\ handshake.tx.hi \in Nat
      BY <2>1, <2>2, SendPns DEF Pns
    <2>4. handshake' = [handshake EXCEPT !.tx = q]
      BY <1>4, <2>2, Zenon DEF EncryptHandshake
    <2>5. handshake' \in Keys /\ handshake'.tx = q /\ handshake' # None
      BY <2>1, <2>4, KeysAssumption DEF Keys
    <2>6. /\ last' = [last EXCEPT !["Handshake"] = handshake.tx.hi]
          /\ UNCHANGED <<initials, peer, accepted, refused>>
      BY <1>4 DEF EncryptHandshake
    <2>7. /\ last' \in [{"Initial", "Handshake"} -> Int]
          /\ last'["Handshake"] = handshake.tx.hi /\ last'["Initial"] = last["Initial"]
      BY <1>1, <2>3, <2>6
    <2>8. TypeOK'
      BY <1>1, <1>2, <2>5, <2>6, <2>7 DEF TypeOK, KeysTypeOK, AgentTypeOK, agentVars, stepVars
    <2>9. AgentInv' /\ SecretsInv'
      BY <1>1, <1>2, <2>6 DEF AgentInv, SecretsInv, AuthenticationNeeded, AppSecrets, agentVars, stepVars
    <2>10. NumbersFresh'
      BY <1>1, <1>2, <2>3, <2>5, <2>6, <2>7 DEF NumbersFresh, NumbersInv, stepVars
    <2>11. installed # 0
      BY <1>1, <2>1 DEF NumbersInv
    <2>12. NumbersInv'
      BY <1>1, <1>2, <2>3, <2>5, <2>6, <2>7, <2>10, <2>11
         DEF NumbersInv, AllInitials, InitialsIsEmpty, stepVars
    <2> QED  BY <2>8, <2>9, <2>12 DEF IInv
  <1> QED  BY <1>3, <1>4 DEF SendPacket

\* Keys are discarded.
LEMMA DiscardKeeps ==
    ASSUME IInv, Discard  PROVE IInv'
  <1>1. /\ TypeOK /\ AgentInv /\ SecretsInv /\ NumbersInv /\ step = "idle" /\ closed = None
    BY DEF IInv, Discard, Idle
  <1>2. UNCHANGED agentVars /\ UNCHANGED stepVars /\ UNCHANGED <<step, closed>>
    BY DEF Discard
  <1>3. CASE installed > 0 /\ DiscardInitial
    <2>1. /\ initials' = [v \in Versions |-> None] /\ peer' = <<>> /\ accepted' = {}
          /\ UNCHANGED <<handshake, last, refused>>
      BY <1>3 DEF DiscardInitial
    <2>2. TypeOK'
      BY <1>1, <1>2, <2>1 DEF TypeOK, KeysTypeOK, AgentTypeOK, agentVars, stepVars
    <2>3. AgentInv' /\ SecretsInv'
      BY <1>1, <1>2, <2>1 DEF AgentInv, SecretsInv, AuthenticationNeeded, AppSecrets, agentVars, stepVars
    <2>4. version \in Versions /\ installed = 1
      BY <1>1, <1>3 DEF TypeOK, SecretsInv
    <2>5. NumbersFresh'
      BY <1>1, <1>2, <2>1, <2>4 DEF NumbersInv, NumbersFresh, stepVars
    <2>6. NumbersInv'
      BY <1>1, <1>2, <2>1, <2>4, <2>5 DEF NumbersInv, InitialsIsEmpty, stepVars
    <2> QED  BY <2>2, <2>3, <2>6 DEF IInv
  <1>4. CASE app # {} /\ InitialsIsEmpty /\ DiscardHandshake
    <2>1. handshake # None /\ handshake' = None /\ UNCHANGED <<initials, last, peer, accepted, refused>>
      BY <1>4 DEF DiscardHandshake
    <2>2. TypeOK'
      BY <1>1, <1>2, <2>1 DEF TypeOK, KeysTypeOK, AgentTypeOK, agentVars, stepVars
    <2>3. AgentInv' /\ SecretsInv'
      BY <1>1, <1>2, <2>1 DEF AgentInv, SecretsInv, AuthenticationNeeded, AppSecrets, agentVars, stepVars
    <2>4. NumbersInv'
      BY <1>1, <1>2, <1>4, <2>1 DEF NumbersInv, NumbersFresh, AllInitials, InitialsIsEmpty, stepVars
    <2> QED  BY <2>2, <2>3, <2>4 DEF IInv
  <1> QED  BY <1>3, <1>4 DEF Discard

\* Tickets.
LEMMA TicketKeeps ==
    ASSUME IInv, Ticket  PROVE IInv'
  <1>1. /\ TypeOK /\ AgentInv /\ SecretsInv /\ NumbersInv /\ step = "idle" /\ closed = None
        /\ tickets \in Seq(Nat) /\ received \in Nat /\ taken \subseteq Nat /\ bad \subseteq Nat
    BY DEF IInv, Ticket, Idle, TypeOK, AgentTypeOK
  <1>2. UNCHANGED keyVars /\ UNCHANGED stepVars /\ UNCHANGED <<step, closed>>
    BY DEF Ticket
  <1>3. /\ tickets' \in Seq(Nat) /\ received' \in Nat /\ taken' \subseteq Nat /\ bad' \subseteq Nat
        /\ UNCHANGED <<state, verdict, authRequired, alert, secrets, echConfig, nss>>
    <2>1. ASSUME NEW usable \in BOOLEAN, ResumptionToken(usable)  PROVE <1>3
      <3>1. Room(tickets) \in Seq(Nat)
        BY <1>1, AgentAssumption DEF Room
      <3>2. received' = received + 1 /\ received' \in Nat
        BY <1>1, <2>1 DEF ResumptionToken
      <3> QED  BY <1>1, <2>1, <3>1, <3>2 DEF ResumptionToken
    <2>2. ASSUME TakeToken  PROVE <1>3
      <3>1. Len(tickets) \in Nat \ {0} /\ tickets[Len(tickets)] \in Nat
        BY <1>1, <2>2 DEF TakeToken
      <3>2. \A i \in 1 .. Len(tickets) - 1 : tickets[i] \in Nat
        BY <1>1, <3>1
      <3>3. SubSeq(tickets, 1, Len(tickets) - 1) \in Seq(Nat)
        BY <1>1, <3>1, <3>2
      <3> QED  BY <1>1, <2>2, <3>1, <3>3 DEF TakeToken
    <2> QED  BY <2>1, <2>2 DEF Ticket
  <1>4. TypeOK'
    BY <1>1, <1>2, <1>3 DEF TypeOK, KeysTypeOK, AgentTypeOK, keyVars, stepVars
  <1>5. AgentInv' /\ SecretsInv'
    BY <1>1, <1>2, <1>3 DEF AgentInv, SecretsInv, AuthenticationNeeded, AppSecrets, keyVars, stepVars
  <1>6. NumbersInv'
    BY <1>1, <1>2, KeysKept DEF keyVars, stepVars
  <1> QED  BY <1>4, <1>5, <1>6 DEF IInv

-----------------------------------------------------------------------------
(***************************************************************************)
(* The theorems.                                                           *)
(***************************************************************************)

\* The invariant is inductive.
THEOREM Invariance == Spec => []IInv
  <1>1. Init => IInv
    <2> SUFFICES ASSUME Init PROVE IInv
      OBVIOUS
    <2> USE DEF Init, KeysInit, AgentInit
    <2>1. TypeOK
      <3>1. KeysTypeOK
        BY KeysAssumption DEF KeysTypeOK
      <3>2. AgentTypeOK
        <4>1. authRequired \in BOOLEAN /\ alert \in BOOLEAN /\ echConfig \in BOOLEAN
          OBVIOUS
        <4>2. nss \in [started : BOOLEAN, fed : 0 .. Finished, verified : BOOLEAN,
                      early : BOOLEAN, resumed : BOOLEAN, rejected : BOOLEAN]
          BY DEF Finished
        <4>3. tickets \in Seq(Nat)
          OBVIOUS
        <4> QED  BY <4>1, <4>2, <4>3 DEF AgentTypeOK, States
      <3> QED  BY <3>1, <3>2, KeysAssumption DEF TypeOK
    <2>2. AgentInv
      BY DEF AgentInv, Asking, Done, AuthenticationNeeded, Certificate, Finished
    <2>3. SecretsInv
      BY CryptoAssumption DEF SecretsInv, Reasons, ServerHello, EncryptedExtensions
    <2>4. NumbersInv
      BY KeysAssumption DEF NumbersInv, NumbersFresh, InitialsIsEmpty
    <2> QED  BY <2>1, <2>2, <2>3, <2>4 DEF IInv
  <1>2. IInv /\ [Next]_vars => IInv'
    <2> SUFFICES ASSUME IInv, [Next]_vars PROVE IInv'
      OBVIOUS
    <2>1. CASE UNCHANGED vars
      BY <2>1 DEF IInv, TypeOK, KeysTypeOK, AgentTypeOK, AgentInv, SecretsInv, NumbersInv,
                  NumbersFresh, AllInitials, InitialsIsEmpty, AuthenticationNeeded, vars
    <2>2. CASE Next
      BY <2>2, InitStepKeeps, Enable0rttKeeps, ConfirmKeeps, InstallHandshakeKeeps,
         InstallApplicationKeeps, ConfigureKeeps, StartKeeps, RetryKeeps, PeerSendsKeeps,
         InitialArrivesKeeps, HandshakeArrivesKeeps, VerdictKeeps, ResumeKeeps,
         SendPacketKeeps, DiscardKeeps, TicketKeeps DEF Next
    <2> QED  BY <2>1, <2>2
  <1> QED  BY <1>1, <1>2, PTL DEF Spec

\* Every variable has its type.
THEOREM TypesHold == Spec => []TypeOK
  <1>1. IInv => TypeOK
    BY DEF IInv
  <1> QED  BY <1>1, Invariance, PTL

\* No handshake completes, and no application key is installed, before the server's
\* certificate was found good or the session was resumed.
THEOREM AuthenticatedBeforeUse == Spec => []AuthenticatedFirst
  <1>1. IInv => AuthenticatedFirst
    <2> SUFFICES ASSUME IInv, state = "Complete" \/ app # {} PROVE (verdict = "ok" \/ nss.resumed) /\ ~nss.rejected
      BY DEF AuthenticatedFirst
    <2>1. state = "Complete" /\ Done(nss) /\ ~nss.rejected /\ (nss.verified => verdict = "ok")
      BY DEF IInv, AgentInv
    <2> QED  BY <2>1 DEF Done, Asking, Finished, Certificate
  <1> QED  BY <1>1, Invariance, PTL

\* While a certificate waits for its verdict, authenticated() may be called.
THEOREM VerdictCanBeGiven == Spec => []VerdictWelcome
  <1>1. IInv => VerdictWelcome
    BY DEF IInv, AgentInv, VerdictWelcome, Idle
  <1> QED  BY <1>1, Invariance, PTL

\* No packet number is used twice under Initial or Handshake keys.
THEOREM NumbersNeverReused == Spec => []NumbersFresh
  <1>1. IInv => NumbersFresh
    BY DEF IInv, NumbersInv
  <1> QED  BY <1>1, Invariance, PTL

\* rx_pending says truly whether Handshake keys are still to come.
THEOREM PendingIsTrue == Spec => []PendingTrue
  <1>1. IInv => PendingTrue
    <2> SUFFICES ASSUME IInv, Idle PROVE RxPendingHandshake <=> installed = 0
      BY DEF PendingTrue
    <2>1. NumbersInv /\ installed \in {0, 1} /\ 1 \in Versions
      BY KeysAssumption DEF IInv, SecretsInv
    <2> QED  BY <2>1 DEF Idle, NumbersInv, AllInitials, InitialsIsEmpty, RxPendingHandshake
  <1> QED  BY <1>1, Invariance, PTL

\* Secrets and keys come in the order Crypto relies on.
THEOREM KeysComeInOrder == Spec => []KeysInOrder
  <1>1. IInv => KeysInOrder
    <2> SUFFICES ASSUME IInv PROVE KeysInOrder
      OBVIOUS
    <2>1. AgentInv /\ SecretsInv
      BY DEF IInv
    <2>2. state = "Complete" => installed = 1
      BY <2>1 DEF AgentInv, SecretsInv, Done, Finished, EncryptedExtensions
    <2> QED  BY <2>1, <2>2 DEF SecretsInv, KeysInOrder, Idle
  <1> QED  BY <1>1, Invariance, PTL

-----------------------------------------------------------------------------
(***************************************************************************)
(* The store of tokens.                                                    *)
(***************************************************************************)

\* Tokens are kept in the order in which they came, so the oldest is the first, and none
\* that is handed out, or is yet to come, is kept.
TokenInv ==
    /\ taken \subseteq 1 .. received
    /\ \A i \in DOMAIN tickets : tickets[i] \in 1 .. received
    /\ \A i, j \in DOMAIN tickets : i < j => tickets[i] < tickets[j]
    /\ TokensNewest

\* Only a ticket that comes and a token that is taken change the store.
LEMMA TokensKept ==
    ASSUME Next, ~Ticket
    PROVE  UNCHANGED <<tickets, received, taken, bad>>
  <1>1. CASE InitStep \/ ConfirmStep \/ Retry \/ PeerSendsInitial \/ SendPacket \/ Discard
    BY <1>1 DEF InitStep, ConfirmStep, Retry, PeerSendsInitial, SendPacket, Discard, agentVars
  <1>2. CASE Enable0rtt \/ InstallHandshakeKeys \/ InstallApplicationKeys
    BY <1>2 DEF Enable0rtt, InstallHandshakeKeys, InstallApplicationKeys, Take, agentVars
  <1>3. CASE Configure
    <2>1. \A resumes \in BOOLEAN : EnableResumption(resumes) => UNCHANGED <<tickets, received, taken, bad>>
      BY DEF EnableResumption
    <2>2. \A valid, rejects \in BOOLEAN : EnableEch(valid, rejects) => UNCHANGED <<tickets, received, taken, bad>>
      BY DEF EnableEch
    <2> QED  BY <1>3, <2>1, <2>2 DEF Configure
  <1>4. CASE Start \/ Resume
    BY <1>4 DEF Start, Resume, Handshake, HandshakeRaw
  <1>5. CASE Verdict
    BY <1>5 DEF Verdict, Authenticated
  <1>6. ASSUME NEW pn \in 0 .. Len(peer) - 1, InitialArrives(pn)
        PROVE  UNCHANGED <<tickets, received, taken, bad>>
    BY <1>6 DEF InitialArrives, Handshake, HandshakeRaw, agentVars
  <1>7. ASSUME NEW fed \in EncryptedExtensions .. Finished, HandshakeArrives(fed)
        PROVE  UNCHANGED <<tickets, received, taken, bad>>
    BY <1>7 DEF HandshakeArrives, Handshake, HandshakeRaw
  <1> QED  BY <1>1, <1>2, <1>3, <1>4, <1>5, <1>6, <1>7 DEF Next

\* Making room keeps the order and drops at most the first.
LEMMA RoomFields ==
    ASSUME NEW ts \in Seq(Nat), Len(ts) <= MaxTickets
    PROVE  /\ Room(ts) \in Seq(Nat) /\ Len(Room(ts)) < MaxTickets
           /\ \E d \in {0, 1} : /\ Len(Room(ts)) + d = Len(ts)
                                /\ \A i \in 1 .. Len(Room(ts)) : Room(ts)[i] = ts[i + d]
  <1> USE AgentAssumption DEF AgentAssumption
  <1>1. CASE Len(ts) >= MaxTickets
    <2>1. ts # <<>> /\ Room(ts) = Tail(ts)
      BY <1>1 DEF Room
    <2>2. /\ Tail(ts) \in Seq(Nat) /\ Len(Tail(ts)) + 1 = Len(ts)
          /\ \A i \in 1 .. Len(Tail(ts)) : Tail(ts)[i] = ts[i + 1]
      BY <2>1
    <2> QED  BY <2>1, <2>2
  <1>2. CASE ~(Len(ts) >= MaxTickets)
    BY <1>2 DEF Room
  <1> QED  BY <1>1, <1>2

\* A ticket that comes is the newest, and what makes room for it the oldest.
LEMMA ResumptionTokenKeeps ==
    ASSUME TypeOK, TokenInv, NEW usable \in BOOLEAN, ResumptionToken(usable)
    PROVE  TokenInv'
  <1> DEFINE room == Room(tickets)
  <1>1. /\ tickets \in Seq(Nat) /\ received \in Nat /\ taken \subseteq Nat /\ bad \subseteq Nat
        /\ Len(tickets) <= MaxTickets /\ MaxTickets \in Nat \ {0}
    BY AgentAssumption DEF AgentAssumption, TypeOK, AgentTypeOK, TokenInv, TokensNewest
  <1>2. room \in Seq(Nat) /\ Len(room) < MaxTickets
    BY <1>1, RoomFields
  <1>3. PICK d \in {0, 1} : /\ Len(room) + d = Len(tickets)
                            /\ \A i \in 1 .. Len(room) : room[i] = tickets[i + d]
    BY <1>1, RoomFields
  <1>4. /\ received' = received + 1 /\ taken' = taken
        /\ tickets' = IF usable THEN Append(room, received + 1) ELSE room
        /\ bad' = IF usable THEN bad ELSE bad \cup {received + 1}
    BY DEF ResumptionToken
  <1> HIDE DEF room
  <1>5. \A i \in 1 .. Len(room) : i + d \in DOMAIN tickets /\ room[i] = tickets[i + d]
    BY <1>1, <1>2, <1>3
  \* What TokenInv says of the tokens that stay.
  <1>6. /\ \A i \in 1 .. Len(room) : room[i] \in 1 .. received /\ room[i] \notin taken
        /\ \A i, j \in 1 .. Len(room) : i < j => room[i] < room[j]
    <2>1. \A i \in 1 .. Len(room) : room[i] \in 1 .. received /\ room[i] \notin taken
      BY <1>5 DEF TokenInv, TokensNewest
    <2>2. ASSUME NEW i \in 1 .. Len(room), NEW j \in 1 .. Len(room), i < j
          PROVE  room[i] < room[j]
      <3>1. i + d < j + d /\ i + d \in DOMAIN tickets /\ j + d \in DOMAIN tickets
        BY <1>2, <1>3, <1>5, <2>2
      <3>2. tickets[i + d] < tickets[j + d]
        BY <3>1 DEF TokenInv
      <3> QED  BY <1>5, <3>2
    <2> QED  BY <2>1, <2>2
  <1>7. ASSUME NEW t \in (1 .. received) \ (taken \cup bad), \A i \in 1 .. Len(room) : room[i] # t
        PROVE  \A i \in 1 .. Len(room) : room[i] > t
    <2>1. CASE \A i \in DOMAIN tickets : tickets[i] # t
      BY <1>5, <2>1 DEF TokenInv, TokensNewest
    <2>2. CASE \E i \in DOMAIN tickets : tickets[i] = t
      <3>1. PICK k \in 1 .. Len(tickets) : tickets[k] = t
        BY <1>1, <2>2
      <3>2. d = 1 /\ k = 1
        <4>1. k - d \notin 1 .. Len(room)
          <5> SUFFICES ASSUME k - d \in 1 .. Len(room) PROVE FALSE
            OBVIOUS
          <5>1. room[k - d] = tickets[(k - d) + d] /\ (k - d) + d = k
            BY <1>1, <1>2, <1>5
          <5> QED  BY <1>7, <3>1, <5>1
        <4> QED  BY <1>1, <1>2, <1>3, <3>1, <4>1
      <3>3. ASSUME NEW i \in 1 .. Len(room) PROVE room[i] > t
        <4>1. i + 1 \in DOMAIN tickets /\ 1 \in DOMAIN tickets /\ 1 < i + 1
          BY <1>1, <1>2, <1>5, <3>1, <3>2
        <4>2. tickets[1] < tickets[i + 1]
          BY <4>1 DEF TokenInv
        <4>3. tickets[1] = t /\ room[i] = tickets[i + 1] /\ t \in Nat /\ tickets[i + 1] \in Nat
          BY <1>1, <1>5, <3>1, <3>2, <4>1
        <4> QED  BY <4>2, <4>3
      <3> QED  BY <3>3
    <2> QED  BY <2>1, <2>2
  <1>8. /\ Len(tickets') <= MaxTickets /\ tickets' \in Seq(Nat)
        /\ \A i \in 1 .. Len(tickets') :
             \/ i \in 1 .. Len(room) /\ tickets'[i] = room[i]
             \/ usable /\ i = Len(room) + 1 /\ tickets'[i] = received + 1
        /\ \A i \in 1 .. Len(room) : i \in 1 .. Len(tickets') /\ tickets'[i] = room[i]
        /\ usable => Len(room) + 1 \in 1 .. Len(tickets') /\ tickets'[Len(room) + 1] = received + 1
    <2>1. CASE usable
      BY <1>1, <1>2, <1>4, <2>1
    <2>2. CASE ~usable
      BY <1>1, <1>2, <1>4, <2>2
    <2> QED  BY <2>1, <2>2
  <1>9. DOMAIN tickets' = 1 .. Len(tickets')
    BY <1>8
  <1>10. (taken \subseteq 1 .. received)'
    BY <1>1, <1>4 DEF TokenInv
  <1>11. \A i \in 1 .. Len(tickets') : tickets'[i] \in 1 .. received' /\ tickets'[i] \notin taken'
    BY <1>1, <1>4, <1>6, <1>8 DEF TokenInv
  <1>12. \A i, j \in 1 .. Len(tickets') : i < j => tickets'[i] < tickets'[j]
    <2> SUFFICES ASSUME NEW i \in 1 .. Len(tickets'), NEW j \in 1 .. Len(tickets'), i < j
                 PROVE  tickets'[i] < tickets'[j]
      OBVIOUS
    <2>1. i \in 1 .. Len(room) /\ tickets'[i] = room[i] /\ room[i] \in 1 .. received
      <3>1. Len(tickets') <= Len(room) + 1
        BY <1>2, <1>4
      <3> QED  BY <1>2, <1>6, <1>8, <3>1
    <2>2. CASE j \in 1 .. Len(room) /\ tickets'[j] = room[j]
      BY <1>6, <2>1, <2>2
    <2>3. CASE tickets'[j] = received + 1
      BY <1>1, <2>1, <2>3
    <2> QED  BY <1>8, <2>2, <2>3
  <1>13. ASSUME NEW t \in (1 .. received') \ (taken' \cup bad'), \A i \in 1 .. Len(tickets') : tickets'[i] # t
         PROVE  \A i \in 1 .. Len(tickets') : tickets'[i] > t
    <2>1. t # received + 1
      <3>1. CASE usable
        BY <1>8, <1>13, <3>1
      <3>2. CASE ~usable
        BY <1>4, <3>2
      <3> QED  BY <3>1, <3>2
    <2>2. t \in (1 .. received) \ (taken \cup bad)
      BY <1>1, <1>4, <2>1
    <2>3. \A i \in 1 .. Len(room) : room[i] > t
      BY <1>7, <1>8, <1>13, <2>2
    <2> QED  BY <1>1, <1>8, <2>2, <2>3
  <1> QED  BY <1>8, <1>9, <1>10, <1>11, <1>12, <1>13 DEF TokenInv, TokensNewest

\* The token handed out is the newest: those that stay are in order still.
LEMMA TakeTokenKeeps ==
    ASSUME TypeOK, TokenInv, TakeToken
    PROVE  TokenInv'
  <1> DEFINE n == Len(tickets)
  <1>1. /\ tickets \in Seq(Nat) /\ received \in Nat /\ taken \subseteq Nat /\ bad \subseteq Nat
        /\ n \in Nat \ {0} /\ MaxTickets \in Nat
    BY AgentAssumption DEF AgentAssumption, TypeOK, AgentTypeOK, TakeToken
  <1>2. /\ received' = received /\ bad' = bad /\ taken' = taken \cup {tickets[n]}
        /\ tickets' = SubSeq(tickets, 1, n - 1)
    BY DEF TakeToken
  <1>3. /\ tickets' \in Seq(Nat) /\ Len(tickets') = n - 1
        /\ \A i \in 1 .. n - 1 : tickets'[i] = tickets[i]
    <2> DEFINE ts == SubSeq(tickets, 1, n - 1)
    <2>1. n - 1 \in Int /\ 1 \in Int /\ \A i \in 1 .. n - 1 : tickets[i] \in Nat
      BY <1>1
    <2>2. /\ ts \in Seq(Nat) /\ Len(ts) = (IF 1 <= n - 1 THEN (n - 1) - 1 + 1 ELSE 0)
          /\ \A i \in 1 .. (n - 1) - 1 + 1 : ts[i] = tickets[1 + i - 1]
      BY <2>1, SubSeqProperties
    <2> HIDE DEF ts, n
    <2>3. Len(ts) = n - 1 /\ \A i \in 1 .. n - 1 : ts[i] = tickets[i]
      <3>1. (n - 1) - 1 + 1 = n - 1 /\ \A i \in 1 .. n - 1 : 1 + i - 1 = i
        BY <1>1
      <3> QED  BY <1>1, <2>2, <3>1
    <2> QED  BY <1>2, <2>2, <2>3 DEF ts
  <1>4. DOMAIN tickets' = 1 .. n - 1 /\ DOMAIN tickets = 1 .. n
    BY <1>1, <1>3
  <1> HIDE DEF n
  <1>5. \A i \in 1 .. n - 1 : tickets[i] < tickets[n]
    <2>1. \A i, j \in 1 .. n : i < j => tickets[i] < tickets[j]
      BY <1>4 DEF TokenInv
    <2>2. n \in 1 .. n /\ \A i \in 1 .. n - 1 : i \in 1 .. n /\ i < n
      BY <1>1
    <2> QED  BY <2>1, <2>2
  <1>6. \A i \in 1 .. n : tickets[i] \in 1 .. received /\ tickets[i] \notin taken
    BY <1>4 DEF TokenInv, TokensNewest
  <1>7. \A t \in (1 .. received') \ (taken' \cup bad') :
          (\A i \in DOMAIN tickets' : tickets'[i] # t) => \A i \in DOMAIN tickets' : tickets'[i] > t
    <2> SUFFICES ASSUME NEW t \in (1 .. received') \ (taken' \cup bad'),
                        \A i \in 1 .. n - 1 : tickets'[i] # t
                 PROVE  \A i \in 1 .. n - 1 : tickets'[i] > t
      BY <1>4
    <2>1. t \in (1 .. received) \ (taken \cup bad) /\ t # tickets[n]
      BY <1>2
    <2>2. \A i \in 1 .. n : tickets[i] # t
      BY <1>1, <1>3, <2>1
    <2>3. \A i \in 1 .. n : tickets[i] > t
      BY <1>4, <2>1, <2>2 DEF TokenInv, TokensNewest
    <2> QED  BY <1>1, <1>3, <2>3
  <1>8. taken' \subseteq 1 .. received'
    <2>1. tickets[n] \in 1 .. received
      BY <1>1, <1>6
    <2> QED  BY <1>2, <2>1 DEF TokenInv
  <1>9. /\ \A i \in 1 .. n - 1 : tickets'[i] \in 1 .. received' /\ tickets'[i] \notin taken'
        /\ \A i, j \in 1 .. n - 1 : i < j => tickets'[i] < tickets'[j]
    <2>1. \A i, j \in 1 .. n : i < j => tickets[i] < tickets[j]
      BY <1>4 DEF TokenInv
    <2> QED  BY <1>1, <1>2, <1>3, <1>5, <1>6, <2>1
  <1>10. Len(tickets') <= MaxTickets
    BY <1>1, <1>3 DEF TokenInv, TokensNewest, n
  <1> QED  BY <1>4, <1>7, <1>8, <1>9, <1>10 DEF TokenInv, TokensNewest

\* The store of tokens is bounded, gives up the older ones only and hands none out twice.
THEOREM TokensKeptNewest == Spec => []TokensNewest
  <1>1. Init => TokenInv
    BY AgentAssumption DEF AgentAssumption, Init, AgentInit, TokenInv, TokensNewest
  <1>2. ASSUME TypeOK, TokenInv, [Next]_vars PROVE TokenInv'
    <2>1. CASE Ticket
      BY <1>2, <2>1, ResumptionTokenKeeps, TakeTokenKeeps DEF Ticket
    <2>2. CASE UNCHANGED <<tickets, received, taken, bad>>
      BY <1>2, <2>2 DEF TokenInv, TokensNewest
    <2> QED  BY <1>2, <2>1, <2>2, TokensKept DEF vars
  <1>3. TokenInv => TokensNewest
    BY DEF TokenInv
  <1> QED  BY <1>1, <1>2, <1>3, TypesHold, PTL DEF Spec
=============================================================================
