------------------------ MODULE CryptoVersionProofs ------------------------
(***************************************************************************)
(* When the change to the version the server chose can fail: the proof     *)
(* that confirm_version finds an overlap only after a packet was refused.  *)
(*                                                                         *)
(* Everything is decided before that change, in the phase Early.  In it    *)
(* the client sends with the keys of its first version only, and while     *)
(* nothing was refused the numbers that a version's receiving keys have    *)
(* used are those of packets of that version, which the server sent after  *)
(* all packets of a lesser version.                                        *)
(***************************************************************************)
EXTENDS CryptoProofs

\* The version is not confirmed yet.
Early == nss.fed = 0 \/ step = "confirm_version"

\* The server does not go back to a version it has left.
PeerOrder == \A i, j \in DOMAIN peer : i < j => peer[i] <= peer[j]

FirstVersion ==
    Early => /\ version = 1
             /\ \A v \in Versions : initials[v] # None /\ v # 1 => Unused(initials[v].tx)

\* The numbers r that version v's keys have used are of packets of version v.
RxTrue(p, v, r) ==
    /\ Ordered(r)
    /\ r.hi = 0 \/ (r.hi \in DOMAIN p /\ p[r.hi] = v)
    /\ ~Unused(r) => p[r.lo + 1] = v

RxKnown ==
    Early /\ refused = {} =>
        /\ \A v \in Versions : initials[v] # None => RxTrue(peer, v, initials[v].rx)
        /\ \A pn \in accepted : /\ pn + 1 \in DOMAIN peer /\ initials[peer[pn + 1]] # None
                                /\ initials[peer[pn + 1]].rx.hi > pn

ConfirmOnce == step = "confirm_version" => nss.fed # 0

VersionInv == PeerOrder /\ ConfirmOnce /\ FirstVersion /\ RxKnown /\ OverlapExplained

-----------------------------------------------------------------------------
\* A step that leaves the Initial keys alone and does not begin the phase again.
LEMMA VersionKept ==
    ASSUME VersionInv, UNCHANGED <<initials, peer, accepted, refused, version>>,
           step' # "confirm_version", nss'.fed = 0 => nss.fed = 0,
           closed' = closed \/ closed' \notin {"overlap", "version"}
    PROVE  VersionInv'
  BY DEF VersionInv, PeerOrder, ConfirmOnce, FirstVersion, RxKnown, OverlapExplained, Early

\* handshake() leaves the connection open, or ends it for a reason of its own.
LEMMA HandshakeTurns ==
    ASSUME IInv, NEW fed \in 0 .. Finished, NEW next, Handshake(fed, next)
    PROVE  /\ nss'.fed = fed /\ step' \in {next, "idle", "application"} /\ UNCHANGED version
           /\ closed' = closed \/ closed' \notin {"overlap", "version"}
  <1>1. PICK res \in {"ok", "error", "EchRetry"} :
          /\ HandshakeRaw(fed, res)
          /\ \/ /\ res = "ok" /\ UNCHANGED closed
                /\ step' = IF state' = "Complete" /\ app = {} THEN "application" ELSE next
             \/ res = "ok" /\ closed' = "records" /\ step' = "idle"
             \/ /\ res # "ok" /\ step' = "idle"
                /\ closed' = IF res # "EchRetry" /\ alert' THEN "alert" ELSE res
    BY DEF Handshake
  <1>2. nss \in NssType
    BY DEF IInv, TypeOK, AgentTypeOK, NssType
  <1>3. nss'.fed = fed
    BY <1>1, <1>2 DEF HandshakeRaw, NssType
  <1>4. UNCHANGED version
    BY DEF Handshake
  <1> QED  BY <1>1, <1>3, <1>4

\* The operations that concern neither versions nor Initial keys.
LEMMA VersionElsewhere ==
    ASSUME IInv, VersionInv,
           \/ Enable0rtt \/ InstallHandshakeKeys \/ InstallApplicationKeys
           \/ Configure \/ Start \/ Retry \/ Verdict \/ Resume \/ Ticket
           \/ \E fed \in EncryptedExtensions .. Finished : HandshakeArrives(fed)
    PROVE  VersionInv'
  <1>1. /\ AgentInv /\ SecretsInv /\ nss \in NssType
    BY DEF IInv, TypeOK, AgentTypeOK, NssType
  <1>2. CASE Enable0rtt
    <2>1. UNCHANGED keyVars /\ UNCHANGED version /\ step = "enable_0rtt" /\ UNCHANGED nss
          /\ \E res \in {"internal", "ok"} : Return(res)
      BY <1>2 DEF Enable0rtt, Take, agentVars
    <2>2. step' = "idle" /\ (closed' = closed \/ closed' = "internal")
      BY <2>1 DEF Return, Then
    <2> QED  BY <2>1, <2>2, VersionKept DEF keyVars
  <1>3. CASE InstallHandshakeKeys
    <2>1. UNCHANGED <<initials, peer, accepted, refused, version>> /\ UNCHANGED nss
          /\ step = "install_keys" /\ \E res \in {"internal", "ok", "error", "noCipher"} : Return(res)
      BY <1>3 DEF InstallHandshakeKeys, Take, agentVars
    <2>2. step' = "idle" /\ (closed' = closed \/ closed' \in {"internal", "error", "noCipher"})
      BY <2>1 DEF Return, Then
    <2> QED  BY <2>1, <2>2, VersionKept
  <1>4. CASE InstallApplicationKeys
    <2>1. UNCHANGED keyVars /\ UNCHANGED version /\ step = "application" /\ UNCHANGED nss
          /\ \E res \in {"internal", "ok"} : Return(res)
      BY <1>4 DEF InstallApplicationKeys, Take, agentVars
    <2>2. step' \in {"idle", "install_keys"} /\ (closed' = closed \/ closed' = "internal")
      BY <2>1 DEF Return, Then
    <2> QED  BY <2>1, <2>2, VersionKept DEF keyVars
  <1>5. CASE Configure
    <2>1. \A resumes \in BOOLEAN : EnableResumption(resumes) => nss'.fed = nss.fed
      BY <1>1 DEF EnableResumption, NssType
    <2>2. \A valid, rejects \in BOOLEAN : EnableEch(valid, rejects) => nss'.fed = nss.fed
      BY <1>1 DEF EnableEch, NssType
    <2>3. /\ UNCHANGED keyVars /\ UNCHANGED <<version, step, closed>> /\ step = "idle"
          /\ \/ \E resumes \in BOOLEAN : EnableResumption(resumes)
             \/ \E valid, rejects \in BOOLEAN : EnableEch(valid, rejects)
      BY <1>5 DEF Configure, Idle, stepVars
    <2>4. nss'.fed = nss.fed
      BY <2>1, <2>2, <2>3
    <2> QED  BY <2>3, <2>4, VersionKept DEF keyVars
  <1>6. CASE Start
    <2>1. UNCHANGED keyVars /\ Handshake(0, "enable_0rtt") /\ 0 \in 0 .. Finished /\ nss.fed = 0
      BY <1>1, <1>6 DEF Start, AgentInv, Finished
    <2>2. /\ UNCHANGED version
          /\ closed' = closed \/ closed' \notin {"overlap", "version"}
          /\ step' \in {"enable_0rtt", "idle", "application"}
      BY <2>1, HandshakeTurns
    <2> QED  BY <2>1, <2>2, VersionKept DEF keyVars
  <1>7. CASE Retry
    BY <1>7, VersionKept DEF Retry, Idle, keyVars, agentVars
  <1>8. CASE Verdict
    <2>1. UNCHANGED keyVars /\ UNCHANGED <<version, closed, nss>> /\ step' = "resume"
      BY <1>8 DEF Verdict, Authenticated, stepVars
    <2> QED  BY <2>1, VersionKept DEF keyVars
  <1>9. CASE Resume
    <2>1. UNCHANGED keyVars /\ Handshake(nss.fed, "idle") /\ nss.fed \in 0 .. Finished
      BY <1>1, <1>9 DEF Resume, NssType
    <2>2. /\ UNCHANGED version
          /\ closed' = closed \/ closed' \notin {"overlap", "version"}
          /\ nss'.fed = nss.fed /\ step' \in {"idle", "application"}
      BY <2>1, HandshakeTurns
    <2> QED  BY <2>1, <2>2, VersionKept DEF keyVars
  <1>10. CASE Ticket
    <2>1. UNCHANGED keyVars /\ UNCHANGED <<version, step, closed, nss>> /\ step = "idle"
      BY <1>10 DEF Ticket, Idle, ResumptionToken, TakeToken, stepVars
    <2> QED  BY <2>1, VersionKept DEF keyVars
  <1>11. ASSUME NEW fed \in EncryptedExtensions .. Finished, HandshakeArrives(fed)
         PROVE  VersionInv'
    <2>1. UNCHANGED keyVars /\ Handshake(fed, "install_keys") /\ fed \in 0 .. Finished /\ fed # 0
      BY <1>11 DEF HandshakeArrives, EncryptedExtensions, Finished
    <2>2. /\ UNCHANGED version
          /\ closed' = closed \/ closed' \notin {"overlap", "version"}
          /\ nss'.fed = fed /\ step' \in {"install_keys", "idle", "application"}
      BY <2>1, HandshakeTurns
    <2> QED  BY <2>1, <2>2, VersionKept DEF keyVars
  <1> QED  BY <1>2, <1>3, <1>4, <1>5, <1>6, <1>7, <1>8, <1>9, <1>10, <1>11

-----------------------------------------------------------------------------
(***************************************************************************)
(* The operations on Initial keys.                                         *)
(***************************************************************************)

\* init, for the first time or after a Retry, when the server has sent nothing.
LEMMA VersionInit ==
    ASSUME IInv, VersionInv, InitStep
    PROVE  VersionInv'
  <1>1. /\ initials \in [Versions -> Keys \cup {None}] /\ step = "init" /\ nss.fed = 0
        /\ peer \in Seq(Versions)
    BY DEF IInv, InitStep, TypeOK, KeysTypeOK, NumbersInv
  <1>2. PICK first \in FirstPns : InitKeys(first)
    BY DEF InitStep
  <1>3. /\ UNCHANGED <<peer, accepted, refused, version, nss, closed>> /\ first \in Nat
    BY <1>1, <1>2, KeysAssumption DEF InitStep, agentVars, stepVars, Return
  <1>4. ASSUME NEW v \in Versions
        PROVE  /\ initials'[v] # None /\ Unused(initials'[v].tx)
               /\ Unused(initials'[v].rx) /\ initials'[v].rx \in Pns
               /\ initials'[v].rx.hi = IF initials[v] = None THEN 0 ELSE initials[v].rx.hi
    <2>1. Numbers(first) \in Pns /\ Numbers(0) \in Pns /\ Unused(Numbers(first)) /\ Unused(Numbers(0))
          /\ Numbers(0).hi = 0
      BY <1>3 DEF Numbers, Pns, Unused
    <2>2. CASE initials[v] = None
      <3>1. initials'[v] = KeyPair(first)
        BY <1>2, <2>2 DEF InitKeys
      <3>2. KeyPair(first) # None /\ KeyPair(first).tx = Numbers(first) /\ KeyPair(first).rx = Numbers(0)
        BY <1>3, KeyPairKeys DEF KeyPair
      <3> QED  BY <2>1, <2>2, <3>1, <3>2
    <2>3. CASE initials[v] # None
      <3>1. initials[v].tx \in Pns /\ initials[v].rx \in Pns
        BY <1>1, <2>3 DEF Keys
      <3> DEFINE tx == Continuation(Numbers(first), initials[v].tx)
                 rx == Continuation(Numbers(0), initials[v].rx)
      <3>2. initials'[v] = [tx |-> tx, rx |-> rx]
        BY <1>2, <2>3 DEF InitKeys
      <3>3. tx \in Pns /\ rx \in Pns /\ Unused(tx) /\ Unused(rx) /\ rx.hi = initials[v].rx.hi
        BY <2>1, <3>1, ContinuationPns DEF Overlaps, Unused
      <3> HIDE DEF tx, rx
      <3>4. [tx |-> tx, rx |-> rx] # None
        BY <3>3, KeysAssumption DEF Keys
      <3> QED  BY <2>3, <3>2, <3>3, <3>4
    <2> QED  BY <2>2, <2>3
  <1>5. PeerOrder' /\ ConfirmOnce' /\ OverlapExplained'
    <2>1. step' = "idle"
      BY <1>1 DEF InitStep, Return, Then
    <2> QED  BY <1>3, <2>1 DEF VersionInv, PeerOrder, ConfirmOnce, OverlapExplained
  <1>6. FirstVersion'
    BY <1>1, <1>3, <1>4 DEF VersionInv, FirstVersion, Early
  <1>7. RxKnown'
    <2> SUFFICES ASSUME refused = {} PROVE RxKnown'
      BY <1>3 DEF RxKnown
    <2>1. /\ \A v \in Versions : initials[v] # None => RxTrue(peer, v, initials[v].rx)
          /\ \A pn \in accepted : /\ pn + 1 \in DOMAIN peer /\ initials[peer[pn + 1]] # None
                                  /\ initials[peer[pn + 1]].rx.hi > pn
      BY <1>1 DEF VersionInv, RxKnown, Early
    <2>2. \A v \in Versions : RxTrue(peer, v, initials'[v].rx)
      BY <1>4, <2>1 DEF RxTrue, Ordered, Unused, Pns
    <2>3. \A pn \in accepted : /\ pn + 1 \in DOMAIN peer /\ initials'[peer[pn + 1]] # None
                               /\ initials'[peer[pn + 1]].rx.hi > pn
      <3>1. \A i \in DOMAIN peer : peer[i] \in Versions
        BY <1>1
      <3> QED  BY <1>4, <2>1, <3>1
    <2> QED  BY <1>3, <2>2, <2>3 DEF RxKnown
  <1> QED  BY <1>5, <1>6, <1>7 DEF VersionInv

\* confirm_version, the one step that may find an overlap.  The keys of the version chosen
\* have sent nothing, and what they received came after what the first version's received.
LEMMA VersionConfirm ==
    ASSUME IInv, VersionInv, ConfirmStep
    PROVE  VersionInv'
  <1>1. /\ step = "confirm_version" /\ AllInitials /\ Early /\ nss \in NssType /\ peer \in Seq(Versions)
        /\ initials \in [Versions -> Keys \cup {None}] /\ version = 1 /\ 1 \in Versions
        /\ packetVersion \in Versions /\ Versions \subseteq Nat \ {0} /\ nss.fed # 0
    BY KeysAssumption DEF IInv, ConfirmStep, AgentInv, TypeOK, KeysTypeOK, AgentTypeOK, NumbersInv, Early,
       VersionInv, ConfirmOnce, FirstVersion, NssType
  <1>2. PICK res \in {"ok", "version", "overlap"} :
          ConfirmVersion(version, packetVersion, res) /\ Return(res)
    BY DEF ConfirmStep
  <1>3. UNCHANGED <<peer, accepted, refused, nss>> /\ step' # "confirm_version"
    BY <1>1, <1>2 DEF ConfirmStep, ConfirmVersion, Return, Then, agentVars
  <1> DEFINE prev == initials[version]
             next == initials[packetVersion]
  <1>4. res # "ok" => version # packetVersion /\ (Overlaps(next.rx, prev.rx) \/ Overlaps(next.tx, prev.tx))
    <2>1. prev # None /\ next # None
      BY <1>1 DEF AllInitials
    <2> QED  BY <1>2, <2>1 DEF ConfirmVersion
  <1>5. ASSUME version # packetVersion, Overlaps(next.rx, prev.rx) PROVE refused # {}
    <2> SUFFICES ASSUME refused = {} PROVE FALSE
      OBVIOUS
    <2>1. prev.rx \in Pns /\ next.rx \in Pns /\ packetVersion > 1
      BY <1>1, <1>5 DEF AllInitials, Keys
    <2>2. RxTrue(peer, version, prev.rx) /\ RxTrue(peer, packetVersion, next.rx)
      BY <1>1 DEF VersionInv, RxKnown, AllInitials
    <2> HIDE DEF prev, next
    <2>3. /\ prev.rx.hi \in Nat /\ next.rx.hi \in Nat /\ next.rx.lo \in Nat
          /\ prev.rx.hi > next.rx.lo /\ next.rx.lo < next.rx.hi
      BY <1>5, <2>1, <2>2 DEF Pns, Overlaps, Unused, RxTrue, Ordered
    <2>4. prev.rx.hi \in DOMAIN peer /\ peer[prev.rx.hi] = 1
      BY <1>1, <2>2, <2>3 DEF RxTrue
    <2>5. next.rx.lo + 1 \in DOMAIN peer /\ peer[next.rx.lo + 1] = packetVersion
      <3>1. next.rx.hi \in DOMAIN peer /\ peer[next.rx.lo + 1] = packetVersion
        BY <1>5, <2>2, <2>3 DEF RxTrue, Unused
      <3> QED  BY <1>1, <2>3, <3>1
    <2>6. next.rx.lo + 1 # prev.rx.hi
      BY <2>1, <2>4, <2>5
    <2>7. packetVersion <= 1
      <3>1. next.rx.lo + 1 < prev.rx.hi
        BY <2>3, <2>6
      <3> QED  BY <2>4, <2>5, <3>1 DEF VersionInv, PeerOrder
    <2> QED  BY <1>1, <2>1, <2>7
  <1>6. version # packetVersion => ~Overlaps(next.tx, prev.tx)
    BY <1>1 DEF VersionInv, FirstVersion, AllInitials, Overlaps
  <1>7. OverlapExplained'
    BY <1>2, <1>3, <1>4, <1>5, <1>6, <1>1 DEF OverlapExplained, VersionInv, Return
  <1>8. ~Early'
    BY <1>1, <1>3 DEF Early
  <1>9. PeerOrder' /\ ConfirmOnce' /\ FirstVersion' /\ RxKnown'
    BY <1>3, <1>8 DEF VersionInv, PeerOrder, ConfirmOnce, FirstVersion, RxKnown
  <1> QED  BY <1>7, <1>9 DEF VersionInv

\* The server's next packet is of the version of those before, or of a later one.
LEMMA VersionPeerSends ==
    ASSUME IInv, VersionInv, PeerSendsInitial
    PROVE  VersionInv'
  <1>1. peer \in Seq(Versions) /\ Versions \subseteq Nat /\ step = "idle"
        /\ initials \in [Versions -> Keys \cup {None}]
    BY KeysAssumption DEF IInv, TypeOK, KeysTypeOK, PeerSendsInitial, Idle
  <1>2. PICK v \in Versions : PeerSends(v)
    BY DEF PeerSendsInitial
  <1>3. /\ peer' = Append(peer, v) /\ \A i \in DOMAIN peer : peer[i] <= v
        /\ UNCHANGED <<initials, accepted, refused, version, nss, step, closed>>
    BY <1>2 DEF PeerSends, PeerSendsInitial, agentVars, stepVars
  <1>4. /\ DOMAIN peer = 1 .. Len(peer) /\ Len(peer) \in Nat
        /\ DOMAIN peer' = 1 .. Len(peer) + 1
        /\ \A i \in DOMAIN peer : i \in DOMAIN peer' /\ peer'[i] = peer[i]
        /\ peer'[Len(peer) + 1] = v
    BY <1>1, <1>3
  <1>5. PeerOrder'
    <2> SUFFICES ASSUME NEW i \in DOMAIN peer', NEW j \in DOMAIN peer', i < j
                 PROVE  peer'[i] <= peer'[j]
      BY DEF PeerOrder
    <2>1. i \in DOMAIN peer
      BY <1>4
    <2>2. CASE j \in DOMAIN peer
      BY <1>4, <2>1, <2>2 DEF VersionInv, PeerOrder
    <2>3. CASE j = Len(peer) + 1
      BY <1>3, <1>4, <2>1, <2>3
    <2> QED  BY <1>4, <2>2, <2>3
  <1>6. ConfirmOnce' /\ FirstVersion' /\ OverlapExplained'
    BY <1>3 DEF VersionInv, ConfirmOnce, FirstVersion, OverlapExplained, Early
  <1>7. RxKnown'
    <2> SUFFICES ASSUME Early, refused = {} PROVE RxKnown'
      BY <1>3 DEF RxKnown, Early
    <2>1. ASSUME NEW w \in Versions, initials[w] # None PROVE RxTrue(peer', w, initials[w].rx)
      <3>1. RxTrue(peer, w, initials[w].rx) /\ initials[w].rx \in Pns
        BY <1>1, <2>1 DEF VersionInv, RxKnown, Keys
      <3>2. ~Unused(initials[w].rx) => initials[w].rx.lo + 1 \in DOMAIN peer
        <4>1. PICK rx \in Pns : rx = initials[w].rx
          BY <3>1
        <4>2. RxTrue(peer, w, rx) /\ rx.lo \in Nat /\ rx.hi \in Nat
          BY <3>1, <4>1 DEF Pns
        <4>3. rx.lo # rx.hi => rx.lo < rx.hi /\ rx.hi \in 1 .. Len(peer)
          BY <1>4, <4>2 DEF RxTrue, Ordered
        <4>4. rx.lo # rx.hi => rx.lo + 1 \in 1 .. Len(peer)
          BY <1>4, <4>2, <4>3
        <4> QED  BY <1>4, <4>1, <4>4, Zenon DEF Unused
      <3> QED  BY <1>4, <3>1, <3>2 DEF RxTrue
    <2>2. \A pn \in accepted : /\ pn + 1 \in DOMAIN peer /\ initials[peer[pn + 1]] # None
                               /\ initials[peer[pn + 1]].rx.hi > pn
      BY DEF VersionInv, RxKnown
    <2> QED  BY <1>3, <1>4, <2>1, <2>2 DEF RxKnown
  <1> QED  BY <1>5, <1>6, <1>7 DEF VersionInv

\* A packet sent is sent with the keys of the first version as long as that is not confirmed.
LEMMA VersionSend ==
    ASSUME IInv, VersionInv, SendPacket
    PROVE  VersionInv'
  <1>1. /\ UNCHANGED <<peer, accepted, refused, version, nss, step, closed>>
        /\ initials \in [Versions -> Keys \cup {None}] /\ version \in Versions
    BY DEF SendPacket, EncryptInitial, EncryptHandshake, agentVars, stepVars, IInv, TypeOK, KeysTypeOK
  <1>2. ASSUME EncryptInitial(version)
        PROVE  /\ \A w \in Versions \ {version} : initials'[w] = initials[w]
               /\ initials'[version] # None /\ initials'[version].rx = initials[version].rx
               /\ initials[version] # None
    <2>1. /\ initials[version] \in Keys /\ initials[version] # None /\ initials[version].tx \in Pns
          /\ Ordered(initials[version].tx)
      BY <1>1, <1>2 DEF EncryptInitial, Keys, IInv, NumbersInv
    <2>2. PICK q \in Pns : q = UsedPn(initials[version].tx, initials[version].tx.hi)
      BY <2>1, SendPns
    <2>3. initials' = [initials EXCEPT ![version].tx = q]
      BY <1>2, <2>2, Zenon DEF EncryptInitial
    <2>4. initials'[version] = [initials[version] EXCEPT !.tx = q]
      BY <1>1, <2>3
    <2>5. initials'[version] \in Keys /\ initials'[version].rx = initials[version].rx
      BY <2>1, <2>4 DEF Keys
    <2> QED  BY <1>1, <2>1, <2>3, <2>5, KeysAssumption
  <1>3. ASSUME EncryptHandshake PROVE UNCHANGED initials
    BY <1>3 DEF EncryptHandshake
  <1>4. \A w \in Versions : /\ initials'[w] = None <=> initials[w] = None
                            /\ initials[w] # None => initials'[w].rx = initials[w].rx
                            /\ w # version => initials'[w] = initials[w]
    BY <1>1, <1>2, <1>3 DEF SendPacket
  <1>5. FirstVersion'
    BY <1>1, <1>4 DEF VersionInv, FirstVersion, Early
  <1>6. PeerOrder' /\ ConfirmOnce' /\ OverlapExplained'
    BY <1>1 DEF VersionInv, PeerOrder, ConfirmOnce, OverlapExplained
  <1>7. RxKnown'
    <2> SUFFICES ASSUME Early, refused = {} PROVE RxKnown'
      BY <1>1 DEF RxKnown, Early
    <2>1. /\ \A v \in Versions : initials[v] # None => RxTrue(peer, v, initials[v].rx)
          /\ \A pn \in accepted : /\ pn + 1 \in DOMAIN peer /\ initials[peer[pn + 1]] # None
                                  /\ initials[peer[pn + 1]].rx.hi > pn
      BY DEF VersionInv, RxKnown
    <2>2. \A i \in DOMAIN peer : peer[i] \in Versions
      BY DEF IInv, TypeOK, KeysTypeOK
    <2>3. \A v \in Versions : initials'[v] # None => RxTrue(peer, v, initials'[v].rx)
      BY <1>4, <2>1
    <2>4. \A pn \in accepted : /\ pn + 1 \in DOMAIN peer /\ initials'[peer[pn + 1]] # None
                               /\ initials'[peer[pn + 1]].rx.hi > pn
      BY <1>4, <2>1, <2>2
    <2> QED  BY <1>1, <2>3, <2>4 DEF RxKnown
  <1> QED  BY <1>5, <1>6, <1>7 DEF VersionInv

\* Initial keys are discarded when the version is long confirmed.
LEMMA VersionDiscard ==
    ASSUME IInv, VersionInv, Discard
    PROVE  VersionInv'
  <1>1. UNCHANGED <<refused, version, nss, step, closed>> /\ step = "idle"
    BY DEF Discard, Idle, DiscardInitial, DiscardHandshake, agentVars, stepVars
  <1>2. CASE installed > 0 /\ DiscardInitial
    <2>1. peer' = <<>> /\ nss.fed # 0
      BY <1>2 DEF DiscardInitial, IInv, SecretsInv, ServerHello
    <2> QED  BY <1>1, <2>1 DEF VersionInv, PeerOrder, ConfirmOnce, FirstVersion, RxKnown,
                OverlapExplained, Early
  <1>3. CASE DiscardHandshake
    BY <1>1, <1>3, VersionKept DEF DiscardHandshake
  <1> QED  BY <1>2, <1>3 DEF Discard

\* maybe_continue_initial_rx: keys that have received something stay, unused ones begin after
\* what another version has received.
LEMMA ContinueRx ==
    ASSUME KeysTypeOK, NEW v \in Versions, initials[v] # None
    PROVE  /\ ContinueInitialRx(v) \in Pns
           /\ \/ ContinueInitialRx(v) = initials[v].rx
              \/ /\ initials[v].rx.hi = 0
                 /\ \E w \in Versions \ {v} :
                      /\ initials[w] # None /\ initials[w].rx \in Pns /\ initials[w].rx.hi > 0
                      /\ ContinueInitialRx(v) = Continuation(initials[v].rx, initials[w].rx)
  <1>1. initials \in [Versions -> Keys \cup {None}] /\ initials[v].rx \in Pns
    BY DEF KeysTypeOK, Keys
  <1>2. CASE initials[v].rx.hi # 0 \/ SeenIn = {}
    BY <1>1, <1>2 DEF ContinueInitialRx
  <1>3. CASE ~(initials[v].rx.hi # 0 \/ SeenIn = {})
    <2> DEFINE other == CHOOSE w \in SeenIn : \A u \in SeenIn : w <= u
    <2>1. ContinueInitialRx(v) = Continuation(initials[v].rx, initials[other].rx)
      BY <1>3 DEF ContinueInitialRx
    <2>2. \E w \in SeenIn : \A u \in SeenIn : w <= u
      <3>1. SeenIn \subseteq Nat /\ SeenIn # {}
        BY <1>3, KeysAssumption DEF SeenIn
      <3> QED  BY <3>1, LeastNat
    <2>3. other \in SeenIn
      BY <2>2
    <2> HIDE DEF other
    <2>4. /\ other \in Versions \ {v} /\ initials[other] # None /\ initials[other].rx \in Pns
          /\ initials[other].rx.hi > 0
      BY <1>1, <1>3, <2>3 DEF SeenIn, Keys
    <2> QED  BY <1>1, <1>3, <2>1, <2>4, ContinuationPns
  <1> QED  BY <1>2, <1>3

\* A packet that is accepted leaves the numbers of its version's packets in its version's keys.
LEMMA AcceptedRx ==
    ASSUME NEW v, NEW pn \in Nat, NEW rx \in Pns, NEW r \in Pns,
           peer \in Seq(Versions), pn + 1 \in DOMAIN peer, peer[pn + 1] = v, RxTrue(peer, v, rx), pn >= r.min,
           \/ r = rx
           \/ rx.hi = 0 /\ \E prev \in Pns : r = Continuation(rx, prev)
    PROVE  /\ RxTrue(peer, v, UsedPn(r, pn)) /\ UsedPn(r, pn) \in Pns
           /\ UsedPn(r, pn).hi >= rx.hi /\ UsedPn(r, pn).hi > pn
  <1> DEFINE q == UsedPn(r, pn)
  <1>1. /\ q \in Pns /\ q.lo = (IF Unused(r) THEN pn ELSE r.lo)
        /\ q.hi = IF pn + 1 > r.hi THEN pn + 1 ELSE r.hi
    BY UsedPnPns
  <1>2. rx.lo \in Nat /\ rx.hi \in Nat /\ r.lo \in Nat /\ r.hi \in Nat /\ r.min \in Nat
    BY DEF Pns
  <1> HIDE DEF q
  <1>3. CASE r = rx
    BY <1>1, <1>2, <1>3 DEF RxTrue, Ordered, Unused, q
  <1>4. CASE rx.hi = 0 /\ \E prev \in Pns : r = Continuation(rx, prev)
    <2>1. PICK prev \in Pns : r = Continuation(rx, prev)
      BY <1>4
    <2>2. Unused(rx) /\ ~Overlaps(rx, prev)
      BY <1>2, <1>4 DEF RxTrue, Ordered, Unused, Overlaps
    <2>3. r.min = prev.hi /\ r.lo = prev.hi /\ r.hi = prev.hi
      BY <2>1, <2>2 DEF Continuation, Pns
    <2>4. q.lo = pn /\ q.hi = pn + 1
      BY <1>1, <1>2, <2>3 DEF Unused
    <2> QED  BY <1>1, <1>2, <1>4, <2>4 DEF RxTrue, Ordered, Unused, q
  <1> QED  BY <1>3, <1>4

\* A packet of the server arrives.
LEMMA VersionArrives ==
    ASSUME IInv, VersionInv, NEW pn \in 0 .. Len(peer) - 1, InitialArrives(pn)
    PROVE  VersionInv'
  <1> DEFINE v == peer[pn + 1]
             r == ContinueInitialRx(v)
  <1>1. /\ KeysTypeOK /\ initials \in [Versions -> Keys \cup {None}] /\ peer \in Seq(Versions)
        /\ DecryptInitial(pn) /\ step = "idle" /\ closed = None /\ nss \in NssType
    BY DEF IInv, TypeOK, KeysTypeOK, AgentTypeOK, NssType, InitialArrives, Idle
  <1>2. /\ \A w \in Versions : /\ initials'[w] = None <=> initials[w] = None
                               /\ initials[w] # None => initials'[w].tx = initials[w].tx
        /\ UNCHANGED peer
    BY <1>1, DecryptKeeps
  <1>3. /\ pn \in Nat /\ pn + 1 \in DOMAIN peer /\ v \in Versions /\ initials[v] # None
    <2>1. initials[v] # None
      BY <1>1, Zenon DEF DecryptInitial
    <2>2. pn \in Nat /\ pn + 1 \in DOMAIN peer /\ v \in Versions
      BY <1>1
    <2> QED  BY <2>1, <2>2
  <1>4. \/ /\ pn >= r.min /\ initials' = [initials EXCEPT ![v].rx = UsedPn(r, pn)]
           /\ accepted' = accepted \cup {pn} /\ UNCHANGED refused
        \/ /\ initials' = [initials EXCEPT ![v].rx = r]
           /\ refused' = refused \cup ({pn} \ accepted) /\ UNCHANGED accepted
    BY <1>1, Zenon DEF DecryptInitial
  \* The phase does not begin again, and no other version is confirmed here.
  <1>5. /\ UNCHANGED version /\ (Early' => nss.fed = 0) /\ (step' = "confirm_version" => nss'.fed # 0)
        /\ closed' = closed \/ closed' \notin {"overlap", "version"}
    <2>1. CASE UNCHANGED agentVars /\ UNCHANGED stepVars /\ UNCHANGED <<step, closed>>
      BY <1>1, <2>1 DEF agentVars, stepVars, Early
    <2>2. CASE nss.fed = 0 /\ Handshake(ServerHello, "confirm_version")
      <3>1. ServerHello \in 0 .. Finished /\ ServerHello # 0
        BY DEF ServerHello, Finished
      <3> QED  BY <2>2, <3>1, HandshakeTurns
    <2> QED  BY <2>1, <2>2 DEF InitialArrives
  <1>6. PeerOrder' /\ ConfirmOnce'
    BY <1>2, <1>5 DEF VersionInv, PeerOrder, ConfirmOnce
  <1>7. OverlapExplained'
    BY <1>1, <1>5, CryptoAssumption DEF OverlapExplained, Reasons
  <1>8. FirstVersion'
    BY <1>2, <1>5 DEF VersionInv, FirstVersion, Early
  <1>9. RxKnown'
    <2> SUFFICES ASSUME Early, refused' = {} PROVE RxKnown'
      BY <1>5 DEF RxKnown, Early
    <2>1. /\ \A w \in Versions : initials[w] # None => RxTrue(peer, w, initials[w].rx)
          /\ \A p \in accepted : /\ p + 1 \in DOMAIN peer /\ initials[peer[p + 1]] # None
                                 /\ initials[peer[p + 1]].rx.hi > p
      BY <1>4 DEF VersionInv, RxKnown
    <2>2. /\ r \in Pns
          /\ \/ r = initials[v].rx
             \/ initials[v].rx.hi = 0 /\ \E prev \in Pns : r = Continuation(initials[v].rx, prev)
      BY <1>1, <1>3, ContinueRx
    <2>3. initials[v] \in Keys /\ initials[v].rx \in Pns /\ initials[v].rx.hi \in Nat
      BY <1>1, <1>3 DEF Keys, Pns
    <2>4. \E q \in Pns : /\ initials' = [initials EXCEPT ![v].rx = q]
                         /\ RxTrue(peer, v, q) /\ q.hi >= initials[v].rx.hi
                         /\ accepted' = accepted \/ (accepted' = accepted \cup {pn} /\ q.hi > pn)
      <3>1. CASE /\ pn >= r.min /\ initials' = [initials EXCEPT ![v].rx = UsedPn(r, pn)]
                 /\ accepted' = accepted \cup {pn}
        <4>1. RxTrue(peer, v, initials[v].rx)
          BY <1>3, <2>1
        <4> HIDE DEF r
        <4>2. /\ RxTrue(peer, v, UsedPn(r, pn)) /\ UsedPn(r, pn) \in Pns
              /\ UsedPn(r, pn).hi >= initials[v].rx.hi /\ UsedPn(r, pn).hi > pn
          BY <1>1, <1>3, <2>2, <2>3, <3>1, <4>1, AcceptedRx
        <4> QED  BY <3>1, <4>2
      <3>2. CASE /\ initials' = [initials EXCEPT ![v].rx = r]
                 /\ refused' = refused \cup ({pn} \ accepted) /\ UNCHANGED accepted
        <4>1. pn \in accepted
          BY <3>2
        <4>2. initials[v].rx.hi # 0
          BY <1>3, <2>1, <2>3, <4>1
        <4>3. r = initials[v].rx
          BY <2>2, <4>2
        <4>4. RxTrue(peer, v, initials[v].rx)
          BY <1>3, <2>1
        <4>5. initials[v].rx.hi >= initials[v].rx.hi
          BY <2>3
        <4> HIDE DEF r, v
        <4>6. /\ initials' = [initials EXCEPT ![v].rx = r] /\ accepted' = accepted
              /\ RxTrue(peer, v, r) /\ r.hi >= initials[v].rx.hi
          BY <3>2, <4>3, <4>4, <4>5, Zenon
        <4> QED  BY <2>2, <4>6, Zenon
      <3> QED  BY <1>4, <3>1, <3>2
    <2>5. PICK q \in Pns : /\ initials' = [initials EXCEPT ![v].rx = q]
                           /\ RxTrue(peer, v, q) /\ q.hi >= initials[v].rx.hi
                           /\ accepted' = accepted \/ (accepted' = accepted \cup {pn} /\ q.hi > pn)
      BY <2>4
    <2> HIDE DEF v, r
    <2>6. initials'[v].rx = q /\ \A w \in Versions \ {v} : initials'[w] = initials[w]
      <3>1. initials'[v] = [initials[v] EXCEPT !.rx = q]
        BY <1>1, <1>3, <2>5
      <3>2. initials'[v].rx = q
        BY <2>3, <3>1 DEF Keys
      <3> QED  BY <1>1, <1>3, <2>5, <3>2
    <2>7. \A w \in Versions : initials'[w] # None => RxTrue(peer, w, initials'[w].rx)
      BY <1>2, <2>1, <2>5, <2>6
    <2>8. ASSUME NEW p \in accepted'
          PROVE  /\ p + 1 \in DOMAIN peer /\ initials'[peer[p + 1]] # None
                 /\ initials'[peer[p + 1]].rx.hi > p
      <3>1. CASE p = pn /\ q.hi > pn
        BY <1>2, <1>3, <2>6, <3>1 DEF v
      <3>2. CASE p \in accepted
        <4>1. /\ p \in Nat /\ p + 1 \in DOMAIN peer /\ peer[p + 1] \in Versions
              /\ initials[peer[p + 1]] # None /\ initials[peer[p + 1]].rx.hi > p
          BY <1>1, <2>1, <3>2 DEF KeysTypeOK
        <4>2. CASE peer[p + 1] = v
          <5>1. q.hi \in Nat
            BY DEF Pns
          <5> QED  BY <1>2, <2>3, <2>5, <2>6, <4>1, <4>2, <5>1
        <4>3. CASE peer[p + 1] # v
          BY <1>2, <2>6, <4>1, <4>3
        <4> QED  BY <4>2, <4>3
      <3> QED  BY <2>5, <2>8, <3>1, <3>2
    <2> QED  BY <1>2, <2>7, <2>8 DEF RxKnown
  <1> QED  BY <1>6, <1>7, <1>8, <1>9 DEF VersionInv

-----------------------------------------------------------------------------
\* The version is changed without an error, unless a packet of the first version was refused
\* before that had not been accepted: confirm_version never misses keys, never finds numbers
\* sent twice, and finds an overlap of those received only then.
THEOREM OverlapNeedsRefusal == Spec => []OverlapExplained
  <1>1. Init => VersionInv
    <2> SUFFICES ASSUME Init PROVE VersionInv
      OBVIOUS
    <2>1. /\ peer = <<>> /\ accepted = {} /\ version = 1 /\ step = "init" /\ closed = None
          /\ \A v \in Versions : initials[v] = None
      BY DEF Init, KeysInit
    <2>2. OverlapExplained
      BY <2>1, CryptoAssumption DEF OverlapExplained, Reasons
    <2> QED  BY <2>1, <2>2 DEF VersionInv, PeerOrder, ConfirmOnce, FirstVersion, RxKnown
  <1>2. IInv /\ VersionInv /\ [Next]_vars => VersionInv'
    <2> SUFFICES ASSUME IInv, VersionInv, [Next]_vars PROVE VersionInv'
      OBVIOUS
    <2>1. CASE UNCHANGED vars
      BY <2>1 DEF vars, VersionInv, PeerOrder, ConfirmOnce, FirstVersion, RxKnown, OverlapExplained, Early
    <2>2. CASE Next
      BY <2>2, VersionElsewhere, VersionInit, VersionConfirm, VersionPeerSends, VersionSend,
         VersionDiscard, VersionArrives DEF Next
    <2> QED  BY <2>1, <2>2
  <1>3. VersionInv => OverlapExplained
    BY DEF VersionInv
  <1> QED  BY <1>1, <1>2, <1>3, Invariance, PTL DEF Spec
=============================================================================
