------------------------------- MODULE Crypto -------------------------------
(***************************************************************************)
(* The handshake of a QUIC client (Crypto of native/h3/files/neqo/         *)
(* neqo-transport/src/crypto.rs): the TLS agent, the Initial and Handshake *)
(* keys, and what moves secrets from the one to the other.                 *)
(*                                                                         *)
(* The connection that calls Crypto is outside this repository.  One call  *)
(* from outside (a packet, a verdict) makes it call several operations of  *)
(* Crypto one after the other, ending at the first error: these are the    *)
(* steps named by step, and nothing else happens in between.               *)
(***************************************************************************)
EXTENDS InitialKeys, Agent

CONSTANT MaxRetry   \* bound: Retry packets (one in the protocol)

Reasons == {"error", "EchRetry", "alert", "records", "internal", "noCipher", "version", "overlap"}

ASSUME CryptoAssumption == MaxRetry \in Nat /\ None \notin Reasons

VARIABLES
    version,        \* Crypto::version
    zeroRtt,        \* CryptoStates::zero_rtt is set
    app,            \* which of app_write and app_read are set
    installed,      \* how often Handshake keys have been installed
    step,           \* the step that is due of the call being processed, or "idle"
    packetVersion,  \* the version of the packet being processed
    closed,         \* why the connection has ended, or None
    retries

vars == <<initials, handshake, last, peer, accepted, refused, state, verdict, authRequired,
          alert, secrets, echConfig, tickets, received, taken, bad, nss, version, zeroRtt,
          app, installed, step, packetVersion, closed, retries>>

stepVars == <<version, zeroRtt, app, installed, packetVersion, retries>>

\* Crypto::new, and init for the first time.
Init ==
    /\ KeysInit /\ AgentInit
    /\ version = 1 /\ zeroRtt = FALSE /\ app = {} /\ installed = 0
    /\ step = "init" /\ packetVersion = 1 /\ closed = None /\ retries = 0

Idle == step = "idle" /\ closed = None

\* A step succeeds and the next one is due, or it fails and the connection ends.
Then == [x \in {"init", "enable_0rtt", "install_keys", "confirm_version", "application"} |->
           IF x \in {"confirm_version", "application"} THEN "install_keys" ELSE "idle"]
Return(res) ==
    IF res = "ok" THEN step' = Then[step] /\ UNCHANGED closed
    ELSE step' = "idle" /\ closed' = res

-----------------------------------------------------------------------------
(***************************************************************************)
(* The operations of Crypto.                                               *)
(***************************************************************************)
InitStep ==
    /\ step = "init"
    /\ \E first \in FirstPns : InitKeys(first)
    /\ Return("ok")
    /\ UNCHANGED <<handshake, last, peer, accepted, refused>>
    /\ UNCHANGED agentVars /\ UNCHANGED stepVars

\* handshake: drive TLS, then buffer_records, which refuses what is not for a CRYPTO stream.
\* What follows is the application keys when the handshake is now complete, else next.
Handshake(fed, next) ==
    /\ \E res \in {"ok", "error", "EchRetry"} :
         /\ HandshakeRaw(fed, res)
         /\ \/ /\ res = "ok" /\ UNCHANGED closed
               /\ step' = IF state' = "Complete" /\ app = {} THEN "application" ELSE next
            \/ res = "ok" /\ closed' = "records" /\ step' = "idle"
            \/ /\ res # "ok" /\ step' = "idle"
               /\ closed' = IF res # "EchRetry" /\ alert' THEN "alert" ELSE res
    /\ UNCHANGED <<version, zeroRtt, app, installed, retries>>

\* enable_0rtt, after the first flight.
Enable0rtt ==
    /\ step = "enable_0rtt"
    /\ LET secret == {x \in secrets : x = <<"write", "ZeroRtt">>}
       IN  IF nss.early
             THEN /\ Take(secret)
                  /\ zeroRtt' = (secret # {})
                  /\ Return(IF secret = {} THEN "internal" ELSE "ok")
             ELSE Return("ok") /\ UNCHANGED agentVars /\ UNCHANGED zeroRtt
    /\ UNCHANGED keyVars /\ UNCHANGED <<version, app, installed, packetVersion, retries>>

\* confirm_version, with the version of a packet that brought CRYPTO data.
ConfirmStep ==
    /\ step = "confirm_version"
    /\ \E res \in {"ok", "version", "overlap"} :
         /\ ConfirmVersion(version, packetVersion, res)
         /\ version' = IF res = "ok" THEN packetVersion ELSE version
         /\ Return(res)
    /\ UNCHANGED agentVars /\ UNCHANGED <<zeroRtt, app, installed, packetVersion, retries>>

\* install_keys does nothing once TLS is final.  install_handshake_keys: the write secret is
\* taken first, and nothing is done without one; the cipher suite comes from preinfo, which
\* may fail or not tell it yet ("noCipher", an Error::Internal as well).
InstallHandshakeKeys ==
    /\ step = "install_keys"
    /\ \E w \in {{x \in secrets : x = <<"write", "Handshake">>}},
          r \in {{x \in secrets : x = <<"read", "Handshake">>}} :
         \/ /\ IsFinal \/ w = {}
            /\ Return("ok")
            /\ UNCHANGED agentVars /\ UNCHANGED <<handshake, installed>>
         \/ /\ ~IsFinal /\ w # {}
            /\ Take(w \cup r)
            /\ \E res \in IF r = {} THEN {"internal"} ELSE {"ok", "error", "noCipher"} :
                 /\ Return(res)
                 /\ handshake' = IF res = "ok" THEN KeyPair(0) ELSE handshake
                 /\ installed' = IF res = "ok" THEN installed + 1 ELSE installed
    /\ UNCHANGED <<initials, last, peer, accepted, refused, version, zeroRtt, app, packetVersion, retries>>

\* install_application_keys: the write key ends 0-RTT; then the read key.
InstallApplicationKeys ==
    /\ step = "application"
    /\ LET w == {x \in secrets : x = <<"write", "ApplicationData">>}
           r == {x \in secrets : x = <<"read", "ApplicationData">>}
       IN  /\ Take(w \cup r)
           /\ zeroRtt' = (zeroRtt /\ w = {})
           /\ app' = {x[1] : x \in w \cup r}
           /\ Return(IF r = {} THEN "internal" ELSE "ok")
    /\ UNCHANGED keyVars /\ UNCHANGED <<version, installed, packetVersion, retries>>

-----------------------------------------------------------------------------
(***************************************************************************)
(* What comes from outside.                                                *)
(***************************************************************************)
Configure ==
    /\ Idle
    /\ \/ \E resumes \in BOOLEAN : EnableResumption(resumes)
       \/ \E valid, rejects \in BOOLEAN : EnableEch(valid, rejects)
    /\ UNCHANGED keyVars /\ UNCHANGED stepVars /\ UNCHANGED <<step, closed>>

\* The connection starts: a ClientHello.
Start ==
    /\ Idle /\ state = "New"
    /\ Handshake(0, "enable_0rtt")
    /\ UNCHANGED keyVars /\ UNCHANGED packetVersion

\* A Retry, before anything else from the server: Initial keys are made anew.
Retry ==
    /\ Idle /\ nss.started /\ nss.fed = 0 /\ retries < MaxRetry /\ peer = <<>>
    /\ retries' = retries + 1 /\ step' = "init"
    /\ UNCHANGED keyVars /\ UNCHANGED agentVars
    /\ UNCHANGED <<version, zeroRtt, app, installed, packetVersion, closed>>

PeerSendsInitial ==
    /\ Idle /\ nss.started /\ ~InitialsIsEmpty
    /\ \E v \in Versions : PeerSends(v)
    /\ UNCHANGED agentVars /\ UNCHANGED stepVars /\ UNCHANGED <<step, closed>>

\* An Initial packet: refused or without news for TLS, or completing the ServerHello.  The
\* server repeats what is missing: at the latest its last packet brings the rest.
InitialArrives(pn) ==
    /\ Idle /\ DecryptInitial(pn)
    /\ \/ /\ pn < MaxPeer - 1 \/ nss.fed > 0
          /\ UNCHANGED agentVars /\ UNCHANGED stepVars /\ UNCHANGED <<step, closed>>
       \/ /\ pn \in accepted' \ accepted /\ nss.fed = 0
          /\ packetVersion' = peer[pn + 1]
          /\ Handshake(ServerHello, "confirm_version")

\* Handshake data, once it can be read.
HandshakeArrives(fed) ==
    /\ Idle /\ handshake # None
    /\ fed > nss.fed /\ ~(nss.resumed /\ fed = Certificate)
    /\ Handshake(fed, "install_keys")
    /\ UNCHANGED keyVars /\ UNCHANGED packetVersion

\* The application has looked at the certificate; TLS goes on at once.
Verdict ==
    /\ Idle
    /\ \E status \in {"ok", "bad"} : Authenticated(status)
    /\ step' = "resume"
    /\ UNCHANGED keyVars /\ UNCHANGED stepVars /\ UNCHANGED closed

Resume ==
    /\ step = "resume"
    /\ Handshake(nss.fed, "idle")
    /\ UNCHANGED keyVars /\ UNCHANGED packetVersion

SendPacket ==
    /\ Idle /\ nss.started
    /\ EncryptInitial(version) \/ EncryptHandshake
    /\ UNCHANGED agentVars /\ UNCHANGED stepVars /\ UNCHANGED <<step, closed>>

\* Initial keys go once there are Handshake keys, those when the handshake is confirmed.
Discard ==
    /\ Idle
    /\ \/ installed > 0 /\ DiscardInitial
       \/ app # {} /\ InitialsIsEmpty /\ DiscardHandshake
    /\ UNCHANGED agentVars /\ UNCHANGED stepVars /\ UNCHANGED <<step, closed>>

\* A ticket comes, or a token is taken (bound: after the handshake is confirmed).
Ticket ==
    /\ Idle /\ state = "Complete" /\ handshake = None
    /\ (\E usable \in BOOLEAN : ResumptionToken(usable)) \/ TakeToken
    /\ UNCHANGED keyVars /\ UNCHANGED stepVars /\ UNCHANGED <<step, closed>>

Next ==
    \/ InitStep \/ Enable0rtt \/ ConfirmStep \/ InstallHandshakeKeys \/ InstallApplicationKeys
    \/ Configure \/ Start \/ Retry \/ PeerSendsInitial
    \/ \E pn \in 0 .. Len(peer) - 1 : InitialArrives(pn)
    \/ \E fed \in EncryptedExtensions .. Finished : HandshakeArrives(fed)
    \/ Verdict \/ Resume \/ SendPacket \/ Discard \/ Ticket

Spec == Init /\ [][Next]_vars

\* A call is processed to its end; the connection starts; the server's packets and data come
\* while it answers; the application looks at the certificate.
Fairness ==
    /\ WF_vars(InitStep \/ Enable0rtt \/ ConfirmStep \/ InstallHandshakeKeys
               \/ InstallApplicationKeys \/ Resume)
    /\ WF_vars(Start) /\ WF_vars(Verdict)
    /\ WF_vars(PeerSendsInitial)
    /\ WF_vars(\E pn \in 0 .. Len(peer) - 1 : InitialArrives(pn) /\ nss'.fed > nss.fed)
    /\ WF_vars(HandshakeArrives(Finished))

LiveSpec == Spec /\ Fairness

-----------------------------------------------------------------------------
(***************************************************************************)
(* What holds.                                                             *)
(***************************************************************************)

\* Every variable has its type.
TypeOK ==
    /\ KeysTypeOK /\ AgentTypeOK
    /\ version \in Versions /\ packetVersion \in Versions /\ zeroRtt \in BOOLEAN
    /\ app \subseteq {"read", "write"} /\ installed \in Nat /\ retries \in Nat
    /\ step \in {"idle", "init", "enable_0rtt", "confirm_version", "install_keys", "application", "resume"}
    /\ closed \in Reasons \cup {None}

\* No handshake completes, and no application key is installed, unless the application
\* found this server's certificate good or the session is resumed, however data and the
\* verdict are interleaved; never when the server rejected ECH.
AuthenticatedFirst ==
    state = "Complete" \/ app # {} => (verdict = "ok" \/ nss.resumed) /\ ~nss.rejected

\* While a certificate waits for its verdict, TLS is in a state in which authenticated()
\* may be called (it panics otherwise), also after more data arrived.
VerdictWelcome ==
    Idle /\ nss.started /\ Asking(nss) => AuthenticationNeeded

\* The number the next Initial or Handshake packet gets is larger than all sent before,
\* over a Retry, a change of version, and every call of install_keys.
NumbersFresh ==
    /\ initials[version] # None => initials[version].tx.hi > last["Initial"]
    /\ handshake # None => handshake.tx.hi > last["Handshake"]

\* A packet is kept for Handshake keys exactly as long as these are still to come.
PendingTrue ==
    Idle => (RxPendingHandshake <=> installed = 0)

\* Secrets and keys come in the order Crypto relies on: no Error::Internal for a secret that
\* is not there (NSS may still owe the cipher suite), Handshake keys are there before TLS is
\* complete, application keys come in pairs and end 0-RTT.
KeysInOrder ==
    /\ closed # "internal"
    /\ state = "Complete" => installed = 1
    /\ Idle /\ state = "Complete" => app = {"read", "write"} /\ ~zeroRtt

\* confirm_version fails only after a packet of the first version that came late was refused
\* (and then it may: maybe_continue_initial_rx moved that version's numbers beyond those of
\* the packets that overtook it).
OverlapExplained == closed \in {"overlap", "version"} => refused # {}

\* The store of tokens is bounded and gives up the older ones only; none is handed out twice.
TokensNewest ==
    /\ Len(tickets) <= MaxTickets
    /\ \A i \in DOMAIN tickets : tickets[i] \notin taken
    /\ \A t \in (1 .. received) \ (taken \cup bad) :
         (\A i \in DOMAIN tickets : tickets[i] # t) => \A i \in DOMAIN tickets : tickets[i] > t

\* The handshake ends: complete with its keys, or with an error that is reported.
HandshakeEnds == <>(closed # None \/ app = {"read", "write"})
=============================================================================
