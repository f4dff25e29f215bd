-------------------------------- MODULE Agent --------------------------------
(***************************************************************************)
(* The TLS client that QUIC drives (SecretAgent and Client of              *)
(* native/h3/files/nss-rs/src/agent.rs) above NSS, which is outside this   *)
(* repository: the state machine of the handshake, the certificate hook,   *)
(* errors and alerts, the secrets NSS hands out, and resumption tokens.    *)
(*                                                                         *)
(* The server's flight is ServerHello, EncryptedExtensions, Certificate    *)
(* (not when it resumes a session) and Finished.  NSS goes as far as what  *)
(* it was fed allows, and stops at a certificate until it has a verdict.   *)
(***************************************************************************)
EXTENDS Integers, Sequences, FiniteSets

CONSTANTS
    MaxTickets,     \* MAX_TICKETS
    MaxReceived     \* bound: tickets the server sends

ASSUME AgentAssumption == MaxTickets \in Nat \ {0} /\ MaxReceived \in Nat

ServerHello         == 1
EncryptedExtensions == 2
Certificate         == 3
Finished            == 4

VARIABLES
    state,          \* SecretAgent::state
    verdict,        \* the value in HandshakeState::Authenticated
    authRequired,   \* SecretAgent::auth_required
    alert,          \* SecretAgent::alert is set
    secrets,        \* SecretHolder: the secrets nobody has taken
    echConfig,      \* SecretAgent::ech_config is not empty
    tickets,        \* Client::resumption, each the number of its arrival
    received,       \* how many tickets have come
    taken, bad,     \* those handed out; those without a usable expiry
    nss             \* NSS

agentVars == <<state, verdict, authRequired, alert, secrets, echConfig, tickets, received,
               taken, bad, nss>>

States == {"New", "InProgress", "AuthenticationPending", "EchFallbackAuthenticationPending",
           "Authenticated", "Complete", "Failed"}

AgentTypeOK ==
    /\ state \in States /\ verdict \in {"none", "ok", "bad"}
    /\ authRequired \in BOOLEAN /\ alert \in BOOLEAN
    /\ secrets \subseteq {"read", "write"} \X {"ZeroRtt", "Handshake", "ApplicationData"}
    /\ echConfig \in BOOLEAN /\ tickets \in Seq(Nat) /\ received \in Nat
    /\ taken \subseteq Nat /\ bad \subseteq Nat
    /\ nss \in [started : BOOLEAN, fed : 0 .. Finished, verified : BOOLEAN, early : BOOLEAN,
                resumed : BOOLEAN, rejected : BOOLEAN]

AgentInit ==
    /\ state = "New" /\ verdict = "none" /\ authRequired = FALSE /\ alert = FALSE
    /\ secrets = {} /\ echConfig = FALSE
    /\ tickets = <<>> /\ received = 0 /\ taken = {} /\ bad = {}
    /\ nss = [started |-> FALSE, fed |-> 0, verified |-> FALSE, early |-> FALSE,
              resumed |-> FALSE, rejected |-> FALSE]

IsFinal == state \in {"Complete", "Failed"}
AuthenticationNeeded == state \in {"AuthenticationPending", "EchFallbackAuthenticationPending"}

\* NSS waits for a verdict; NSS is done; the secrets it has derived.
Asking(n) == n.fed >= Certificate /\ ~n.resumed /\ ~n.verified
Done(n)   == n.fed = Finished /\ ~Asking(n)
Derived(n) ==
    {x \in {<<"write", "ZeroRtt">>, <<"read", "Handshake">>, <<"write", "Handshake">>,
            <<"read", "ApplicationData">>, <<"write", "ApplicationData">>} :
       \/ x[2] = "ZeroRtt" /\ n.started /\ n.early
       \/ x[2] = "Handshake" /\ n.fed >= ServerHello
       \/ x[2] = "ApplicationData" /\ Done(n)}

-----------------------------------------------------------------------------
(***************************************************************************)
(* Configuration, before the handshake.                                    *)
(***************************************************************************)

\* Client::enable_resumption, with a token that allows 0-RTT and that the server will take
\* or not.
EnableResumption(resumes) ==
    /\ state = "New" /\ ~nss.early
    /\ resumes => ~nss.rejected
    /\ nss' = [nss EXCEPT !.early = TRUE, !.resumed = resumes]
    /\ UNCHANGED <<state, verdict, authRequired, alert, secrets, echConfig, tickets,
                   received, taken, bad>>

\* Client::enable_ech with a configuration, which NSS takes or not (valid), and which the
\* server will then reject or not.
EnableEch(valid, rejects) ==
    /\ state = "New" /\ ~echConfig
    /\ rejects => valid /\ ~nss.resumed
    /\ echConfig' = TRUE /\ nss' = [nss EXCEPT !.rejected = rejects]
    /\ UNCHANGED <<state, verdict, authRequired, alert, secrets, tickets, received, taken, bad>>

-----------------------------------------------------------------------------
(***************************************************************************)
(* The handshake.                                                          *)
(***************************************************************************)

\* alert_sent_cb, or no call of it: a fatal alert is recorded and stays.
AlertSent == alert' \in {alert, TRUE}

\* capture_error after a failure, for which NSS may have sent an alert.
Fails ==
    /\ state' = "Failed" /\ AlertSent
    /\ UNCHANGED <<authRequired, secrets>>

NewSecrets(n) == secrets' = secrets \cup (Derived(n) \ Derived(nss))

Pending(n) == IF n.rejected THEN "EchFallbackAuthenticationPending" ELSE "AuthenticationPending"

\* Mutant: the hook's flag is taken away when it is reported.
Blocked_Clears(n, required, res) ==
    /\ ~Done(n) /\ authRequired' = FALSE /\ NewSecrets(n)
    /\ res = "ok" /\ state' = IF required THEN Pending(n) ELSE "InProgress"
    /\ UNCHANGED alert

\* update_state after NSS would block: for the certificate, or for more data.
Blocked(n, required, res) ==
    /\ ~Done(n) /\ authRequired' = required /\ NewSecrets(n)
    /\ \/ res = "ok" /\ state' = IF required THEN Pending(n) ELSE "InProgress"
       \/ required /\ res = "error" /\ UNCHANGED state      \* preinfo()? fails
    /\ UNCHANGED alert

\* update_state after SSL_ForceHandshake; hook: auth_complete_hook was called in it.  Any
\* call may fail; one that ends with ECH rejected does.
UpdateState(n, hook, res) ==
    \/ Blocked(n, authRequired \/ hook, res)
    \/ /\ Done(n) /\ ~n.rejected /\ res = "ok" /\ state' = "Complete" /\ NewSecrets(n)
       /\ UNCHANGED <<authRequired, alert>>
    \/ res = (IF Done(n) /\ n.rejected THEN "EchRetry" ELSE "error") /\ Fails

\* Mutant: going on while a verdict is awaited stands for a good one.
HandshakeRaw_MarksOk(fed, res) ==
    LET n == [nss EXCEPT !.started = TRUE, !.fed = fed,
                         !.verified = @ \/ AuthenticationNeeded \/ state = "Authenticated"]
    IN  /\ UpdateState(n, Asking(n) /\ ~Asking(nss), res)
        /\ nss' = n
        /\ UNCHANGED <<verdict, echConfig, tickets, received, taken, bad>>

\* handshake_raw: a verdict goes to NSS first, then what has come, up to message fed; then
\* the handshake is driven.
HandshakeRaw(fed, res) ==
    LET n == [nss EXCEPT !.started = TRUE, !.fed = fed,
                         !.verified = @ \/ (state = "Authenticated" /\ verdict = "ok")]
    IN  /\ \/ state = "Authenticated" /\ verdict = "bad" /\ res = "error" /\ Fails
           \/ /\ ~(state = "Authenticated" /\ verdict = "bad")
              /\ UpdateState(n, Asking(n) /\ ~Asking(nss), res)
        /\ nss' = n
        /\ UNCHANGED <<verdict, echConfig, tickets, received, taken, bad>>

\* authenticated.
Authenticated(status) ==
    /\ AuthenticationNeeded
    /\ authRequired' = FALSE
    /\ state' = "Authenticated" /\ verdict' = status
    /\ UNCHANGED <<alert, secrets, echConfig, tickets, received, taken, bad, nss>>

\* Mutant: secrets are copied.
Take_Copies(xs) == UNCHANGED agentVars

\* read_secret, write_secret: a secret is handed out once.
Take(xs) ==
    /\ secrets' = secrets \ xs
    /\ UNCHANGED <<state, verdict, authRequired, alert, echConfig, tickets, received,
                   taken, bad, nss>>

-----------------------------------------------------------------------------
(***************************************************************************)
(* Resumption tokens.                                                      *)
(***************************************************************************)

\* Mutant: one ticket too many.
Room_OneMore(ts) == IF Len(ts) > MaxTickets THEN Tail(ts) ELSE ts

\* The oldest goes when the store is full.
Room(ts) == IF Len(ts) >= MaxTickets THEN Tail(ts) ELSE ts

\* resumption_token_cb: the oldest token makes room before the expiry of the new one is
\* known to be usable.
ResumptionToken(usable) ==
    /\ received < MaxReceived
    /\ received' = received + 1
    /\ tickets' = IF usable THEN Append(Room(tickets), received') ELSE Room(tickets)
    /\ bad' = IF usable THEN bad ELSE bad \cup {received'}
    /\ UNCHANGED <<state, verdict, authRequired, alert, secrets, echConfig, taken, nss>>

\* Client::resumption_token: the newest is handed out.
TakeToken ==
    /\ tickets # <<>>
    /\ taken' = taken \cup {tickets[Len(tickets)]}
    /\ tickets' = SubSeq(tickets, 1, Len(tickets) - 1)
    /\ UNCHANGED <<state, verdict, authRequired, alert, secrets, echConfig, received, bad, nss>>
=============================================================================
