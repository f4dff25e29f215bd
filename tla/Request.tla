------------------------------ MODULE Request ------------------------------
(***************************************************************************)
(* The request loop of a session: request (redirects), _do_hop (pacing by  *)
(* the RateLimiter and backoff on 429/503) and _send_once (the HTTP/3      *)
(* attempt, its fallback, and retries), for blocking calls and for asyncio *)
(* tasks that share the session's RateLimiter and the process's Alt-Svc    *)
(* cache.                                                                  *)
(*                                                                         *)
(* What lies below one attempt, the pool and the connection, is modelled   *)
(* by Pool and H2Conn; here an attempt ends in one of the ways those allow.*)
(* A response is its status and whether it advertises HTTP/3. Time is      *)
(* counted in whole units and passes only while a call sleeps: nothing     *)
(* else looks at the clock.                                                *)
(***************************************************************************)
EXTENDS Integers, Sequences, FiniteSets

CONSTANTS
    Calls,            \* calls of request()
    Async,            \* ... those that are asyncio tasks, which can be cancelled
    Hosts,
    Eligible,         \* hosts reached by https on 443, without a proxy, with neqo-client there
    AlwaysH3,         \* h3=True, rather than "auto"
    Methods,          \* the methods calls start with
    Retries,          \* retries
    BackoffRetries,   \* backoff_retries
    MaxRedirects,     \* max_redirects
    Interval,         \* RateLimiter.interval
    Jitter,           \* ... and 15% of it
    Waits,            \* what _retry_after may return
    MaxRounds         \* bound: rounds of _do_hop per host

ASSUME RequestAssumption ==
    /\ Async \subseteq Calls /\ Hosts # {} /\ Eligible \subseteq Hosts
    /\ AlwaysH3 \in BOOLEAN
    /\ {Retries, BackoffRetries, MaxRedirects, Interval, Jitter, MaxRounds} \subseteq Nat
    /\ Jitter <= Interval
    /\ Waits \subseteq Nat

IDEMPOTENT == {"GET", "HEAD", "PUT", "DELETE", "OPTIONS", "TRACE"}

VARIABLES
    call,        \* the locals of a call of request(): see Fresh
    clock,       \* time.monotonic()
    nxt,         \* RateLimiter._next
    h3hosts,     \* _H3_HOSTS
    \* History, per host: when each slot reserved so far is, and the slots in which a round of
    \* _send_once began.
    slots, begun

history == <<slots, begun>>
vars == <<call, clock, nxt, h3hosts, slots, begun>>

Larger(x, y) == IF x >= y THEN x ELSE y

\* The locals of a call that is not running. pc is where it is; then the request of the
\* present hop; the redirects followed, the answers 429/503 waited for in this hop and the
\* attempts that failed in this _send_once; when time.sleep ends. History: the slot it
\* holds (0: none); of this _send_once, how many copies of the request were handed out and how
\* they were left without an answer: "wire", "timeout" on a connection, "h3", "h3timeout"
\* with neqo-client.
Fresh == [pc |-> "idle", method |-> "GET", body |-> FALSE, host |-> CHOOSE h \in Hosts : TRUE,
          hop |-> 0, attempt |-> 0, tries |-> 0, wake |-> 0, slot |-> 0,
          copies |-> 0, lost |-> {}]

\* request() returned or raised; nothing depends on which.
Ended == [Fresh EXCEPT !.pc = "ended"]

Init ==
    /\ call = [c \in Calls |-> Fresh]
    /\ clock = 0
    /\ nxt = [h \in Hosts |-> 0]
    /\ h3hosts = {}
    /\ slots = [h \in Hosts |-> <<>>] /\ begun = [h \in Hosts |-> {}]

\* Call c goes on with new locals; nothing else changes.
Locals(c, new) == call' = [call EXCEPT ![c] = new]
Alone(c, new) == Locals(c, new) /\ UNCHANGED <<clock, nxt, h3hosts, history>>

\* request() begins its first hop; any method may have a body.
Start(c) ==
    /\ call[c].pc = "idle"
    /\ \E m \in Methods, b \in BOOLEAN, h \in Hosts :
          Alone(c, [Fresh EXCEPT !.pc = "pace", !.method = m, !.body = b, !.host = h])

\* Mutant: the next slot is counted from now rather than from the one just reserved.
Delay_FromNow(c) ==
    LET h == call[c].host
        start == Larger(clock, nxt[h])
    IN  /\ call[c].pc = "pace" /\ Len(slots[h]) < MaxRounds
        /\ nxt' = [nxt EXCEPT ![h] = clock + Interval]
        /\ \E j \in (-Jitter) .. Jitter :
              Locals(c, [call[c] EXCEPT !.pc = "sleep", !.wake = Larger(clock, start + j),
                                        !.slot = Len(slots[h]) + 1])
        /\ slots' = [slots EXCEPT ![h] = Append(@, start)]
        /\ UNCHANGED <<clock, h3hosts, begun>>

\* RateLimiter.delay: the next slot of the host is reserved under the lock, and the call
\* sleeps until it, give or take the jitter.
Delay(c) ==
    LET h == call[c].host
        start == Larger(clock, nxt[h])
    IN  /\ call[c].pc = "pace" /\ Len(slots[h]) < MaxRounds
        /\ nxt' = [nxt EXCEPT ![h] = start + Interval]
        /\ \E j \in (-Jitter) .. Jitter :
              Locals(c, [call[c] EXCEPT !.pc = "sleep", !.wake = Larger(clock, start + j),
                                        !.slot = Len(slots[h]) + 1])
        /\ slots' = [slots EXCEPT ![h] = Append(@, start)]
        /\ UNCHANGED <<clock, h3hosts, begun>>

ShouldTryH3(h) == h \in Eligible /\ (AlwaysH3 \/ h \in h3hosts)

\* The sleep ends and _send_once begins, with HTTP/3 (which does not send if there is a body)
\* or with a connection.
SendOnce(c) ==
    LET h == call[c].host IN
    /\ call[c].pc = "sleep"
    /\ clock >= call[c].wake
    /\ begun' = [begun EXCEPT ![h] = @ \cup {call[c].slot}]
    /\ Locals(c, [call[c] EXCEPT !.pc = IF ShouldTryH3(h) THEN "h3" ELSE "conn",
                                 !.wake = 0, !.slot = 0,
                                 !.copies = IF ShouldTryH3(h) /\ ~call[c].body THEN 1 ELSE 0])
    /\ UNCHANGED <<clock, nxt, h3hosts, slots>>

\* The HTTP/3 attempt fails, at once if there is a body, and _send_once goes on with HTTP/2:
\* the copy is lost to the subprocess's timeout or in another way, sent or not.
H3Fail(c) ==
    /\ call[c].pc = "h3"
    /\ \E how \in {"h3", "h3timeout"} :
          Alone(c, [call[c] EXCEPT !.pc = "conn",
                                  !.lost = IF call[c].body THEN @ ELSE @ \cup {how}])

Attempts(c) == IF call[c].method \in IDEMPOTENT THEN Larger(1, Retries) ELSE 1

\* Mutant: failed attempts are not counted.
Retry_Uncounted(c, how) ==
    Alone(c, IF call[c].tries + 1 < Attempts(c)
             THEN [call[c] EXCEPT !.pc = "conn", !.lost = @ \cup how]
             ELSE Ended)

\* except (ConnectionError, IOError): the next attempt, or raise the last error.
Retry(c, how) ==
    Alone(c, IF call[c].tries + 1 < Attempts(c)
             THEN [call[c] EXCEPT !.pc = "conn", !.tries = @ + 1, !.lost = @ \cup how]
             ELSE Ended)

\* _get_conn raises.
ConnFail(c) == call[c].pc = "conn" /\ Retry(c, {})

\* _get_conn returns, and the request is written.
Write(c) ==
    /\ call[c].pc = "conn"
    /\ Alone(c, [call[c] EXCEPT !.pc = "wire", !.copies = @ + 1])

\* The write or the stream fails with a ConnectionError or IOError.
Broken(c) == call[c].pc = "wire" /\ Retry(c, {"wire"})

\* Mutant: the two except clauses are swapped, and IOError catches the timeout.
TimedOut_Retried(c) == call[c].pc = "wire" /\ Retry(c, {"timeout"})

\* TimeoutError, although it is an IOError too, is raised at once.
TimedOut(c) == call[c].pc = "wire" /\ Alone(c, Ended)

\* _send_once returns a response; h3.request never does if there is a body.
Answered(c) == call[c].pc = "wire" \/ (call[c].pc = "h3" /\ ~call[c].body)

\* An answer that is not used, because of an exception nobody catches: a body over the limit
\* once decompressed, an HTTP/1.1 head that cannot be parsed, a cookie jar that another
\* thread changes while as_dict() iterates.
Unusable(c) == Answered(c) /\ Alone(c, Ended)

\* Mutant: one backoff too many.
Backoff_OffByOne(c) ==
    /\ Answered(c)
    /\ call[c].attempt <= BackoffRetries
    /\ \E w \in Waits :
          Alone(c, [call[c] EXCEPT !.pc = "backoff", !.attempt = @ + 1, !.tries = 0,
                                   !.wake = clock + w, !.copies = 0, !.lost = {}])

\* 429 or 503 with backoff left: _do_hop sleeps as told. Alt-Svc is not looked at.
Backoff(c) ==
    /\ Answered(c)
    /\ call[c].attempt < BackoffRetries
    /\ \E w \in Waits :
          Alone(c, [call[c] EXCEPT !.pc = "backoff", !.attempt = @ + 1, !.tries = 0,
                                   !.wake = clock + w, !.copies = 0, !.lost = {}])

Resume(c) ==
    /\ call[c].pc = "backoff"
    /\ clock >= call[c].wake
    /\ Alone(c, [call[c] EXCEPT !.pc = "pace", !.wake = 0])

NoteAltSvc(c) == \E new \in SUBSET {call[c].host} : h3hosts' = h3hosts \cup new

\* The method of the next hop: 301, 302 and 303 turn a POST, 303 also a PUT or PATCH, into
\* a GET, whose body is dropped.
Rewritten(m, status) ==
    IF \/ m = "POST" /\ status \in {301, 302, 303}
       \/ m \in {"PUT", "PATCH"} /\ status = 303
    THEN "GET" ELSE m

\* A redirect with a location: the next hop, or "too many redirects". (With
\* allow_redirects=False a call only ever returns: Return may be taken instead.)
Redirect(c) ==
    /\ Answered(c)
    /\ NoteAltSvc(c)
    /\ \E m \in {Rewritten(call[c].method, status) : status \in {301, 302, 303, 307, 308}},
          to \in Hosts :
          Locals(c, IF call[c].hop < MaxRedirects
                    THEN [Fresh EXCEPT !.pc = "pace", !.method = m, !.host = to,
                                       !.body = call[c].body /\ m = call[c].method,
                                       !.hop = call[c].hop + 1]
                    ELSE Ended)
    /\ UNCHANGED <<clock, nxt, history>>

\* Any other response, or a 429/503 or a redirect that is not followed.
Return(c) ==
    /\ Answered(c)
    /\ NoteAltSvc(c)
    /\ Locals(c, Ended)
    /\ UNCHANGED <<clock, nxt, history>>

\* A task is cancelled at an await; CancelledError is no Exception, so nothing catches it.
Cancel(c) ==
    /\ c \in Async
    /\ call[c].pc \in {"sleep", "backoff", "h3", "conn", "wire"}
    /\ Alone(c, Ended)

Tick ==
    /\ \E c \in Calls : call[c].pc \in {"sleep", "backoff"} /\ call[c].wake > clock
    /\ clock' = clock + 1
    /\ UNCHANGED <<call, nxt, h3hosts, history>>

\* Every call ended, or needs a round beyond the bound.
Terminated ==
    /\ \A c \in Calls :
          call[c].pc = "ended" \/ (call[c].pc = "pace" /\ Len(slots[call[c].host]) = MaxRounds)
    /\ UNCHANGED vars

Work(c) ==
    \/ Delay(c) \/ SendOnce(c) \/ H3Fail(c)
    \/ ConnFail(c) \/ Write(c) \/ Broken(c) \/ TimedOut(c) \/ Unusable(c)
    \/ Backoff(c) \/ Resume(c) \/ Redirect(c) \/ Return(c)

Next == (\E c \in Calls : Start(c) \/ Work(c) \/ Cancel(c)) \/ Tick \/ Terminated

Spec == Init /\ [][Next]_vars

-----------------------------------------------------------------------------

CallLocals ==
    [pc : {"idle", "pace", "sleep", "h3", "conn", "wire", "backoff", "ended"},
     method : Methods \cup {"GET"}, body : BOOLEAN, host : Hosts,
     hop : 0 .. MaxRedirects, attempt : 0 .. BackoffRetries, tries : 0 .. Larger(1, Retries) - 1,
     wake : Nat, slot : Nat, copies : Nat, lost : SUBSET {"h3", "h3timeout", "wire", "timeout"}]

\* The counters of the three loops keep within their ranges.
TypeOK ==
    /\ call \in [Calls -> CallLocals]
    /\ clock \in Nat /\ nxt \in [Hosts -> Nat] /\ h3hosts \subseteq Hosts
    /\ slots \in [Hosts -> Seq(Nat)] /\ begun \in [Hosts -> SUBSET Nat]

\* A copy of the request is given to a connection or to neqo-client.
Handed(c) == call'[c].pc \in {"h3", "wire"} /\ call[c].pc # call'[c].pc

\* What becomes of a request after a copy of it was given to a connection and left
\* without an answer: after a response timeout nothing is sent again ("re-sending would just
\* duplicate work"), after a broken connection only an idempotent request is; and what has a
\* body was never given to neqo-client. Of copies lost with neqo-client it says nothing more:
\* see ResentSafely.
ResentOnlyIf ==
    [][\A c \in Calls :
          Handed(c) =>
             /\ "timeout" \notin call[c].lost
             /\ "wire" \in call[c].lost => call[c].method \in IDEMPOTENT
             /\ call[c].body => call[c].lost \cap {"h3", "h3timeout"} = {}]_vars

\* The pace of the rounds of _do_hop, each one slot: counted from any slot of a host, also the
\* first after a pause, at most one more round has begun than the time passed allows, give or
\* take one jitter, whichever calls, redirects and backoffs they come from.
Paced ==
    \A h \in Hosts : \A i \in begun[h] :
        LET rounds == {k \in begun[h] : k >= i}
        IN  (Cardinality(rounds) - 1) * Interval <= clock - slots[h][i] + Jitter

\* What one slot lets through: a round hands out no more copies of its request than it has
\* attempts, and one more over HTTP/3 if there is no body. So a POST with a body goes out once
\* and one without a body at most twice.
CopiesPerRound ==
    \A c \in Calls : call[c].copies <= Attempts(c) + (IF call[c].body THEN 0 ELSE 1)

\* Where a call is in one round of _do_hop.
Place(pc) == CASE pc = "idle" -> 0 [] pc = "backoff" -> 1 [] pc = "pace" -> 2 [] pc = "sleep" -> 3
               [] pc = "h3" -> 4 [] pc = "conn" -> 5 [] pc = "wire" -> 6 [] OTHER -> 7

\* A call with locals x may go on with y: by ending, or by moving on in the order of
\* (redirects, backoff, tries, place).
Later(x, y) ==
    x # y =>
        /\ Place(x.pc) < 7
        /\ Place(y.pc) < 7 =>
              \/ x.hop < y.hop
              \/ x.hop = y.hop /\ x.attempt < y.attempt
              \/ x.hop = y.hop /\ x.attempt = y.attempt /\ x.tries < y.tries
              \/ /\ x.hop = y.hop /\ x.attempt = y.attempt /\ x.tries = y.tries
                 /\ Place(x.pc) < Place(y.pc)

MovesOn == \A c \in Calls : Later(call[c], call'[c])

\* Every step of a call ends it or moves it on, so the three nested loops of request,
\* _do_hop and _send_once end together: no redirect, 429 or broken connection gives back a
\* round that was used up. A call that ended stays so.
Advances == [][MovesOn]_vars

-----------------------------------------------------------------------------
(***************************************************************************)
(* What the comments say and the code does not do.                         *)
(***************************************************************************)

\* client.py:89-91 "non-idempotent methods (POST/PATCH) must not be retried or the peer could
\* act on a duplicate", and 347-348 "response timed out: [...] re-sending would just duplicate
\* work": once a copy was left without an answer, another is sent only of an idempotent
\* request, and never after a timeout.
ResentSafely ==
    [][\A c \in Calls :
          Handed(c) /\ call[c].lost # {} =>
             /\ call[c].method \in IDEMPOTENT
             /\ call[c].lost \cap {"timeout", "h3timeout"} = {}]_vars
=============================================================================
