-------------------------------- MODULE Pool --------------------------------
(***************************************************************************)
(* The connection pool of a Session (never_fox/client.py, and its use by   *)
(* never_fox/aio.py): warm lookup, single-flight connecting per key,       *)
(* eviction of closed connections into _draining, reaping, Session.close.  *)
(*                                                                         *)
(* A connection is seen from outside: "live", "goaway" (closed for new     *)
(* streams, answers still coming), "stopping" (close() was called, the     *)
(* reader exits at its next idle read), "dead" (reader gone, transport     *)
(* freed).  H2Conn has the inside.  Every `with _lock` block is one step;  *)
(* Condition.wait is the state "waiting".                                  *)
(***************************************************************************)
EXTENDS Integers, FiniteSets

CONSTANTS
    Calls,      \* the calls that need a connection; each asks once
    Async,      \* those made through aio.py, which try _existing_conn first
    Closers,    \* the threads that call Session.close()
    Keys,       \* (host, port, proxy)
    KeyOf,      \* the key of each call
    Conns,      \* bound: the connections that may ever be opened
    NoConn,
    MaxConc,    \* max_concurrent of every connection
    Faults      \* may connecting fail, hosts speak HTTP/1.1, peers go away, calls time out?

ASSUME PoolAssumption ==
    /\ Async \subseteq Calls /\ Calls \cap Closers = {}
    /\ KeyOf \in [Calls -> Keys]
    /\ NoConn \notin Conns
    /\ IsFiniteSet(Calls) /\ MaxConc \in Nat
    /\ Faults \in BOOLEAN

VARIABLES
    pool,       \* Session._pool
    draining,   \* Session._draining
    creating,   \* Session._creating
    pc,         \* where each call and each closer is
    mine,       \* connections a thread took out under the lock and is closing
    conn,       \* the connection a call was given
    cst, active \* each connection's state and the calls with a stream on it

poolVars == <<pool, draining, creating>>
connVars == <<cst, active>>
vars == <<pool, draining, creating, pc, mine, conn, cst, active>>

Final    == {"done", "failed", "aborted"}
InFlight == {"connecting", "failing", "h1", "published"}     \* the try: block of _get_conn
CallPcs  == {"idle", "cold", "closing", "lookup", "waiting", "sending", "opening", "inflight"}
            \cup InFlight \cup Final
CloserPcs == {"idle", "reaping", "clearing", "done"}

Init ==
    /\ pool = [k \in Keys |-> {}] /\ draining = {} /\ creating = {}
    /\ pc = [t \in Calls \cup Closers |-> "idle"]
    /\ mine = [t \in Calls \cup Closers |-> {}]
    /\ conn = [t \in Calls |-> NoConn]
    /\ cst = [c \in Conns |-> "none"] /\ active = [c \in Conns |-> {}]

Goto(t, l) == pc' = [pc EXCEPT ![t] = l]
Closed(c)  == cst[c] \in {"goaway", "stopping", "dead"}
Usable(c)  == cst[c] = "live" /\ Cardinality(active[c]) < MaxConc

\* sorted(conns, key=active), first that acquires.
LeastLoaded(C) ==
    {c \in C : Usable(c) /\ \A d \in C : Usable(d) => Cardinality(active[c]) <= Cardinality(active[d])}

\* Mutants: a closed connection is dropped; the list, not its members, is appended.
Evict_Drops(k, drained) ==
    pool' = [pool EXCEPT ![k] = {c \in @ : ~Closed(c)}] /\ draining' = drained
Evict_AppendsList(k, drained) ==
    /\ pool' = [pool EXCEPT ![k] = {c \in @ : ~Closed(c)}]
    /\ draining' = drained \cup {{c \in pool[k] : Closed(c)}}

\* _evict_closed on key k, with the connections of `drained` left in _draining.
Evict(k, drained) ==
    /\ pool' = [pool EXCEPT ![k] = {c \in @ : ~Closed(c)}]
    /\ draining' = drained \cup {c \in pool[k] : Closed(c)}

\* Hand t an existing connection of its key.
Reuse(t) ==
    /\ \E c \in LeastLoaded(pool[KeyOf[t]]) : conn' = [conn EXCEPT ![t] = c]
    /\ Goto(t, "sending")

NoneUsable(t) == \A c \in pool[KeyOf[t]] : ~Usable(c)

-----------------------------------------------------------------------------
(***************************************************************************)
(* _existing_conn, _reap and _get_conn.                                    *)
(***************************************************************************)

\* _existing_conn: sweep the drained connections whose reader is gone (their close()
\* has nothing left to do), evict, reuse or go on to _get_conn.
WarmLookup(t) ==
    /\ t \in Async /\ pc[t] = "idle"
    /\ Evict(KeyOf[t], {c \in draining : cst[c] # "dead"})
    /\ \/ Reuse(t)
       \/ NoneUsable(t) /\ Goto(t, "cold") /\ UNCHANGED conn
    /\ UNCHANGED <<creating, mine, connVars>>

\* _reap: take _draining under the lock ...
Reap(t) ==
    /\ t \in Calls
    /\ IF t \in Async THEN pc[t] = "cold" ELSE pc[t] = "idle"
    /\ mine' = [mine EXCEPT ![t] = draining] /\ draining' = {}
    /\ Goto(t, "closing")
    /\ UNCHANGED <<pool, creating, conn, connVars>>

\* ... and close each connection outside it (also Session.close's loop).  close() stops
\* the reader of a connection that still has one and waits at most five seconds.
CloseOne(t) ==
    /\ \E c \in mine[t] :
          /\ mine' = [mine EXCEPT ![t] = @ \ {c}]
          /\ cst' = [cst EXCEPT ![c] = IF @ = "dead" THEN @ ELSE "stopping"]
    /\ UNCHANGED <<poolVars, pc, conn, active>>

Reaped(t) ==
    /\ t \in Calls /\ pc[t] = "closing" /\ mine[t] = {}
    /\ Goto(t, "lookup")
    /\ UNCHANGED <<poolVars, mine, conn, connVars>>

\* Mutant: no test of _creating.
Lookup_NoTurn(t) ==
    /\ pc[t] = "lookup" /\ Evict(KeyOf[t], draining)
    /\ \/ Reuse(t) /\ UNCHANGED creating
       \/ /\ NoneUsable(t) /\ creating' = creating \cup {KeyOf[t]}
          /\ Goto(t, "connecting") /\ UNCHANGED conn
    /\ UNCHANGED <<mine, connVars>>

\* One turn of _get_conn's loop under the lock: reuse, wait for the connector of this
\* key, or become it.
Lookup(t) ==
    /\ pc[t] = "lookup"
    /\ Evict(KeyOf[t], draining)
    /\ \/ Reuse(t) /\ UNCHANGED creating
       \/ /\ NoneUsable(t) /\ KeyOf[t] \in creating
          /\ Goto(t, "waiting") /\ UNCHANGED <<creating, conn>>
       \/ /\ NoneUsable(t) /\ KeyOf[t] \notin creating
          /\ creating' = creating \cup {KeyOf[t]}
          /\ Goto(t, "connecting") /\ UNCHANGED conn
    /\ UNCHANGED <<mine, connVars>>

\* Condition.wait(timeout) runs out; the loop goes round.
WaitTimeout(t) ==
    /\ pc[t] = "waiting" /\ Goto(t, "lookup")
    /\ UNCHANGED <<poolVars, mine, conn, connVars>>

\* Outside the lock: Transport(...) raises, speaks HTTP/1.1, or becomes an H2Connection
\* that is acquired and appended to the pool.
Connect(t) ==
    /\ pc[t] = "connecting"
    /\ \/ Faults /\ (Goto(t, "failing") \/ Goto(t, "h1")) /\ UNCHANGED <<pool, conn, cst>>
       \/ \E c \in Conns :
             /\ cst[c] = "none" /\ cst' = [cst EXCEPT ![c] = "live"]
             /\ pool' = [pool EXCEPT ![KeyOf[t]] = @ \cup {c}]
             /\ conn' = [conn EXCEPT ![t] = c]
             /\ Goto(t, "published")
    /\ UNCHANGED <<draining, creating, mine, active>>

\* Mutant: the turn is given up after the connect instead of in a finally.
Finally_OnlyOnSuccess(t) ==
    /\ pc[t] \in {"failing", "h1", "published"}
    /\ creating' = IF pc[t] = "failing" THEN creating ELSE creating \ {KeyOf[t]}
    /\ pc' = [u \in Calls \cup Closers |->
                IF u = t THEN CASE pc[t] = "failing"   -> "failed"
                                [] pc[t] = "h1"        -> "done"
                                [] pc[t] = "published" -> "sending"
                ELSE IF pc[u] = "waiting" THEN "lookup" ELSE pc[u]]
    /\ UNCHANGED <<pool, draining, mine, conn, connVars>>

\* finally: give up the turn and wake every waiter.
Finally(t) ==
    /\ pc[t] \in {"failing", "h1", "published"}
    /\ creating' = creating \ {KeyOf[t]}
    /\ pc' = [u \in Calls \cup Closers |->
                IF u = t THEN CASE pc[t] = "failing"   -> "failed"
                                [] pc[t] = "h1"        -> "done"
                                [] pc[t] = "published" -> "sending"
                ELSE IF pc[u] = "waiting" THEN "lookup" ELSE pc[u]]
    /\ UNCHANGED <<pool, draining, mine, conn, connVars>>

-----------------------------------------------------------------------------
(***************************************************************************)
(* The connections, as the pool's users see them.                          *)
(***************************************************************************)

\* _send tests closed before it has _send_lock ...
Send(t) ==
    /\ pc[t] = "sending"
    /\ Goto(t, IF Closed(conn[t]) THEN "failed" ELSE "opening")
    /\ UNCHANGED <<poolVars, mine, conn, connVars>>

\* ... and registers the stream under it, whatever the connection has become: a GOAWAY'd or
\* dead one too.  On a connection that is closed the write may raise; the stream that is
\* then left registered is on a connection nobody is handed any more.
Open(t) ==
    /\ pc[t] = "opening"
    /\ \/ /\ Goto(t, "inflight")
          /\ active' = [active EXCEPT ![conn[t]] = @ \cup {t}]
       \/ Closed(conn[t]) /\ Goto(t, "failed") /\ UNCHANGED active
    /\ UNCHANGED <<poolVars, mine, conn, cst>>

\* The response arrives (also while the reader is told to stop), or the wait times out: the
\* only end of a stream registered after the reader failed the others.
Return(t) ==
    /\ pc[t] = "inflight"
    /\ \/ cst[conn[t]] # "dead" /\ Goto(t, "done")
       \/ (Faults \/ cst[conn[t]] = "dead") /\ Goto(t, "failed")
    /\ active' = [active EXCEPT ![conn[t]] = @ \ {t}]
    /\ UNCHANGED <<poolVars, mine, conn, cst>>

\* GOAWAY covering every stream in flight: closed, but the reader keeps reading.
Goaway(c) ==
    /\ Faults /\ cst[c] = "live"
    /\ cst' = [cst EXCEPT ![c] = "goaway"]
    /\ UNCHANGED <<poolVars, pc, mine, conn, active>>

\* The reader ends: at the peer's EOF, or because close() told it to.  The streams
\* still in flight fail.
ReaderEnds(c, outcome) ==
    /\ cst' = [cst EXCEPT ![c] = "dead"]
    /\ pc' = [t \in Calls \cup Closers |-> IF t \in active[c] THEN outcome ELSE pc[t]]
    /\ active' = [active EXCEPT ![c] = {}]
    /\ UNCHANGED <<poolVars, mine, conn>>

PeerCloses(c) == Faults /\ cst[c] \in {"live", "goaway", "stopping"} /\ ReaderEnds(c, "failed")
ReaderStops(c) == cst[c] = "stopping" /\ ReaderEnds(c, "aborted")

-----------------------------------------------------------------------------
(***************************************************************************)
(* Session.close: reap, then empty the pool under the lock, then close all.*)
(***************************************************************************)
CloseReap(s) ==
    /\ pc[s] = "idle" /\ Goto(s, "reaping")
    /\ mine' = [mine EXCEPT ![s] = draining] /\ draining' = {}
    /\ UNCHANGED <<pool, creating, conn, connVars>>

CloseClear(s) ==
    /\ pc[s] = "reaping" /\ mine[s] = {} /\ Goto(s, "clearing")
    /\ mine' = [mine EXCEPT ![s] = UNION {pool[k] : k \in Keys}]
    /\ pool' = [k \in Keys |-> {}]
    /\ UNCHANGED <<draining, creating, conn, connVars>>

CloseEnd(s) ==
    /\ pc[s] = "clearing" /\ mine[s] = {} /\ Goto(s, "done")
    /\ UNCHANGED <<poolVars, mine, conn, connVars>>

-----------------------------------------------------------------------------
\* What a call does on its own thread, but for the native connect.
OwnStep(t) ==
    \/ WarmLookup(t) \/ Reap(t) \/ CloseOne(t) \/ Reaped(t) \/ Lookup(t) \/ WaitTimeout(t)
    \/ Finally(t) \/ Send(t) \/ Open(t) \/ Return(t)
CallStep(t)   == OwnStep(t) \/ Connect(t)
CloserStep(s) == CloseReap(s) \/ CloseOne(s) \/ CloseClear(s) \/ CloseEnd(s)
ConnStep(c)   == Goaway(c) \/ PeerCloses(c) \/ ReaderStops(c)

Terminated ==
    /\ \A t \in Calls : pc[t] \in Final
    /\ \A s \in Closers : pc[s] = "done"
    /\ UNCHANGED vars

Next ==
    \/ \E t \in Calls : CallStep(t)
    \/ \E s \in Closers : CloserStep(s)
    \/ \E c \in Conns : ConnStep(c)
    \/ Terminated

Spec == Init /\ [][Next]_vars

\* Threads run and timers fire.  Nothing is said of Connect: PR_Connect has a timeout, but
\* SSL_ForceHandshake (native/fxtls_lib.c:159) reads with none, so a server that is silent
\* after the TCP handshake keeps its connector for ever.
LiveSpec == Spec /\ \A t \in Calls : WF_vars(OwnStep(t))

-----------------------------------------------------------------------------
(***************************************************************************)
(* What holds.                                                             *)
(***************************************************************************)

\* Every variable has its type.
TypeOK ==
    /\ pool \in [Keys -> SUBSET Conns] /\ draining \subseteq Conns /\ creating \subseteq Keys
    /\ pc \in [Calls \cup Closers -> CallPcs \cup CloserPcs]
    /\ mine \in [Calls \cup Closers -> SUBSET Conns]
    /\ conn \in [Calls -> Conns \cup {NoConn}]
    /\ cst \in [Conns -> {"none", "live", "goaway", "stopping", "dead"}]
    /\ active \in [Conns -> SUBSET Calls]

\* "Only one caller connects at a time per key" (_get_conn's comment), and _creating
\* names exactly the keys being connected, however the connect ended.
SingleFlight ==
    /\ \A t, u \in Calls : pc[t] \in InFlight /\ pc[u] \in InFlight /\ KeyOf[t] = KeyOf[u] => t = u
    /\ creating = {KeyOf[t] : t \in {u \in Calls : pc[u] \in InFlight}}

\* One whose reader runs and that nobody closed yet is somewhere: in the pool, in _draining,
\* or in the hands of a thread that is about to close it.
Held ==
    draining \cup (UNION {pool[k] : k \in Keys}) \cup (UNION {mine[t] : t \in Calls \cup Closers})
NoneLost == \A c \in Conns : cst[c] \in {"live", "goaway"} => c \in Held

\* ... and in one place only.
OnePlace ==
    /\ \A k \in Keys : pool[k] \cap draining = {}
    /\ \A j, k \in Keys : j # k => pool[j] \cap pool[k] = {}
    /\ \A t \in Calls \cup Closers :
          /\ mine[t] \cap draining = {} /\ \A k \in Keys : mine[t] \cap pool[k] = {}
          /\ \A u \in Calls \cup Closers : t # u => mine[t] \cap mine[u] = {}
    /\ \A k \in Keys : \A c \in pool[k] : cst[c] # "stopping"

\* Eviction, reaping, connecting and Session.close race over _pool and _draining: no
\* connection whose reader runs is lost, and one given to close() is in no pool and no
\* other list, so it is never handed out or closed again.
Accounted == NoneLost /\ OnePlace

\* "A burst of concurrent requests to a cold host must NOT each open its own connection":
\* n live connections of a key need more calls than n - 1 connections have streams for.
BurstCoalesced ==
    \A k \in Keys :
        LET opened == {c \in pool[k] : cst[c] = "live"}
        IN  opened # {} =>
                (Cardinality(opened) - 1) * MaxConc < Cardinality({t \in Calls : KeyOf[t] = k})

\* A call leaves _get_conn, also when the connector it waits for fails and when others take
\* the turn or the stream slots before it.  The one thing that keeps it there is a connect of
\* its own key that never returns: "a slow TLS handshake never blocks the pool", so one of
\* another key does not.
Served(t)     == pc[t] \in {"sending", "opening", "inflight"} \cup Final
Hung(k)       == \E u \in Calls : KeyOf[u] = k /\ pc[u] = "connecting"
GetConnReturns ==
    \A t \in Calls : (pc[t] = "lookup" ~> Served(t)) \/ <>[]Hung(KeyOf[t])

-----------------------------------------------------------------------------
(***************************************************************************)
(* What the docs and comments say and the code does not do.                *)
(***************************************************************************)

\* h2conn.py:61 after GOAWAY "in-flight streams still get their responses, so we must
\* keep reading": the client itself does not abort them.
GoawayDrains == \A t \in Calls : pc[t] # "aborted"
=============================================================================
