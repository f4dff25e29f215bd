------------------------------- MODULE H2Conn -------------------------------
(***************************************************************************)
(* One HTTP/2 connection of never_fox (never_fox/h2conn.py): the reader    *)
(* thread that dispatches the peer's frames, the calls that open a stream  *)
(* each (blocking `request` or asyncio `send_async`), and the threads that *)
(* call `close`.  Of the native transport (never_fox/_native.py) the model *)
(* keeps whether the fd is alive and whether the stop flag is set.         *)
(*                                                                         *)
(* Every `with _slock` block of the code is one step.  `_send_lock` is     *)
(* held across the native write, so it is a variable, and a write has a    *)
(* beginning and an end between which other threads run.                   *)
(***************************************************************************)
EXTENDS Integers, FiniteSets

CONSTANTS
    Reqs,           \* the calls made on this connection; each opens at most one stream
    Connector,      \* the call whose _get_conn created the connection
    Async,          \* the calls made from the asyncio loop (aio.py); the others block a thread
    Closers,        \* the threads that call close() (Session.close, _reap)
    Reader,         \* the reader thread, as an owner of _send_lock
    Nobody,         \* no owner / no stream
    DefaultMaxConcurrent,  \* max_concurrent before any SETTINGS (100 in the code)
    MaxConcValues,  \* the MAX_CONCURRENT_STREAMS values the peer may announce
    SidLimit,       \* goaway_last before any GOAWAY (1 << 31 in the code)
    Cap,            \* max_response_bytes in units of one DATA payload; 0 = unlimited
    MaxUnits,       \* bound: DATA payloads the peer sends on one stream
    DrainExpires    \* may the ~2 s wait of _teardown_transport run out?

ASSUME ConnAssumption ==
    /\ Connector \in Reqs /\ Async \subseteq Reqs /\ IsFiniteSet(Reqs)
    /\ Reader \notin Reqs /\ Nobody \notin Reqs /\ Reader # Nobody
    /\ DefaultMaxConcurrent \in Nat /\ MaxConcValues \subseteq Nat
    /\ SidLimit \in Nat \ {0} /\ Cap \in Nat /\ MaxUnits \in Nat
    /\ DrainExpires \in BOOLEAN

VARIABLES
    closed, closing, stop,   \* H2Connection.closed, ._closing; Transport._stop
    maxConcurrent,           \* .max_concurrent
    goawayLast,              \* .goaway_last
    nextId, refs,            \* ._next_id, ._refs
    streams,                 \* ._streams: the calls whose stream is registered
    hsid, hend,              \* ._hsid (as a call), ._hend
    sendLock,                \* owner of ._send_lock
    sid, done, error, nbytes,\* the _Stream of each call
    tp,                      \* Transport.ctx: "open" or "freed"
    pc, rpc, cpc,            \* where each call, the reader and each closer is
    job,                     \* the reader's current frame: its call, END_STREAM, what follows its write
    held,                    \* acquire() returned True to the call and release() is still to come
    starved,                 \* acquire() refused the connector only for a limit of 0 streams
    missed,                  \* a response header block was not fed to the HPACK decoder
    garbled,                 \* a block of the call's response was decoded after a missed one
    overrun,                 \* a teardown stopped waiting for refs
    peer, sent               \* the peer's side of each stream, DATA units sent on it

callVars    == <<held, starved, nextId, refs, streams, sid>>     \* written by the calls
readVars    == <<job, hsid, hend, missed, garbled, nbytes, maxConcurrent, goawayLast, sent>>
outcomeVars == <<done, error>>                          \* written by the reader or a closer
closeVars   == <<closing, stop, cpc>>                   \* written by a closer
tpVars      == <<tp, overrun>>
vars == <<pc, rpc, closed, sendLock, peer, callVars, readVars, outcomeVars, closeVars, tpVars>>

\* _send from entry to its finally; code that runs inline on the asyncio loop's thread;
\* inside tp.write; owning _send_lock.
InSend    == {"acquired", "queued", "registered", "writing", "sent", "raised"}
InLoop    == {"queued", "registered", "writing", "sent", "raised",
              "expired", "rstQueued", "rstWriting", "popping"}
Terminal  == {"ok", "failed", "timedOut", "refused", "cancelled"}
WritingPc == {"writing", "rstWriting"}
LockedPc  == WritingPc \cup {"registered"}

Labels       == InSend \cup InLoop \cup Terminal \cup {"idle", "waiting"}
ReaderLabels == {"read", "lock", "write", "post", "capFail", "goaway", "failAll", "drain",
                 "free", "dead"}
CloserLabels == {"idle", "stop", "check", "joining", "failAll", "drain", "free", "done"}
Jobs         == [req : Reqs \cup {Nobody}, fin : BOOLEAN, then : {"read", "post", "capFail"}]
NoJob        == [req |-> Nobody, fin |-> FALSE, then |-> "read"]

\* Right after the constructor: preface written, reader thread started.
Init ==
    /\ closed = FALSE /\ closing = FALSE /\ stop = FALSE
    /\ maxConcurrent = DefaultMaxConcurrent /\ goawayLast = SidLimit
    /\ nextId = 1 /\ refs = 0 /\ streams = {}
    /\ hsid = Nobody /\ hend = FALSE /\ missed = FALSE
    /\ sendLock = Nobody
    /\ sid = [r \in Reqs |-> 0] /\ done = [r \in Reqs |-> FALSE]
    /\ error = [r \in Reqs |-> "none"] /\ nbytes = [r \in Reqs |-> 0]
    /\ garbled = [r \in Reqs |-> FALSE] /\ held = [r \in Reqs |-> FALSE]
    /\ starved = FALSE /\ tp = "open" /\ overrun = FALSE
    /\ pc = [r \in Reqs |-> "idle"] /\ rpc = "read" /\ job = NoJob
    /\ cpc = [c \in Closers |-> "idle"]
    /\ peer = [r \in Reqs |-> "none"] /\ sent = [r \in Reqs |-> 0]

Goto(r, l) == pc' = [pc EXCEPT ![r] = l]

\* What no call changes; what else a call leaves alone when it only moves on.
CallFrame == UNCHANGED <<rpc, closed, readVars, outcomeVars, closeVars, tpVars>>
OnlyPc    == CallFrame /\ UNCHANGED <<callVars, sendLock, peer>>

\* The asyncio loop runs one coroutine at a time: an async call enters code that runs
\* inline on the loop only when no other async call is inside such code.
LoopFree(r) == r \in Async => \A q \in Async \ {r} : pc[q] \notin InLoop

\* Mutant: the streams are finished without an error.
FailStreams_NoError(S, e) == error' = error /\ done' = [r \in Reqs |-> done[r] \/ r \in S]

\* st.error = e; _finish(st) for every stream of S that is not done yet.
FailStreams(S, e) ==
    /\ error' = [r \in Reqs |-> IF r \in S /\ ~done[r] THEN e ELSE error[r]]
    /\ done' = [r \in Reqs |-> done[r] \/ r \in S]

-----------------------------------------------------------------------------
(***************************************************************************)
(* The calls.                                                              *)
(***************************************************************************)

\* acquire(): will the connection take no more sends, ever? May it take one more now?
Barred == closed \/ closing \/ nextId > goawayLast
CanAcquire == ~Barred /\ Cardinality(streams) < maxConcurrent

\* The pool hands the connection to a call.  The connector acquires first and ignores
\* the result; the connection is in the pool only after that.
Acquire(r) ==
    /\ pc[r] = "idle"
    /\ r # Connector => pc[Connector] # "idle"
    /\ \/ /\ CanAcquire
          /\ refs' = refs + 1
          /\ held' = [held EXCEPT ![r] = TRUE]
          /\ Goto(r, "acquired") /\ UNCHANGED starved
       \/ /\ ~CanAcquire
          /\ Goto(r, IF r = Connector THEN "acquired" ELSE "refused")
          /\ starved' = (starved \/ (r = Connector /\ ~Barred))
          /\ UNCHANGED <<refs, held>>
    /\ CallFrame /\ UNCHANGED <<nextId, streams, sid, sendLock, peer>>

\* An asyncio task cancelled while the executor thread ran _get_conn: the connection
\* it acquired is dropped and nobody calls release().
Abandon(r) == pc[r] = "acquired" /\ r \in Async /\ Goto(r, "cancelled") /\ OnlyPc

\* _send: the unlocked test of `closed`.
SendCheck(r) ==
    /\ pc[r] = "acquired" /\ LoopFree(r)
    /\ Goto(r, IF closed THEN "raised" ELSE "queued")
    /\ OnlyPc

\* Mutant: id allocation and encoding outside the lock.
SendLock_Unlocked(r) ==
    /\ pc[r] = "queued" /\ sendLock' = r
    /\ sid' = [sid EXCEPT ![r] = nextId] /\ nextId' = nextId + 2
    /\ streams' = streams \cup {r} /\ Goto(r, "registered")
    /\ CallFrame /\ UNCHANGED <<held, starved, refs, peer>>

\* Under _send_lock: take a stream id, register the stream, encode the header block.
SendLock(r) ==
    /\ pc[r] = "queued" /\ sendLock = Nobody
    /\ sendLock' = r
    /\ sid' = [sid EXCEPT ![r] = nextId]
    /\ nextId' = nextId + 2
    /\ streams' = streams \cup {r}
    /\ Goto(r, "registered")
    /\ CallFrame /\ UNCHANGED <<held, starved, refs, peer>>

\* tp.write enters native code; on a freed transport (ctx None) it raises IOError.
SendWrite(r) ==
    /\ pc[r] = "registered"
    /\ \/ /\ tp = "open"
          /\ peer' = [peer EXCEPT ![r] = "open"]
          /\ Goto(r, "writing") /\ UNCHANGED sendLock
       \/ /\ tp = "freed"
          /\ sendLock' = Nobody
          /\ Goto(r, "raised") /\ UNCHANGED peer
    /\ CallFrame /\ UNCHANGED callVars

\* The native write returns: all bytes taken, or an error raised as IOError.
SendWritten(r) ==
    /\ pc[r] = "writing"
    /\ sendLock' = Nobody
    /\ Goto(r, "sent") \/ Goto(r, "raised")
    /\ CallFrame /\ UNCHANGED <<callVars, peer>>

\* Mutant: no `if self._refs > 0`.
Release_Unguarded(r) ==
    /\ pc[r] \in {"sent", "raised"}
    /\ refs' = refs - 1 /\ held' = [held EXCEPT ![r] = FALSE]
    /\ Goto(r, IF pc[r] = "sent" THEN "waiting" ELSE "failed")
    /\ CallFrame /\ UNCHANGED <<starved, nextId, streams, sid, sendLock, peer>>

\* finally: release(); then the call waits for its stream, or its exception propagates
\* and the stream stays registered.
Release(r) ==
    /\ pc[r] \in {"sent", "raised"}
    /\ refs' = IF refs > 0 THEN refs - 1 ELSE refs
    /\ held' = [held EXCEPT ![r] = FALSE]
    /\ Goto(r, IF pc[r] = "sent" THEN "waiting" ELSE "failed")
    /\ CallFrame /\ UNCHANGED <<starved, nextId, streams, sid, sendLock, peer>>

Pop(r) == streams' = streams \ {r} /\ CallFrame /\ UNCHANGED <<held, starved, nextId, refs, sid, sendLock, peer>>

\* done.wait() returned True (or the future resolved): pop the stream, return or raise.
Deliver(r) ==
    /\ pc[r] = "waiting" /\ done[r] /\ LoopFree(r)
    /\ Goto(r, IF error[r] = "none" THEN "ok" ELSE "failed")
    /\ Pop(r)

\* The wait timed out, or (async) the task was cancelled.  On the loop the timer may
\* run before the callback that resolves an already finished stream.
Expire(r) ==
    /\ pc[r] = "waiting" /\ (done[r] => r \in Async) /\ LoopFree(r)
    /\ Goto(r, "expired") /\ OnlyPc

\* _rst: skip if the connection is going away (tested without a lock) ...
RstCheck(r) ==
    /\ pc[r] = "expired"
    /\ Goto(r, IF closed \/ closing THEN "popping" ELSE "rstQueued")
    /\ OnlyPc

\* ... else write RST_STREAM under _send_lock, without a reference on the connection.
RstLock(r) ==
    /\ pc[r] = "rstQueued" /\ sendLock = Nobody
    /\ \/ tp = "open" /\ sendLock' = r /\ Goto(r, "rstWriting")
       \/ tp = "freed" /\ Goto(r, "popping") /\ UNCHANGED sendLock
    /\ CallFrame /\ UNCHANGED <<callVars, peer>>

\* Mutant: the RST is retried when its write fails.
RstWritten_Retries(r) ==
    /\ pc[r] = "rstWriting" /\ sendLock' = Nobody
    /\ Goto(r, "popping") \/ Goto(r, "rstQueued")
    /\ CallFrame /\ UNCHANGED <<callVars, peer>>

\* The RST write returns; an exception is swallowed.
RstWritten(r) ==
    /\ pc[r] = "rstWriting"
    /\ sendLock' = Nobody
    /\ Goto(r, "popping")
    /\ CallFrame /\ UNCHANGED <<callVars, peer>>

\* Mutant: the timeout path releases a reference that _send already released.
PopExpired_Releases(r) ==
    /\ pc[r] = "popping" /\ Goto(r, "timedOut")
    /\ streams' = streams \ {r} /\ refs' = IF refs > 0 THEN refs - 1 ELSE refs
    /\ CallFrame /\ UNCHANGED <<held, starved, nextId, sid, sendLock, peer>>

\* _pop, then raise TimeoutError whatever the stream became meanwhile.
PopExpired(r) == pc[r] = "popping" /\ Goto(r, "timedOut") /\ Pop(r)

-----------------------------------------------------------------------------
(***************************************************************************)
(* The reader thread.  The Recv actions are the frames a conforming peer   *)
(* may send, each with the part of _dispatch that runs before any write.   *)
(***************************************************************************)

\* What the reader never changes.
ReaderFrame == UNCHANGED <<pc, callVars, closeVars>>

CanRecv == rpc = "read" /\ hsid = Nobody

\* A peer answers the streams it received, up to the last one its GOAWAY covers.
Answers(r) == peer[r] \in {"open", "body"} /\ sid[r] <= goawayLast

\* _finish_headers: a block of an unregistered stream is dropped undecoded; decoding
\* after such a gap yields wrong fields or raises.
FinishHeaders(r, fin) ==
    \/ /\ r \in streams
       /\ garbled' = [garbled EXCEPT ![r] = @ \/ missed]
       /\ done' = [done EXCEPT ![r] = @ \/ fin]
       /\ hsid' = Nobody /\ hend' = FALSE
       /\ UNCHANGED <<missed, rpc>>
    \/ /\ r \in streams /\ missed
       /\ rpc' = "failAll"
       /\ UNCHANGED <<garbled, done, hsid, hend, missed>>
    \/ /\ r \notin streams
       /\ missed' = TRUE
       /\ hsid' = Nobody /\ hend' = FALSE
       /\ UNCHANGED <<garbled, done, rpc>>

HeadersFrame == UNCHANGED <<error, nbytes, maxConcurrent, goawayLast, sent, job, closed,
                            sendLock, tpVars>>

\* HEADERS: informational ("open" again), final ("body"), or ending the stream.
RecvHeaders(r) ==
    /\ CanRecv /\ Answers(r)
    /\ \E next \in {"open", "body", "ended"}, endHeaders \in BOOLEAN :
          /\ peer[r] = "body" => next = "ended"
          /\ peer' = [peer EXCEPT ![r] = next]
          /\ \/ endHeaders /\ FinishHeaders(r, next = "ended")
             \/ /\ ~endHeaders
                /\ hsid' = r /\ hend' = (next = "ended")
                /\ UNCHANGED <<missed, garbled, done, rpc>>
    /\ ReaderFrame /\ HeadersFrame

\* CONTINUATION: the only frame a peer may send inside a header block.
RecvContinuation ==
    /\ rpc = "read" /\ hsid # Nobody
    /\ FinishHeaders(hsid, hend)
    /\ ReaderFrame /\ HeadersFrame /\ UNCHANGED peer

\* DATA of n units: kept, and given back by WINDOW_UPDATE, only for a registered
\* stream that is not done; any other payload is dropped.
RecvData(r) ==
    /\ CanRecv /\ Answers(r) /\ peer[r] = "body"
    /\ \E n \in 0 .. 1, fin \in BOOLEAN :
          /\ n = 0 => fin
          /\ sent[r] + n <= MaxUnits
          /\ sent' = [sent EXCEPT ![r] = @ + n]
          /\ peer' = [peer EXCEPT ![r] = IF fin THEN "ended" ELSE @]
          /\ \/ /\ r \in streams /\ ~done[r]
                /\ nbytes' = [nbytes EXCEPT ![r] = @ + n]
                /\ job' = [req |-> r, fin |-> fin, then |-> "post"]
                /\ rpc' = IF n > 0 THEN "lock" ELSE "post"
             \/ /\ r \notin streams \/ done[r]
                /\ UNCHANGED <<nbytes, job, rpc>>
    /\ ReaderFrame
    /\ UNCHANGED <<hsid, hend, missed, garbled, maxConcurrent, goawayLast, outcomeVars, closed,
                   sendLock, tpVars>>

\* SETTINGS adopts MAX_CONCURRENT_STREAMS, PING nothing; both are then acknowledged.
RecvAcked ==
    /\ CanRecv
    /\ maxConcurrent' \in MaxConcValues \cup {maxConcurrent}
    /\ job' = NoJob /\ rpc' = "lock"
    /\ ReaderFrame
    /\ UNCHANGED <<hsid, hend, missed, garbled, nbytes, goawayLast, sent, peer,
                   outcomeVars, closed, sendLock, tpVars>>

\* GOAWAY names a last stream id, at least that of every stream answered so far; 2^31 - 1
\* when the server shuts down in two steps.
RecvGoaway ==
    /\ CanRecv
    /\ goawayLast' \in {0, SidLimit - 1} \cup {sid[r] : r \in Reqs}
    /\ goawayLast' <= goawayLast
    /\ \A r \in Reqs : peer[r] \in {"body", "ended"} => sid[r] <= goawayLast'
    /\ rpc' = "goaway"
    /\ ReaderFrame
    /\ UNCHANGED <<job, hsid, hend, missed, garbled, nbytes, maxConcurrent, sent, peer,
                   outcomeVars, closed, sendLock, tpVars>>

\* Mutant: >= instead of >.
GoawayFail_OffByOne ==
    /\ rpc = "goaway" /\ rpc' = "read" /\ closed' = TRUE
    /\ FailStreams({r \in streams : sid[r] >= goawayLast}, "goaway")
    /\ ReaderFrame /\ UNCHANGED <<readVars, peer, sendLock, tpVars>>

\* closed = True, then fail the registered streams the server will not process.
GoawayFail ==
    /\ rpc = "goaway" /\ rpc' = "read"
    /\ closed' = TRUE
    /\ FailStreams({r \in streams : sid[r] > goawayLast}, "goaway")
    /\ ReaderFrame /\ UNCHANGED <<readVars, peer, sendLock, tpVars>>

\* Mutant: no test of st.done.
RecvRst_Unchecked(r) ==
    /\ CanRecv /\ Answers(r)
    /\ peer' = [peer EXCEPT ![r] = "reset"]
    /\ error' = [error EXCEPT ![r] = IF r \in streams THEN "reset" ELSE @]
    /\ done' = [done EXCEPT ![r] = @ \/ r \in streams]
    /\ ReaderFrame /\ UNCHANGED <<rpc, readVars, closed, sendLock, tpVars>>

\* RST_STREAM from the peer.
RecvRst(r) ==
    /\ CanRecv /\ Answers(r)
    /\ peer' = [peer EXCEPT ![r] = "reset"]
    /\ FailStreams({r} \cap streams, "reset")
    /\ ReaderFrame /\ UNCHANGED <<rpc, readVars, closed, sendLock, tpVars>>

\* Steps that change only the reader's place.
ReaderGoto(l) ==
    rpc' = l /\ ReaderFrame /\ UNCHANGED <<readVars, peer, outcomeVars, closed, sendLock, tpVars>>

\* recvn comes back short: the peer closed, or a 250 ms read timeout saw the stop flag.
RecvEof  == rpc = "read" /\ ReaderGoto("failAll")
RecvStop == rpc = "read" /\ stop /\ ReaderGoto("failAll")

\* The reader's own writes: WINDOW_UPDATE after DATA, an ACK, RST_STREAM over the cap.
ReaderLock ==
    /\ rpc = "lock" /\ sendLock = Nobody
    /\ rpc' = "write" /\ sendLock' = Reader
    /\ ReaderFrame /\ UNCHANGED <<readVars, peer, outcomeVars, closed, tpVars>>

\* The write returns, or raises, which ends the read loop (_rst swallows it).
ReaderWritten ==
    /\ rpc = "write" /\ sendLock' = Nobody
    /\ rpc' = job.then \/ (job.then # "capFail" /\ rpc' = "failAll")
    /\ ReaderFrame /\ UNCHANGED <<readVars, peer, outcomeVars, closed, tpVars>>

OverCap(r) == Cap > 0 /\ nbytes[r] > Cap

\* After DATA: cancel the stream (unless the connection is going away) when it is over
\* the cap, else finish it at END_STREAM.
PostData ==
    /\ rpc = "post"
    /\ \/ /\ ~OverCap(job.req)
          /\ rpc' = "read"
          /\ done' = [done EXCEPT ![job.req] = @ \/ job.fin]
          /\ job' = NoJob
       \/ /\ OverCap(job.req)
          /\ rpc' = IF closed \/ closing THEN "capFail" ELSE "lock"
          /\ job' = [job EXCEPT !.then = "capFail"]
          /\ UNCHANGED done
    /\ ReaderFrame
    /\ UNCHANGED <<hsid, hend, missed, garbled, nbytes, maxConcurrent, goawayLast, sent,
                   peer, error, closed, sendLock, tpVars>>

\* Mutant: the error is noted but the stream not finished.
CapFail_Unfinished ==
    /\ rpc = "capFail" /\ rpc' = "read"
    /\ error' = [error EXCEPT ![job.req] = "cap"] /\ job' = NoJob
    /\ ReaderFrame
    /\ UNCHANGED <<hsid, hend, missed, garbled, nbytes, maxConcurrent, goawayLast, sent,
                   peer, done, closed, sendLock, tpVars>>

CapFail ==
    /\ rpc = "capFail" /\ rpc' = "read"
    /\ error' = [error EXCEPT ![job.req] = "cap"]
    /\ done' = [done EXCEPT ![job.req] = TRUE]
    /\ job' = NoJob
    /\ ReaderFrame
    /\ UNCHANGED <<hsid, hend, missed, garbled, nbytes, maxConcurrent, goawayLast, sent,
                   peer, closed, sendLock, tpVars>>

\* _fail_all: closed = True, then fail a snapshot of the streams.
FailAll ==
    /\ rpc = "failAll" /\ rpc' = "drain"
    /\ closed' = TRUE
    /\ FailStreams(streams, "closed")
    /\ ReaderFrame /\ UNCHANGED <<readVars, peer, sendLock, tpVars>>

\* Mutant: no wait for in-flight writers.
Drain_NoWait == overrun' = overrun

\* _teardown_transport: wait for refs = 0, but only so long ...
Drain == (refs > 0 => DrainExpires) /\ overrun' = (overrun \/ refs > 0)

ReaderDrain ==
    /\ rpc = "drain" /\ rpc' = "free"
    /\ Drain
    /\ ReaderFrame /\ UNCHANGED <<readVars, peer, outcomeVars, closed, sendLock, tp>>

\* ... then tp.close(), whoever is inside tp.write.
ReaderFree ==
    /\ rpc = "free" /\ rpc' = "dead"
    /\ tp' = "freed"
    /\ ReaderFrame /\ UNCHANGED <<readVars, peer, outcomeVars, closed, sendLock, overrun>>

-----------------------------------------------------------------------------
(***************************************************************************)
(* close().                                                                *)
(***************************************************************************)
ClGoto(c, l) == cpc' = [cpc EXCEPT ![c] = l]

\* What close() never changes.
CloseFrame == UNCHANGED <<pc, rpc, sendLock, peer, callVars, readVars>>

CloseBegin(c) ==
    /\ cpc[c] = "idle"
    /\ closing' = TRUE
    /\ ClGoto(c, IF closing THEN "done" ELSE "stop")
    /\ CloseFrame /\ UNCHANGED <<closed, stop, outcomeVars, tpVars>>

\* Mutant: the stop flag is not set.
CloseStop_NoFlag(c) ==
    /\ cpc[c] = "stop" /\ ClGoto(c, "check") /\ closed' = TRUE
    /\ CloseFrame /\ UNCHANGED <<stop, closing, outcomeVars, tpVars>>

\* self.closed = True; tp.stop_reads()
CloseStop(c) ==
    /\ cpc[c] = "stop" /\ ClGoto(c, "check")
    /\ closed' = TRUE /\ stop' = TRUE
    /\ CloseFrame /\ UNCHANGED <<closing, outcomeVars, tpVars>>

\* Mutant: close() tears down whether the reader lives or not.
CloseCheck_Always(c) ==
    /\ cpc[c] = "check" /\ ClGoto(c, "failAll")
    /\ CloseFrame /\ UNCHANGED <<closed, closing, stop, outcomeVars, tpVars>>

\* A live reader tears the transport down itself; a dead one leaves it to the closer.
CloseCheck(c) ==
    /\ cpc[c] = "check"
    /\ ClGoto(c, IF rpc # "dead" THEN "joining" ELSE "failAll")
    /\ CloseFrame /\ UNCHANGED <<closed, closing, stop, outcomeVars, tpVars>>

\* join(timeout=5) returns when the reader is dead, or when the five seconds are over.
CloseJoin(c) ==
    /\ cpc[c] = "joining" /\ ClGoto(c, "done")
    /\ CloseFrame /\ UNCHANGED <<closed, closing, stop, outcomeVars, tpVars>>

CloseFailAll(c) ==
    /\ cpc[c] = "failAll" /\ ClGoto(c, "drain")
    /\ closed' = TRUE
    /\ FailStreams(streams, "closed")
    /\ CloseFrame /\ UNCHANGED <<closing, stop, tpVars>>

CloseDrain(c) ==
    /\ cpc[c] = "drain" /\ ClGoto(c, "free")
    /\ Drain
    /\ CloseFrame /\ UNCHANGED <<closed, closing, stop, outcomeVars, tp>>

CloseFree(c) ==
    /\ cpc[c] = "free" /\ ClGoto(c, "done")
    /\ tp' = "freed"
    /\ CloseFrame /\ UNCHANGED <<closed, closing, stop, outcomeVars, overrun>>

-----------------------------------------------------------------------------
ReqStep(r) ==
    \/ Acquire(r) \/ Abandon(r) \/ SendCheck(r) \/ SendLock(r) \/ SendWrite(r)
    \/ SendWritten(r) \/ Release(r) \/ Deliver(r) \/ Expire(r) \/ RstCheck(r)
    \/ RstLock(r) \/ RstWritten(r) \/ PopExpired(r)

PeerStep ==
    \/ \E r \in Reqs : RecvHeaders(r) \/ RecvData(r) \/ RecvRst(r)
    \/ RecvContinuation \/ RecvAcked \/ RecvGoaway \/ RecvEof

ReaderStep ==
    \/ RecvStop \/ GoawayFail \/ ReaderLock \/ ReaderWritten \/ PostData \/ CapFail
    \/ FailAll \/ ReaderDrain \/ ReaderFree

CloserStep(c) ==
    \/ CloseBegin(c) \/ CloseStop(c) \/ CloseCheck(c) \/ CloseJoin(c)
    \/ CloseFailAll(c) \/ CloseDrain(c) \/ CloseFree(c)

\* Nothing left to do: every call returned, the reader ended, every closer is through.
Terminated ==
    /\ \A r \in Reqs : pc[r] \in Terminal
    /\ \A c \in Closers : cpc[c] = "done"
    /\ rpc = "dead"
    /\ UNCHANGED vars

Next ==
    \/ \E r \in Reqs : ReqStep(r)
    \/ PeerStep
    \/ ReaderStep
    \/ \E c \in Closers : CloserStep(c)
    \/ Terminated

Spec == Init /\ [][Next]_vars

\* The scheduler and the clock: a call that can move on does so in the end (its native
\* write returns, a lock that is free again and again is granted, its timer fires); so
\* does the reader once it has a frame; a close() that began goes on.  Nothing obliges
\* the peer to send, to close or to pause, a call to start, or anyone to close.
CallProceeds(r) ==
    \/ SendCheck(r) \/ SendLock(r) \/ SendWrite(r) \/ SendWritten(r) \/ Release(r)
    \/ Deliver(r) \/ Expire(r) \/ RstCheck(r) \/ RstLock(r) \/ RstWritten(r) \/ PopExpired(r)
ReaderProceeds ==
    \/ GoawayFail \/ ReaderLock \/ ReaderWritten \/ PostData \/ CapFail
    \/ FailAll \/ ReaderDrain \/ ReaderFree
CloserProceeds(c) ==
    CloseStop(c) \/ CloseCheck(c) \/ CloseJoin(c) \/ CloseFailAll(c) \/ CloseDrain(c) \/ CloseFree(c)

Fairness ==
    /\ \A r \in Reqs : SF_vars(CallProceeds(r))
    /\ SF_vars(ReaderProceeds) /\ WF_vars(RecvStop)
    /\ \A c \in Closers : WF_vars(CloserProceeds(c))

LiveSpec == Spec /\ Fairness

-----------------------------------------------------------------------------
(***************************************************************************)
(* What holds.                                                             *)
(***************************************************************************)
Holders == {r \in Reqs : held[r]}

CallType ==
    /\ pc \in [Reqs -> Labels] /\ held \in [Reqs -> BOOLEAN] /\ sid \in [Reqs -> Nat]
    /\ starved \in BOOLEAN
    /\ nextId \in Nat /\ refs \in Nat /\ streams \subseteq Reqs
WireType ==
    /\ sendLock \in Reqs \cup {Reader, Nobody}
    /\ peer \in [Reqs -> {"none", "open", "body", "ended", "reset"}]
ReadType ==
    /\ rpc \in ReaderLabels
    /\ job \in Jobs
    /\ hsid \in Reqs \cup {Nobody} /\ hend \in BOOLEAN
    /\ missed \in BOOLEAN /\ garbled \in [Reqs -> BOOLEAN]
    /\ nbytes \in [Reqs -> Nat] /\ sent \in [Reqs -> Nat]
    /\ maxConcurrent \in Nat /\ goawayLast \in Nat
OutcomeType ==
    /\ done \in [Reqs -> BOOLEAN]
    /\ error \in [Reqs -> {"none", "closed", "goaway", "reset", "cap"}]
CloseType ==
    /\ closed \in BOOLEAN /\ closing \in BOOLEAN /\ stop \in BOOLEAN
    /\ cpc \in [Closers -> CloserLabels]
    /\ tp \in {"open", "freed"} /\ overrun \in BOOLEAN

\* Every variable has its type; in particular refs never goes below zero although
\* release() may run without a reference.
TypeOK == CallType /\ WireType /\ ReadType /\ OutcomeType /\ CloseType

\* The references that the connector's release() may have taken from other calls.
Stolen == IF starved THEN 1 ELSE 0

\* _refs counts the calls that acquire() promised the transport to, whichever way their
\* _send ended: exactly, although the connector calls release() without having acquired when
\* the connection went away first; short by at most one if the peer's limit of 0 streams made
\* acquire() refuse the connector.
RefsExact == Cardinality(Holders) - Stolen <= refs /\ refs <= Cardinality(Holders)

\* While no teardown has given up waiting, the transport is never freed under a call that
\* holds a reference ("prevents free while writing", acquire's docstring); under at most one
\* if the connector was refused for a limit of 0 streams.
FreeGuarded == tp = "freed" /\ ~overrun => Cardinality(Holders) <= Stolen

\* tp.close() only after the reader is out of PR_Recv for good (Transport.close's
\* docstring), also when the closing thread does it.
FreedAfterReader == tp = "freed" => rpc = "dead"

\* One thread at a time inside the native write, so that frames do not interleave.
WritersExclusive ==
    /\ \A r, q \in Reqs : pc[r] \in WritingPc /\ pc[q] \in WritingPc => r = q
    /\ rpc = "write" => \A r \in Reqs : pc[r] \notin WritingPc

\* A call returns a response only when the peer ended the stream, with every DATA unit
\* the peer sent: EOF, GOAWAY, RST and the cap never pass for a complete response.
OkIsComplete ==
    \A r \in Reqs : pc[r] = "ok" => peer[r] = "ended" /\ nbytes[r] = sent[r]

\* max_response_bytes bounds what a stream buffers to one payload past the cap, however
\* the cancellation races close() and the peer's END_STREAM.
BufferBounded == Cap > 0 => \A r \in Reqs : nbytes[r] <= Cap + 1

\* GOAWAY never fails a stream the server will still process (sid <= last_sid).
GoawaySparesAccepted == \A r \in Reqs : error[r] = "goaway" => sid[r] > goawayLast

\* A finished stream's outcome is final: what a waiter reads after `done` does not
\* change under it, whatever frames, GOAWAY or close() come later.
DoneIsFinal ==
    [][\A r \in Reqs : done[r] =>
          done'[r] /\ error'[r] = error[r] /\ nbytes'[r] = nbytes[r]]_vars

\* Streams reach the wire in the order of their ids (and so of HPACK encoding): the
\* stream a call starts to write is newer than every stream written before.
WireInIdOrder ==
    [][\A r, q \in Reqs : peer[r] = "none" /\ peer'[r] = "open" /\ peer[q] # "none"
          => sid[q] < sid[r]]_vars

\* Every call that entered _send or waits for its response returns.
EveryCallReturns ==
    \A r \in Reqs : pc[r] = "acquired" ~> pc[r] \in Terminal

\* close() leads to the transport being freed, even when a reference was leaked, provided
\* the peer pauses for a whole read timeout (250 ms) again and again.
CloseFrees == SF_vars(RecvStop) => (closing ~> tp = "freed")

-----------------------------------------------------------------------------
(***************************************************************************)
(* What the code's comments say and the code does not do.                  *)
(***************************************************************************)

\* h2conn.py:191-192 "the caller (pool) holds one ref on this connection; release it once the
\* write is done so close() can never free the transport mid-write": no call is inside a native
\* write of its request, or of the RST_STREAM after its timeout, when the transport is freed
\* by a teardown that waited for all references.
NeverFreedMidWrite ==
    tp = "freed" /\ ~overrun => \A r \in Reqs : pc[r] \notin {"writing", "rstWriting"}

\* h2conn.py:204 "HPACK is stateful": a returned response was decoded in step with the
\* peer's encoder.
HeadersInStep == \A r \in Reqs : pc[r] = "ok" => ~garbled[r]
=============================================================================
