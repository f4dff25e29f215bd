--------------------------- MODULE H2FramesProofs ---------------------------
(***************************************************************************)
(* Proofs about what H2Conn does with frames: outcomes are final, only     *)
(* complete responses are returned, the cap and GOAWAY are kept, streams   *)
(* reach the wire in the order of their ids.                               *)
(***************************************************************************)
EXTENDS H2ConnProofs

\* The call has no stream yet; its stream is not on the wire yet.
Early == {"idle", "acquired", "queued"}
Unwritten == Early \cup {"registered"}

\* The reader is busy with a frame, maybe with a write for it.
Busy == {"lock", "write", "post", "capFail"}
Ending == {"failAll", "drain", "free", "dead"}

\* Nothing happened to a stream that does not exist, nor on the wire before its write.
FreshInv ==
    \A r \in Reqs :
        /\ pc[r] \in Early => r \notin streams /\ ~done[r] /\ error[r] = "none"
        /\ pc[r] \in Unwritten => peer[r] = "none" /\ nbytes[r] = 0 /\ sent[r] = 0

\* The DATA frame the reader is busy with belongs to a stream that is not done, and all
\* of what the peer sent on it is kept.
JobOf(r) ==
    /\ job.req = r /\ job.then \in {"post", "capFail"}
    /\ ~done[r] /\ nbytes[r] = sent[r]
    /\ peer[r] \in {"body", "ended"} /\ (job.fin => peer[r] = "ended")
JobInv ==
    rpc \in Busy =>
        \/ rpc \in {"lock", "write"} /\ job = NoJob
        \/ \E r \in Reqs : JobOf(r)

\* A header block that waits for its CONTINUATION is of a stream on the wire, and if it
\* ends the stream the peer has ended it.
BlockInv == hsid # Nobody => peer[hsid] # "none" /\ (hend => peer[hsid] = "ended")

\* A stream that is done without an error is complete; one that may still become so has
\* kept everything.
CompleteInv ==
    \A r \in Reqs :
        /\ done[r] /\ error[r] = "none" => peer[r] = "ended" /\ nbytes[r] = sent[r]
        /\ r \in streams /\ ~done[r] => nbytes[r] = sent[r]
        /\ pc[r] = "ok" => peer[r] = "ended" /\ nbytes[r] = sent[r]

\* Over the cap are only streams that are done, given up, or the reader's present job.
CapInv ==
    Cap > 0 => \A r \in Reqs :
        /\ nbytes[r] <= Cap + 1
        /\ r \in streams /\ ~done[r] /\ nbytes[r] > Cap
             => rpc \in Ending \/ (rpc \in Busy /\ job.req = r)

\* Ids are given out in order, and the stream that waits for its write has the highest.
OrderInv ==
    /\ \A q \in Reqs : sid[q] < nextId
    /\ \A r, q \in Reqs : pc[r] = "registered" /\ q # r => sid[q] < sid[r]

FrameInv == FreshInv /\ JobInv /\ BlockInv /\ CompleteInv /\ CapInv /\ GoawaySparesAccepted /\ OrderInv

-----------------------------------------------------------------------------
\* A call changes what the peer sees of its own stream only, and only by its write.
LEMMA CallTouches ==
    ASSUME TypeOK, NEW r \in Reqs, ReqStep(r)
    PROVE  /\ CallFrame
           /\ \A q \in Reqs \ {r} : pc'[q] = pc[q] /\ peer'[q] = peer[q] /\ sid'[q] = sid[q]
                                     /\ (q \in streams' <=> q \in streams)
           /\ \/ SendLock(r)
              \/ SendWrite(r)
              \/ /\ UNCHANGED <<sid, nextId, peer>> /\ streams' \subseteq streams
                 /\ pc'[r] \in Unwritten => pc[r] \in Early /\ pc'[r] \in Early
                 /\ pc'[r] = "ok" => pc[r] = "ok" \/ (done[r] /\ error[r] = "none")
<1> USE DEF TypeOK, CallType, WireType, Goto, OnlyPc, Pop, Unwritten, Early, callVars
<1>1. CASE Acquire(r)
  BY <1>1 DEF Acquire
<1>2. CASE Abandon(r) \/ SendCheck(r) \/ Expire(r) \/ RstCheck(r)
  BY <1>2 DEF Abandon, SendCheck, Expire, RstCheck
<1>3. CASE SendLock(r)
  BY <1>3 DEF SendLock
<1>4. CASE SendWrite(r)
  BY <1>4 DEF SendWrite
<1>5. CASE SendWritten(r) \/ RstLock(r) \/ RstWritten(r)
  BY <1>5 DEF SendWritten, RstLock, RstWritten
<1>6. CASE Release(r)
  BY <1>6 DEF Release
<1>7. CASE Deliver(r) \/ PopExpired(r)
  BY <1>7 DEF Deliver, PopExpired
<1> QED
  BY <1>1, <1>2, <1>3, <1>4, <1>5, <1>6, <1>7 DEF ReqStep

\* A step of a call: registering starts from nothing, the write puts the newest stream on
\* the wire, and only what is complete is delivered.
LEMMA FrameCall ==
    ASSUME TypeOK, LockInv, FrameInv, NEW r \in Reqs, ReqStep(r)
    PROVE  FrameInv'
<1>1. /\ FreshInv /\ JobInv /\ BlockInv /\ CompleteInv /\ CapInv /\ GoawaySparesAccepted /\ OrderInv
      /\ pc \in [Reqs -> Labels] /\ sid \in [Reqs -> Nat] /\ nextId \in Nat /\ streams \subseteq Reqs
      /\ peer \in [Reqs -> {"none", "open", "body", "ended", "reset"}]
      /\ hsid \in Reqs \cup {Nobody} /\ goawayLast \in Nat /\ nbytes \in [Reqs -> Nat]
  BY DEF FrameInv, TypeOK, CallType, WireType, ReadType
<1>2. UNCHANGED <<rpc, job, hsid, hend, nbytes, goawayLast, sent, done, error>>
  BY CallTouches DEF CallFrame, readVars, outcomeVars
<1>3. \A q \in Reqs \ {r} : pc'[q] = pc[q] /\ peer'[q] = peer[q] /\ sid'[q] = sid[q]
                             /\ (q \in streams' <=> q \in streams)
  BY CallTouches
<1>4. CASE SendLock(r)
  <2>1. /\ pc[r] = "queued" /\ pc'[r] = "registered" /\ sid'[r] = nextId /\ nextId' = nextId + 2
        /\ peer' = peer /\ streams' = streams \cup {r} /\ sendLock = Nobody
    BY <1>1, <1>4 DEF SendLock, Goto
  <2>2. r \notin streams /\ ~done[r] /\ error[r] = "none" /\ peer[r] = "none" /\ nbytes[r] = 0 /\ sent[r] = 0
    BY <1>1, <2>1 DEF FreshInv, Early, Unwritten
  <2>3. FreshInv'
    BY <1>1, <1>2, <1>3, <2>1, <2>2 DEF FreshInv, Early, Unwritten
  <2>4. JobInv' /\ BlockInv'
    BY <1>1, <1>2, <2>1 DEF JobInv, JobOf, BlockInv
  <2>5. CompleteInv' /\ CapInv'
    BY <1>1, <1>2, <1>3, <2>1, <2>2, ConnAssumption DEF CompleteInv, CapInv, ConnAssumption
  <2>6. GoawaySparesAccepted'
    BY <1>1, <1>2, <1>3, <2>2 DEF GoawaySparesAccepted
  <2>7. \A q \in Reqs : pc[q] # "registered"
    BY <2>1, ConnAssumption DEF LockInv, LockedPc, ConnAssumption
  <2>8. OrderInv'
    BY <1>1, <1>3, <2>1, <2>7 DEF OrderInv
  <2> QED  BY <2>3, <2>4, <2>5, <2>6, <2>8 DEF FrameInv
<1>5. CASE SendWrite(r)
  <2>1. /\ pc[r] = "registered" /\ pc'[r] \in {"writing", "raised"} /\ peer'[r] \in {"open", peer[r]}
        /\ sid' = sid /\ nextId' = nextId /\ streams' = streams
    BY <1>1, <1>5 DEF SendWrite, Goto, callVars
  <2>2. peer[r] = "none"
    BY <1>1, <2>1 DEF FreshInv, Unwritten
  <2>3. FreshInv'
    BY <1>1, <1>2, <1>3, <2>1 DEF FreshInv, Early, Unwritten
  <2>4. \A q \in Reqs : peer[q] # "none" => peer'[q] = peer[q]
    BY <1>3, <2>2
  <2>5. JobInv' /\ BlockInv'
    BY <1>1, <1>2, <2>4 DEF JobInv, JobOf, BlockInv
  <2>6. CompleteInv' /\ CapInv'
    BY <1>1, <1>2, <1>3, <2>1, <2>4 DEF CompleteInv, CapInv
  <2>7. GoawaySparesAccepted' /\ OrderInv'
    BY <1>1, <1>2, <1>3, <2>1 DEF GoawaySparesAccepted, OrderInv
  <2> QED  BY <2>3, <2>5, <2>6, <2>7 DEF FrameInv
<1>6. CASE ~SendLock(r) /\ ~SendWrite(r)
  <2>1. /\ UNCHANGED <<sid, nextId, peer>> /\ streams' \subseteq streams
        /\ pc'[r] \in Unwritten => pc[r] \in Early /\ pc'[r] \in Early
        /\ pc'[r] = "ok" => pc[r] = "ok" \/ (done[r] /\ error[r] = "none")
    BY <1>6, CallTouches
  <2>2. FreshInv'
    BY <1>1, <1>2, <1>3, <2>1 DEF FreshInv, Early, Unwritten
  <2>3. JobInv' /\ BlockInv'
    BY <1>1, <1>2, <2>1 DEF JobInv, JobOf, BlockInv
  <2>4. CompleteInv' /\ CapInv'
    BY <1>1, <1>2, <1>3, <2>1 DEF CompleteInv, CapInv
  <2>5. GoawaySparesAccepted' /\ OrderInv'
    BY <1>1, <1>2, <1>3, <2>1 DEF GoawaySparesAccepted, OrderInv, Early, Unwritten
  <2> QED  BY <2>2, <2>3, <2>4, <2>5 DEF FrameInv
<1> QED  BY <1>4, <1>5, <1>6

-----------------------------------------------------------------------------
\* Streams are failed while no DATA frame is being processed: what was done keeps its
\* outcome, the rest gets an error.
LEMMA FailKeeps ==
    ASSUME TypeOK, FrameInv, NEW S, S \subseteq streams, NEW e, e \notin {"none", "goaway"},
           FailStreams(S, e), UNCHANGED <<pc, callVars, nbytes, sent, peer, hsid, hend, goawayLast>>,
           rpc' \notin Busy, rpc \in Ending => rpc' \in Ending, rpc \notin Busy
    PROVE  FrameInv'
<1>1. /\ FreshInv /\ BlockInv /\ CompleteInv /\ CapInv /\ GoawaySparesAccepted /\ OrderInv
      /\ UNCHANGED <<streams, sid, nextId>>
      /\ done \in [Reqs -> BOOLEAN]
  BY DEF FrameInv, callVars, TypeOK, OutcomeType
<1>2. \A r \in Reqs : /\ error'[r] = IF r \in S /\ ~done[r] THEN e ELSE error[r]
                      /\ done'[r] = (done[r] \/ r \in S)
  BY DEF FailStreams
<1>3. FreshInv' /\ JobInv' /\ BlockInv'
  BY <1>1, <1>2 DEF FreshInv, JobInv, BlockInv
<1>4. CompleteInv' /\ CapInv'
  BY <1>1, <1>2 DEF CompleteInv, CapInv, Ending, Busy
<1>5. GoawaySparesAccepted' /\ OrderInv'
  BY <1>1, <1>2 DEF GoawaySparesAccepted, OrderInv
<1> QED  BY <1>3, <1>4, <1>5 DEF FrameInv

\* The reader moves on, to the end or to a frame it knows.
LEMMA MoveKeeps ==
    ASSUME FrameInv, UNCHANGED <<pc, callVars, nbytes, sent, peer, hsid, hend, goawayLast, done, error>>,
           \/ rpc' \in Ending
           \/ rpc \in Busy /\ rpc' \in Busy /\ job' = job /\ (rpc' \in {"lock", "write"} \/ job # NoJob)
           \/ rpc \notin Busy \cup Ending /\ rpc' \in {"read", "goaway"}
    PROVE  FrameInv'
<1>1. /\ FreshInv /\ JobInv /\ BlockInv /\ CompleteInv /\ CapInv /\ GoawaySparesAccepted /\ OrderInv
      /\ UNCHANGED <<streams, sid, nextId>>
  BY DEF FrameInv, callVars
<1>2. FreshInv' /\ BlockInv' /\ CompleteInv' /\ GoawaySparesAccepted' /\ OrderInv'
  BY <1>1 DEF FreshInv, BlockInv, CompleteInv, GoawaySparesAccepted, OrderInv
<1>3. JobInv'
  BY <1>1 DEF JobInv, JobOf, Busy, Ending
<1>4. CapInv'
  BY <1>1 DEF CapInv, Busy, Ending
<1> QED  BY <1>2, <1>3, <1>4 DEF FrameInv

\* HEADERS and CONTINUATION: a block that ends the stream completes it.
LEMMA FinishKeeps ==
    ASSUME TypeOK, FrameInv, NEW r \in Reqs, NEW fin \in BOOLEAN, FinishHeaders(r, fin),
           ReaderFrame, HeadersFrame, rpc = "read",
           \A q \in Reqs \ {r} : peer'[q] = peer[q], peer' \in [Reqs -> {"none", "open", "body", "ended", "reset"}],
           peer'[r] = peer[r] \/ peer[r] \in {"open", "body"},
           pc[r] \notin Unwritten,
           fin => peer'[r] = "ended", hsid # Nobody => hsid = r /\ fin = hend /\ peer' = peer
    PROVE  FrameInv'
<1>1. /\ FreshInv /\ BlockInv /\ CompleteInv /\ CapInv /\ GoawaySparesAccepted /\ OrderInv
      /\ UNCHANGED <<pc, streams, sid, nextId, error, nbytes, sent, goawayLast>>
      /\ done \in [Reqs -> BOOLEAN] /\ streams \subseteq Reqs
  BY DEF FrameInv, ReaderFrame, HeadersFrame, callVars, TypeOK, OutcomeType, CallType
<1>2. /\ rpc' \in {"read", "failAll"}
      /\ \A q \in Reqs : done'[q] = done[q] \/ (q = r /\ fin /\ r \in streams /\ done'[q])
      /\ hsid' = Nobody \/ UNCHANGED <<hsid, hend>>
  BY <1>1 DEF FinishHeaders
<1>3. FreshInv'
  BY <1>1, <1>2 DEF FreshInv, Early, Unwritten
<1>4. JobInv' /\ BlockInv'
  BY <1>1, <1>2 DEF JobInv, Busy, BlockInv
<1>5. CompleteInv'
  BY <1>1, <1>2 DEF CompleteInv
<1>6. CapInv'
  BY <1>1, <1>2 DEF CapInv, Busy, Ending
<1>7. GoawaySparesAccepted' /\ OrderInv'
  BY <1>1 DEF GoawaySparesAccepted, OrderInv
<1> QED  BY <1>3, <1>4, <1>5, <1>6, <1>7 DEF FrameInv

\* What a peer sends on a stream: HEADERS, DATA, RST_STREAM.
LEMMA FramePeer ==
    ASSUME TypeOK, FrameInv, NEW r \in Reqs, PeerFrame(r)
    PROVE  FrameInv'
<1>1. /\ FreshInv /\ JobInv /\ BlockInv /\ CompleteInv /\ CapInv /\ GoawaySparesAccepted /\ OrderInv
      /\ done \in [Reqs -> BOOLEAN] /\ streams \subseteq Reqs /\ pc \in [Reqs -> Labels]
      /\ nbytes \in [Reqs -> Nat] /\ sent \in [Reqs -> Nat] /\ job \in Jobs
      /\ peer \in [Reqs -> {"none", "open", "body", "ended", "reset"}]
  BY DEF FrameInv, TypeOK, OutcomeType, CallType, ReadType, WireType
<1>2. /\ rpc = "read" /\ hsid = Nobody /\ peer[r] \in {"open", "body"}
      /\ ReaderFrame /\ UNCHANGED <<pc, streams, sid, nextId, goawayLast>>
  BY DEF PeerFrame, RecvHeaders, RecvData, RecvRst, CanRecv, Answers, ReaderFrame, HeadersFrame,
         callVars, readVars
<1>3. pc[r] \notin Unwritten /\ pc[r] # "ok" /\ (done[r] => error[r] # "none")
  BY <1>1, <1>2 DEF FreshInv, CompleteInv
<1>4. CASE RecvHeaders(r)
  <2>1. PICK next \in {"open", "body", "ended"}, endHeaders \in BOOLEAN :
          /\ peer' = [peer EXCEPT ![r] = next]
          /\ \/ endHeaders /\ FinishHeaders(r, next = "ended")
             \/ /\ ~endHeaders
                /\ hsid' = r /\ hend' = (next = "ended")
                /\ UNCHANGED <<missed, garbled, done, rpc>>
    BY <1>4 DEF RecvHeaders
  <2>2. HeadersFrame
    BY <1>4 DEF RecvHeaders
  <2>3. /\ peer'[r] = next /\ \A q \in Reqs \ {r} : peer'[q] = peer[q]
        /\ peer' \in [Reqs -> {"none", "open", "body", "ended", "reset"}]
    BY <1>1, <2>1
  <2>4. CASE FinishHeaders(r, next = "ended")
    BY <1>2, <1>3, <2>2, <2>3, <2>4, FinishKeeps
  <2>5. CASE hsid' = r /\ hend' = (next = "ended") /\ UNCHANGED <<missed, garbled, done, rpc>>
    <3>1. UNCHANGED <<error, nbytes, sent>>
      BY <2>2 DEF HeadersFrame
    <3>2. FreshInv' /\ JobInv' /\ BlockInv'
      BY <1>1, <1>2, <1>3, <2>3, <2>5, <3>1 DEF FreshInv, JobInv, Busy, BlockInv, Early, Unwritten
    <3>3. CompleteInv' /\ CapInv'
      BY <1>1, <1>2, <1>3, <2>3, <2>5, <3>1 DEF CompleteInv, CapInv, Busy, Ending
    <3>4. GoawaySparesAccepted' /\ OrderInv'
      BY <1>1, <1>2, <3>1 DEF GoawaySparesAccepted, OrderInv
    <3> QED  BY <3>2, <3>3, <3>4 DEF FrameInv
  <2> QED  BY <2>1, <2>4, <2>5
<1>5. CASE RecvData(r)
  <2>1. PICK n \in 0 .. 1, fin \in BOOLEAN :
          /\ sent' = [sent EXCEPT ![r] = @ + n]
          /\ peer' = [peer EXCEPT ![r] = IF fin THEN "ended" ELSE @]
          /\ \/ /\ r \in streams /\ ~done[r]
                /\ nbytes' = [nbytes EXCEPT ![r] = @ + n]
                /\ job' = [req |-> r, fin |-> fin, then |-> "post"]
                /\ rpc' = IF n > 0 THEN "lock" ELSE "post"
             \/ /\ r \notin streams \/ done[r]
                /\ UNCHANGED <<nbytes, job, rpc>>
    BY <1>5 DEF RecvData
  <2>2. peer[r] = "body" /\ UNCHANGED <<hsid, hend, done, error>>
    BY <1>5 DEF RecvData, outcomeVars
  <2>3. /\ peer'[r] = (IF fin THEN "ended" ELSE "body") /\ sent'[r] = sent[r] + n
        /\ \A q \in Reqs \ {r} : peer'[q] = peer[q] /\ sent'[q] = sent[q] /\ nbytes'[q] = nbytes[q]
    BY <1>1, <2>1, <2>2
  <2>4. /\ nbytes'[r] \in {nbytes[r], nbytes[r] + n}
        /\ r \in streams /\ ~done[r] =>
             /\ nbytes'[r] = nbytes[r] + n /\ rpc' \in {"lock", "post"}
             /\ job'.req = r /\ job'.then = "post" /\ job'.fin = fin
        /\ r \notin streams \/ done[r] => rpc' = rpc /\ nbytes' = nbytes
    BY <1>1, <2>1
  <2>5. FreshInv' /\ BlockInv'
    BY <1>1, <1>2, <1>3, <2>2, <2>3 DEF FreshInv, BlockInv, Early, Unwritten
  <2>6. JobInv'
    <3>1. CASE r \in streams /\ ~done[r]
      <4>1. JobOf(r)'
        BY <1>1, <2>2, <2>3, <2>4, <3>1 DEF JobOf, CompleteInv
      <4> QED  BY <4>1 DEF JobInv
    <3>2. CASE r \notin streams \/ done[r]
      BY <1>2, <2>4, <3>2 DEF JobInv, Busy
    <3> QED  BY <3>1, <3>2
  <2>7. CompleteInv'
    BY <1>1, <1>2, <1>3, <2>2, <2>3, <2>4 DEF CompleteInv
  <2>8. CapInv'
    <3>1. CASE r \in streams /\ ~done[r]
      BY <1>1, <1>2, <2>1, <2>2, <2>3, <2>4, <3>1, ConnAssumption DEF CapInv, Busy, Ending, ConnAssumption
    <3>2. CASE r \notin streams \/ done[r]
      BY <1>1, <1>2, <2>2, <2>4, <3>2 DEF CapInv, Busy, Ending
    <3> QED  BY <3>1, <3>2
  <2>9. GoawaySparesAccepted' /\ OrderInv'
    BY <1>1, <1>2, <2>2 DEF GoawaySparesAccepted, OrderInv
  <2> QED  BY <2>5, <2>6, <2>7, <2>8, <2>9 DEF FrameInv
<1>6. CASE RecvRst(r)
  <2>1. /\ peer' = [peer EXCEPT ![r] = "reset"] /\ FailStreams({r} \cap streams, "reset")
        /\ UNCHANGED <<rpc, job, hsid, hend, nbytes, sent>>
    BY <1>6 DEF RecvRst, readVars
  <2>2. \A q \in Reqs : /\ q # r => peer'[q] = peer[q] /\ error'[q] = error[q] /\ done'[q] = done[q]
                        /\ error'[q] \in {error[q], "reset"}
                        /\ done'[q] => done[q] \/ error'[q] = "reset"
                        /\ done[q] => done'[q] /\ error'[q] = error[q]
    BY <1>1, <2>1 DEF FailStreams
  <2>3. peer'[r] = "reset"
    BY <1>1, <2>1
  <2>4. FreshInv' /\ JobInv' /\ BlockInv'
    BY <1>1, <1>2, <1>3, <2>1, <2>2 DEF FreshInv, JobInv, Busy, BlockInv, Early, Unwritten
  <2>5. CompleteInv'
    BY <1>1, <1>2, <1>3, <2>1, <2>2 DEF CompleteInv
  <2>6. CapInv'
    BY <1>1, <1>2, <2>1, <2>2 DEF CapInv
  <2>7. GoawaySparesAccepted' /\ OrderInv'
    BY <1>1, <1>2, <2>2 DEF GoawaySparesAccepted, OrderInv
  <2> QED  BY <2>4, <2>5, <2>6, <2>7 DEF FrameInv
<1> QED  BY <1>4, <1>5, <1>6 DEF PeerFrame

\* The other steps of the reader.
LEMMA FrameReader ==
    ASSUME TypeOK, FrameInv, ReaderAny
    PROVE  FrameInv'
<1>1. /\ FreshInv /\ JobInv /\ BlockInv /\ CompleteInv /\ CapInv /\ GoawaySparesAccepted /\ OrderInv
      /\ done \in [Reqs -> BOOLEAN] /\ streams \subseteq Reqs /\ nbytes \in [Reqs -> Nat]
      /\ error \in [Reqs -> {"none", "closed", "goaway", "reset", "cap"}]
      /\ sid \in [Reqs -> Nat] /\ goawayLast \in Nat
      /\ hsid \in Reqs \cup {Nobody} /\ hend \in BOOLEAN /\ job \in Jobs /\ rpc \in ReaderLabels
      /\ peer \in [Reqs -> {"none", "open", "body", "ended", "reset"}]
  BY DEF FrameInv, TypeOK, OutcomeType, CallType, ReadType, WireType
<1>2. UNCHANGED <<pc, callVars>> /\ UNCHANGED <<streams, sid, nextId>>
  BY DEF ReaderAny, RecvContinuation, RecvAcked, RecvGoaway, RecvEof, ReaderStep, RecvStop,
         ReaderGoto, GoawayFail, ReaderLock, ReaderWritten, PostData, CapFail, FailAll,
         ReaderDrain, ReaderFree, ReaderFrame, callVars
<1>3. CASE RecvEof \/ RecvStop \/ ReaderDrain \/ ReaderFree
  BY <1>2, <1>3, MoveKeeps DEF RecvEof, RecvStop, ReaderDrain, ReaderFree, ReaderGoto, readVars,
         outcomeVars, Ending
<1>4. CASE ReaderLock
  BY <1>2, <1>4, MoveKeeps DEF ReaderLock, readVars, outcomeVars, Busy
<1>5. CASE ReaderWritten
  <2>1. UNCHANGED <<job, nbytes, sent, peer, hsid, hend, goawayLast, done, error>> /\ rpc = "write"
    BY <1>5 DEF ReaderWritten, readVars, outcomeVars
  <2>2. CASE rpc' = "failAll"
    BY <1>2, <2>1, <2>2, MoveKeeps DEF Ending
  <2>3. CASE rpc' = job.then /\ job # NoJob
    BY <1>1, <1>2, <2>1, <2>3, MoveKeeps DEF JobInv, JobOf, Busy
  <2>4. CASE rpc' = job.then /\ job = NoJob
    <3>1. rpc' = "read"
      BY <2>4 DEF NoJob
    <3>2. FreshInv' /\ JobInv' /\ BlockInv' /\ CompleteInv' /\ GoawaySparesAccepted' /\ OrderInv'
      BY <1>1, <1>2, <2>1, <3>1 DEF FreshInv, JobInv, Busy, BlockInv, CompleteInv,
             GoawaySparesAccepted, OrderInv
    <3>3. CapInv'
      BY <1>1, <1>2, <2>1, <2>4, <3>1, ConnAssumption DEF CapInv, Busy, Ending, NoJob, ConnAssumption
    <3> QED  BY <3>2, <3>3 DEF FrameInv
  <2> QED  BY <1>5, <2>2, <2>3, <2>4 DEF ReaderWritten
<1>6. CASE RecvContinuation
  <2>1. hsid \in Reqs /\ FinishHeaders(hsid, hend) /\ ReaderFrame /\ HeadersFrame /\ rpc = "read" /\ peer' = peer
    BY <1>1, <1>6 DEF RecvContinuation
  <2>2. pc[hsid] \notin Unwritten
    BY <1>1, <2>1, ConnAssumption DEF BlockInv, FreshInv, ConnAssumption
  <2>3. hend => peer'[hsid] = "ended"
    BY <1>1, <2>1, ConnAssumption DEF BlockInv, ConnAssumption
  <2> QED  BY <1>1, <2>1, <2>2, <2>3, FinishKeeps
<1>7. CASE RecvAcked \/ RecvGoaway
  <2>1. /\ rpc = "read" /\ rpc' \in {"lock", "goaway"} /\ (rpc' = "lock" => job' = NoJob)
        /\ UNCHANGED <<hsid, hend, nbytes, sent, peer, done, error>>
        /\ goawayLast' <= goawayLast /\ goawayLast' \in Nat
    <3>1. {0, SidLimit - 1} \subseteq Nat
      BY ConnAssumption DEF ConnAssumption
    <3> QED  BY <1>1, <1>7, <3>1 DEF RecvAcked, RecvGoaway, CanRecv, outcomeVars
  <2>2. FreshInv' /\ BlockInv' /\ CompleteInv' /\ OrderInv'
    BY <1>1, <1>2, <2>1 DEF FreshInv, BlockInv, CompleteInv, OrderInv
  <2>3. JobInv' /\ CapInv'
    BY <1>1, <1>2, <2>1 DEF JobInv, CapInv, Busy, Ending
  <2>4. GoawaySparesAccepted'
    BY <1>1, <1>2, <2>1 DEF GoawaySparesAccepted
  <2> QED  BY <2>2, <2>3, <2>4 DEF FrameInv
<1>8. CASE FailAll
  BY <1>2, <1>8, FailKeeps DEF FailAll, readVars, Busy, Ending
<1>9. CASE GoawayFail
  <2>1. /\ rpc = "goaway" /\ rpc' = "read"
        /\ UNCHANGED <<hsid, hend, nbytes, sent, peer, goawayLast>>
    BY <1>9 DEF GoawayFail, readVars
  <2>2. \A r \in Reqs :
          /\ error'[r] # error[r] => error'[r] = "goaway" /\ sid[r] > goawayLast /\ r \in streams
          /\ done'[r] # done[r] => done'[r] /\ error'[r] = "goaway" /\ r \in streams
          /\ done[r] => done'[r] /\ error'[r] = error[r]
    BY <1>1, <1>9 DEF GoawayFail, FailStreams
  <2>3. FreshInv' /\ JobInv' /\ BlockInv'
    BY <1>1, <1>2, <2>1, <2>2 DEF FreshInv, JobInv, Busy, BlockInv
  <2>4. CompleteInv' /\ CapInv'
    BY <1>1, <1>2, <2>1, <2>2 DEF CompleteInv, CapInv, Busy, Ending
  <2>5. GoawaySparesAccepted' /\ OrderInv'
    BY <1>1, <1>2, <2>1, <2>2 DEF GoawaySparesAccepted, OrderInv
  <2> QED  BY <2>3, <2>4, <2>5 DEF FrameInv
<1>10. ASSUME rpc \in {"post", "capFail"}
       PROVE  \E r \in Reqs : JobOf(r)
  BY <1>1, <1>10 DEF JobInv, Busy
<1>11. CASE PostData
  <2>1. PICK r \in Reqs : JobOf(r)
    BY <1>10, <1>11 DEF PostData
  <2>2. /\ rpc = "post" /\ job.req = r
        /\ UNCHANGED <<hsid, hend, nbytes, sent, peer, goawayLast, error>>
    BY <1>11, <2>1 DEF PostData, JobOf
  <2>3. CASE ~OverCap(r)
    <3>1. /\ rpc' = "read" /\ \A q \in Reqs \ {r} : done'[q] = done[q]
          /\ done'[r] = job.fin
      BY <1>1, <1>11, <2>1, <2>2, <2>3 DEF PostData, JobOf, Jobs
    <3>2. FreshInv' /\ JobInv' /\ BlockInv'
      BY <1>1, <1>2, <2>1, <2>2, <3>1 DEF FreshInv, JobInv, Busy, BlockInv, JobOf, Early, Unwritten
    <3>3. CompleteInv'
      BY <1>1, <1>2, <2>1, <2>2, <3>1 DEF CompleteInv, JobOf
    <3>4. CapInv'
      BY <1>1, <1>2, <2>1, <2>2, <2>3, <3>1, ConnAssumption DEF CapInv, OverCap, Busy, Ending, ConnAssumption
    <3>5. GoawaySparesAccepted' /\ OrderInv'
      BY <1>1, <1>2, <2>2 DEF GoawaySparesAccepted, OrderInv
    <3> QED  BY <3>2, <3>3, <3>4, <3>5 DEF FrameInv
  <2>4. CASE OverCap(r)
    <3>1. /\ rpc' \in {"capFail", "lock"} /\ done' = done
          /\ job'.req = r /\ job'.then = "capFail" /\ job'.fin = job.fin
      BY <1>1, <1>11, <2>2, <2>4 DEF PostData, Jobs
    <3>2. JobOf(r)'
      BY <2>1, <2>2, <3>1 DEF JobOf
    <3>3. FreshInv' /\ JobInv' /\ BlockInv'
      BY <1>1, <1>2, <2>2, <3>1, <3>2 DEF FreshInv, JobInv, BlockInv
    <3>4. CompleteInv' /\ CapInv'
      BY <1>1, <1>2, <2>2, <3>1 DEF CompleteInv, CapInv, Busy, Ending
    <3>5. GoawaySparesAccepted' /\ OrderInv'
      BY <1>1, <1>2, <2>2 DEF GoawaySparesAccepted, OrderInv
    <3> QED  BY <3>3, <3>4, <3>5 DEF FrameInv
  <2> QED  BY <2>3, <2>4
<1>12. CASE CapFail
  <2>1. PICK r \in Reqs : JobOf(r)
    BY <1>10, <1>12 DEF CapFail
  <2>2. /\ rpc = "capFail" /\ rpc' = "read" /\ job.req = r
        /\ UNCHANGED <<hsid, hend, nbytes, sent, peer, goawayLast>>
        /\ error'[r] = "cap" /\ done'[r]
        /\ \A q \in Reqs \ {r} : error'[q] = error[q] /\ done'[q] = done[q]
    BY <1>1, <1>12, <2>1 DEF CapFail, JobOf
  <2>3. FreshInv' /\ JobInv' /\ BlockInv'
    BY <1>1, <1>2, <2>1, <2>2 DEF FreshInv, JobInv, Busy, BlockInv, JobOf, Early, Unwritten
  <2>4. CompleteInv' /\ CapInv'
    BY <1>1, <1>2, <2>1, <2>2 DEF CompleteInv, CapInv, Busy, Ending, JobOf
  <2>5. GoawaySparesAccepted' /\ OrderInv'
    BY <1>1, <1>2, <2>2 DEF GoawaySparesAccepted, OrderInv
  <2> QED  BY <2>3, <2>4, <2>5 DEF FrameInv
<1> QED
  BY <1>3, <1>4, <1>5, <1>6, <1>7, <1>8, <1>9, <1>11, <1>12 DEF ReaderAny, ReaderStep

\* A closer fails streams only when the reader is gone.
LEMMA FrameCloser ==
    ASSUME TypeOK, TeardownInv, FrameInv, NEW c \in Closers, CloserStep(c)
    PROVE  FrameInv'
<1>1. UNCHANGED <<pc, callVars, nbytes, sent, peer, hsid, hend, goawayLast, rpc, job>>
  BY DEF CloserStep, CloseBegin, CloseStop, CloseCheck, CloseJoin, CloseFailAll, CloseDrain,
         CloseFree, CloseFrame, readVars
<1>2. CASE CloseFailAll(c)
  <2>1. rpc = "dead"
    BY <1>2 DEF CloseFailAll, TeardownInv
  <2> QED  BY <1>1, <1>2, <2>1, FailKeeps DEF CloseFailAll, Busy
<1>3. CASE ~CloseFailAll(c)
  <2>1. UNCHANGED <<done, error>>
    BY <1>3 DEF CloserStep, CloseBegin, CloseStop, CloseCheck, CloseJoin, CloseDrain, CloseFree,
           outcomeVars
  <2> QED
    BY <1>1, <2>1 DEF FrameInv, FreshInv, JobInv, JobOf, BlockInv, CompleteInv, CapInv,
           GoawaySparesAccepted, OrderInv, callVars
<1> QED  BY <1>2, <1>3

\* Every step of a call, the peer, the reader or a closer keeps the frame invariants.
LEMMA FrameStep ==
    ASSUME TypeOK, LockInv, TeardownInv, FrameInv, [Next]_vars
    PROVE  FrameInv'
<1>1. CASE UNCHANGED vars
  BY <1>1 DEF vars, callVars, readVars, outcomeVars, FrameInv, FreshInv, JobInv, JobOf, BlockInv,
         CompleteInv, CapInv, GoawaySparesAccepted, OrderInv
<1> QED
  BY <1>1, FrameCall, FramePeer, FrameReader, FrameCloser
     DEF Next, PeerStep, PeerFrame, ReaderAny, Terminated

\* The invariants of all frames hold together.
LEMMA FramesHold == Spec => [](TypeOK /\ LockInv /\ TeardownInv /\ FrameInv)
<1>1. Init => LockInv /\ TeardownInv
  BY ConnAssumption DEF ConnAssumption, Init, LockInv, LockedPc, WritingPc, TeardownInv
<1>2. Init => FrameInv
  BY ConnAssumption DEF ConnAssumption, Init, FrameInv, FreshInv, JobInv, Busy, BlockInv,
         CompleteInv, CapInv, GoawaySparesAccepted, OrderInv
<1>3. TypeOK /\ LockInv /\ TeardownInv /\ FrameInv /\ [Next]_vars => (LockInv /\ TeardownInv /\ FrameInv)'
  BY LockStep, TeardownStep, FrameStep
<1> QED
  BY <1>1, <1>2, <1>3, TypeCorrect, PTL DEF Spec

-----------------------------------------------------------------------------
\* A call returns a response only if the peer ended the stream, and then all of it.
THEOREM ResponsesComplete == Spec => []OkIsComplete
<1>1. FrameInv => OkIsComplete
  BY DEF FrameInv, CompleteInv, OkIsComplete
<1> QED  BY <1>1, FramesHold, PTL

\* No stream ever buffers more than one payload beyond max_response_bytes.
THEOREM BuffersBounded == Spec => []BufferBounded
<1>1. FrameInv => BufferBounded
  BY DEF FrameInv, CapInv, BufferBounded
<1> QED  BY <1>1, FramesHold, PTL

\* GOAWAY fails no stream the server said it would process.
THEOREM GoawaySpares == Spec => []GoawaySparesAccepted
<1>1. FrameInv => GoawaySparesAccepted
  BY DEF FrameInv
<1> QED  BY <1>1, FramesHold, PTL

\* What a waiter may have read of a finished stream never changes.
THEOREM OutcomesFinal == Spec => DoneIsFinal
<1>1. ASSUME TypeOK, TeardownInv, FrameInv, [Next]_vars, NEW r \in Reqs, done[r]
      PROVE  done'[r] /\ error'[r] = error[r] /\ nbytes'[r] = nbytes[r]
  <2>1. done \in [Reqs -> BOOLEAN] /\ error \in [Reqs -> {"none", "closed", "goaway", "reset", "cap"}]
        /\ nbytes \in [Reqs -> Nat]
    BY <1>1 DEF TypeOK, OutcomeType, ReadType
  <2>2. CASE \E q \in Reqs : ReqStep(q)
    BY <1>1, <2>2, CallTouches DEF CallFrame, readVars, outcomeVars
  <2>3. ASSUME NEW q \in Reqs, PeerFrame(q) PROVE done'[r] /\ error'[r] = error[r] /\ nbytes'[r] = nbytes[r]
    BY <1>1, <2>1, <2>3 DEF PeerFrame, RecvHeaders, RecvData, RecvRst, FinishHeaders, HeadersFrame,
           FailStreams, readVars, outcomeVars
  <2>4. CASE RecvContinuation \/ RecvAcked \/ RecvGoaway \/ RecvEof \/ RecvStop \/ ReaderLock
             \/ ReaderWritten \/ ReaderDrain \/ ReaderFree
    BY <1>1, <2>1, <2>4 DEF RecvContinuation, FinishHeaders, HeadersFrame, RecvAcked, RecvGoaway,
           RecvEof, RecvStop, ReaderGoto, ReaderLock, ReaderWritten, ReaderDrain, ReaderFree,
           readVars, outcomeVars
  <2>5. CASE GoawayFail \/ FailAll \/ \E c \in Closers : CloserStep(c)
    BY <1>1, <2>1, <2>5 DEF GoawayFail, FailAll, FailStreams, readVars, outcomeVars, CloserStep,
           CloseBegin, CloseStop, CloseCheck, CloseJoin, CloseFailAll, CloseDrain, CloseFree, CloseFrame
  <2>6. CASE PostData \/ CapFail
    <3>1. job.req # r
      BY <1>1, <2>6 DEF PostData, CapFail, FrameInv, JobInv, JobOf, Busy
    <3> QED  BY <1>1, <2>1, <2>6, <3>1 DEF PostData, CapFail
  <2>7. CASE UNCHANGED vars
    BY <1>1, <2>7 DEF vars, readVars, outcomeVars
  <2> QED
    BY <1>1, <2>2, <2>3, <2>4, <2>5, <2>6, <2>7
       DEF Next, PeerStep, PeerFrame, ReaderStep, Terminated
<1>2. TypeOK /\ TeardownInv /\ FrameInv /\ [Next]_vars
        => [\A r \in Reqs : done[r] => done'[r] /\ error'[r] = error[r] /\ nbytes'[r] = nbytes[r]]_vars
  BY <1>1
<1> QED  BY <1>2, FramesHold, PTL DEF Spec, DoneIsFinal

\* Streams reach the wire in the order of their ids.
THEOREM WireOrdered == Spec => WireInIdOrder
<1>1. ASSUME TypeOK, FrameInv, [Next]_vars, NEW r \in Reqs, NEW q \in Reqs,
             peer[r] = "none", peer'[r] = "open", peer[q] # "none"
      PROVE  sid[q] < sid[r]
  <2>1. pc[r] = "registered"
    <3>1. peer \in [Reqs -> {"none", "open", "body", "ended", "reset"}]
      BY <1>1 DEF TypeOK, WireType
    <3>2. ASSUME NEW p \in Reqs, ReqStep(p) PROVE pc[r] = "registered"
      <4>1. p = r /\ SendWrite(p)
        BY <1>1, <3>1, <3>2, CallTouches DEF SendLock
      <4> QED  BY <4>1 DEF SendWrite
    <3>3. ASSUME NEW p \in Reqs, PeerFrame(p) PROVE FALSE
      BY <1>1, <3>1, <3>3 DEF PeerFrame, RecvHeaders, RecvData, RecvRst, Answers
    <3>4. ~ReaderAny
      BY <1>1 DEF ReaderAny, RecvContinuation, RecvAcked, RecvGoaway, RecvEof, ReaderStep, RecvStop,
             ReaderGoto, GoawayFail, ReaderLock, ReaderWritten, PostData, CapFail, FailAll,
             ReaderDrain, ReaderFree
    <3>5. ~ \E c \in Closers : CloserStep(c)
      BY <1>1 DEF CloserStep, CloseBegin, CloseStop, CloseCheck, CloseJoin, CloseFailAll,
             CloseDrain, CloseFree, CloseFrame
    <3>6. ~ UNCHANGED vars
      BY <1>1 DEF vars
    <3> QED
      BY <1>1, <3>2, <3>3, <3>4, <3>5, <3>6 DEF Next, PeerStep, PeerFrame, ReaderAny, Terminated
  <2> QED  BY <1>1, <2>1 DEF FrameInv, OrderInv
<1>2. TypeOK /\ FrameInv /\ [Next]_vars
        => [\A r, q \in Reqs : peer[r] = "none" /\ peer'[r] = "open" /\ peer[q] # "none"
              => sid[q] < sid[r]]_vars
  BY <1>1
<1> QED  BY <1>2, FramesHold, PTL DEF Spec, WireInIdOrder
=============================================================================
