---------------------------- MODULE H2ConnProofs ----------------------------
(***************************************************************************)
(* Proofs about H2Conn for every set of calls and closers and every bound. *)
(***************************************************************************)
EXTENDS H2Conn, FiniteSetTheorems, TLAPS

\* A step of a call keeps the types: it leaves the reader's and the closers' variables
\* alone and moves its own.
LEMMA CallTypeStep ==
    ASSUME TypeOK, NEW r \in Reqs, ReqStep(r)
    PROVE  TypeOK'
<1>1. CallFrame
  BY DEF ReqStep, Acquire, Abandon, SendCheck, SendLock, SendWrite, SendWritten, Release,
         Deliver, Expire, RstCheck, RstLock, RstWritten, PopExpired, OnlyPc, Pop
<1>2. ReadType' /\ OutcomeType' /\ CloseType'
  BY <1>1 DEF TypeOK, ReadType, OutcomeType, CloseType, CallFrame, readVars, outcomeVars,
              closeVars, tpVars
<1>3. WireType'
  BY DEF TypeOK, WireType, ReqStep, Acquire, Abandon, SendCheck, SendLock, SendWrite,
         SendWritten, Release, Deliver, Expire, RstCheck, RstLock, RstWritten, PopExpired,
         OnlyPc, Pop
<1>4. CallType'
  <2> USE DEF TypeOK, CallType, Goto, Labels, InSend, InLoop, Terminal, callVars
  <2>1. CASE Acquire(r)
    <3>1. CASE CanAcquire
      <4>1. pc' \in [Reqs -> Labels] /\ UNCHANGED <<starved, sid, nextId, streams>>
        BY <2>1, <3>1 DEF Acquire
      <4>2. refs' \in Nat
        BY <2>1, <3>1 DEF Acquire
      <4>3. held' \in [Reqs -> BOOLEAN]
        BY <2>1, <3>1, Zenon DEF Acquire
      <4> QED
        BY <4>1, <4>2, <4>3
    <3>2. CASE ~CanAcquire
      BY <2>1, <3>2 DEF Acquire
    <3> QED
      BY <3>1, <3>2
  <2>2. CASE Abandon(r) \/ SendCheck(r) \/ Expire(r) \/ RstCheck(r)
    BY <2>2 DEF Abandon, SendCheck, Expire, RstCheck, OnlyPc
  <2>3. CASE SendLock(r)
    BY <2>3 DEF SendLock
  <2>4. CASE SendWrite(r) \/ SendWritten(r) \/ RstLock(r) \/ RstWritten(r)
    BY <2>4 DEF SendWrite, SendWritten, RstLock, RstWritten
  <2>5. CASE Release(r)
    BY <2>5 DEF Release
  <2>6. CASE Deliver(r) \/ PopExpired(r)
    BY <2>6 DEF Deliver, PopExpired, Pop
  <2> QED
    BY <2>1, <2>2, <2>3, <2>4, <2>5, <2>6 DEF ReqStep
<1> QED
  BY <1>2, <1>3, <1>4 DEF TypeOK

\* What the peer sends and the reader does with it.
PeerFrame(r) == RecvHeaders(r) \/ RecvData(r) \/ RecvRst(r)
ReaderAny == RecvContinuation \/ RecvAcked \/ RecvGoaway \/ RecvEof \/ ReaderStep

\* The record the reader's job is reset to is a job.
LEMMA NoJobType == NoJob \in Jobs
  BY DEF NoJob, Jobs

\* A header block that ends, decoded or not, keeps the types.
LEMMA HeadersTypeStep ==
    ASSUME TypeOK, NEW r \in Reqs, NEW fin \in BOOLEAN, FinishHeaders(r, fin), HeadersFrame
    PROVE  ReadType' /\ OutcomeType'
<1> USE DEF TypeOK, ReadType, OutcomeType, HeadersFrame, ReaderLabels
<1>1. CASE r \in streams /\ rpc' = rpc
  BY <1>1 DEF FinishHeaders
<1>2. CASE r \in streams /\ rpc' # rpc
  BY <1>2 DEF FinishHeaders
<1>3. CASE r \notin streams
  BY <1>3 DEF FinishHeaders
<1> QED
  BY <1>1, <1>2, <1>3

\* A step of the reader keeps the types of what it and the closers write.
LEMMA ReaderTypeStep ==
    ASSUME TypeOK, (\E r \in Reqs : PeerFrame(r)) \/ ReaderAny
    PROVE  TypeOK'
<1>1. ReaderFrame
  BY DEF PeerFrame, ReaderAny, RecvHeaders, RecvData, RecvRst, RecvContinuation, RecvAcked,
         RecvGoaway, RecvEof, ReaderStep, RecvStop, ReaderGoto, GoawayFail, ReaderLock,
         ReaderWritten, PostData, CapFail, FailAll, ReaderDrain, ReaderFree
<1>2. CallType'
  BY <1>1 DEF TypeOK, CallType, ReaderFrame, callVars
<1>3. CloseType'
  <2> USE DEF TypeOK, CloseType, tpVars
  <2>1. CASE \E r \in Reqs : PeerFrame(r)
    <3>1. UNCHANGED <<closed, closing, stop, cpc, tp, overrun>>
      <4>1. PICK r \in Reqs : PeerFrame(r)
        BY <2>1
      <4>2. CASE RecvHeaders(r)
        BY <4>2 DEF RecvHeaders, HeadersFrame, ReaderFrame, closeVars
      <4>3. CASE RecvData(r)
        BY <4>3 DEF RecvData, ReaderFrame, closeVars
      <4>4. CASE RecvRst(r)
        BY <4>4 DEF RecvRst, ReaderFrame, closeVars
      <4> QED  BY <4>1, <4>2, <4>3, <4>4 DEF PeerFrame
    <3> QED  BY <3>1
  <2>2. CASE RecvContinuation \/ RecvAcked \/ RecvGoaway \/ RecvEof
    BY <2>2 DEF RecvContinuation, RecvAcked, RecvGoaway, RecvEof, ReaderGoto, HeadersFrame,
               ReaderFrame, closeVars
  <2>3. CASE RecvStop \/ GoawayFail \/ ReaderLock \/ ReaderWritten \/ PostData
    BY <2>3 DEF RecvStop, ReaderGoto, GoawayFail, ReaderLock, ReaderWritten, PostData,
               ReaderFrame, closeVars
  <2>4. CASE CapFail \/ FailAll \/ ReaderDrain \/ ReaderFree
    BY <2>4 DEF CapFail, FailAll, ReaderDrain, ReaderFree, Drain, ReaderGoto, ReaderFrame, closeVars
  <2> QED
    BY <2>1, <2>2, <2>3, <2>4 DEF ReaderAny, ReaderStep
<1>4. ASSUME NEW r \in Reqs, PeerFrame(r) PROVE WireType' /\ ReadType' /\ OutcomeType'
  <2>1. CASE RecvHeaders(r)
    <3>1. WireType'
      BY <2>1 DEF RecvHeaders, HeadersFrame, TypeOK, WireType
    <3>2. HeadersFrame
      BY <2>1 DEF RecvHeaders
    <3>3. CASE \E fin \in BOOLEAN : FinishHeaders(r, fin)
      BY <3>1, <3>2, <3>3, HeadersTypeStep
    <3>4. CASE ~ \E fin \in BOOLEAN : FinishHeaders(r, fin)
      <4>1. hsid' = r /\ hend' \in BOOLEAN /\ UNCHANGED <<missed, garbled, done, rpc>>
        BY <2>1, <3>4 DEF RecvHeaders
      <4> QED
        BY <3>1, <3>2, <4>1 DEF HeadersFrame, TypeOK, ReadType, OutcomeType
    <3> QED
      BY <3>3, <3>4
  <2>2. CASE RecvData(r)
    BY <2>2 DEF RecvData, TypeOK, WireType, ReadType, OutcomeType, outcomeVars, ReaderLabels, Jobs
  <2>3. CASE RecvRst(r)
    BY <2>3 DEF RecvRst, FailStreams, TypeOK, WireType, ReadType, OutcomeType, readVars
  <2> QED
    BY <1>4, <2>1, <2>2, <2>3 DEF PeerFrame
<1>5. ASSUME ReaderAny PROVE WireType'
  BY <1>5, ConnAssumption DEF ConnAssumption, ReaderAny, TypeOK, WireType, HeadersFrame,
         RecvContinuation, RecvAcked, RecvGoaway, RecvEof, ReaderStep, RecvStop, ReaderGoto,
         GoawayFail, ReaderLock, ReaderWritten, PostData, CapFail, FailAll, ReaderDrain, ReaderFree
<1>6. ASSUME ReaderAny PROVE ReadType' /\ OutcomeType'
  <2> USE DEF TypeOK, ReadType, OutcomeType, readVars, outcomeVars, ReaderLabels
  <2>1. CASE RecvContinuation
    BY <2>1, HeadersTypeStep DEF RecvContinuation
  <2>2. CASE RecvAcked
    BY <2>2, NoJobType, ConnAssumption DEF RecvAcked, ConnAssumption
  <2>3. CASE RecvGoaway
    <3>1. {0, SidLimit - 1} \subseteq Nat
      BY ConnAssumption DEF ConnAssumption
    <3> QED
      BY <2>3, <3>1 DEF RecvGoaway, CallType
  <2>4. CASE RecvEof \/ RecvStop
    BY <2>4 DEF RecvEof, RecvStop, ReaderGoto
  <2>5. CASE GoawayFail \/ FailAll
    BY <2>5 DEF GoawayFail, FailAll, FailStreams
  <2>6. CASE ReaderLock
    BY <2>6 DEF ReaderLock
  <2>7. CASE ReaderWritten
    BY <2>7 DEF ReaderWritten, Jobs
  <2>8. CASE PostData
    <3>1. done' \in [Reqs -> BOOLEAN] /\ UNCHANGED error
      BY <2>8, Zenon DEF PostData
    <3>2. job' \in Jobs /\ rpc' \in ReaderLabels
      BY <2>8, NoJobType DEF PostData, Jobs
    <3>3. ReadType'
      BY <2>8, <3>2 DEF PostData
    <3> QED
      BY <3>1, <3>3
  <2>9. CASE CapFail
    <3>1. done' \in [Reqs -> BOOLEAN]
      BY <2>9, Zenon DEF CapFail
    <3>2. error' \in [Reqs -> {"none", "closed", "goaway", "reset", "cap"}]
      BY <2>9 DEF CapFail
    <3>3. ReadType'
      BY <2>9, NoJobType DEF CapFail
    <3> QED
      BY <3>1, <3>2, <3>3
  <2>10. CASE ReaderDrain \/ ReaderFree
    BY <2>10 DEF ReaderDrain, ReaderFree
  <2> QED
    BY <1>6, <2>1, <2>2, <2>3, <2>4, <2>5, <2>6, <2>7, <2>8, <2>9, <2>10 DEF ReaderAny, ReaderStep
<1> QED
  BY <1>2, <1>3, <1>4, <1>5, <1>6 DEF TypeOK

\* A step of close() keeps the types.
LEMMA CloserTypeStep ==
    ASSUME TypeOK, NEW c \in Closers, CloserStep(c)
    PROVE  TypeOK'
<1> USE DEF CloserStep, CloseBegin, CloseStop, CloseCheck, CloseJoin, CloseFailAll, CloseDrain,
            CloseFree
<1>1. CloseFrame
  OBVIOUS
<1>2. CallType' /\ WireType' /\ ReadType'
  BY <1>1 DEF CloseFrame, TypeOK, CallType, WireType, ReadType, callVars, readVars
<1>3. OutcomeType'
  BY DEF TypeOK, OutcomeType, FailStreams, outcomeVars
<1>4. CloseType'
  BY DEF TypeOK, CloseType, ClGoto, Drain, tpVars, CloserLabels
<1> QED
  BY <1>2, <1>3, <1>4 DEF TypeOK

\* Every step of the connection keeps the types.
LEMMA TypeStep ==
    ASSUME TypeOK, [Next]_vars
    PROVE  TypeOK'
<1>1. CASE UNCHANGED vars
  BY <1>1 DEF TypeOK, CallType, WireType, ReadType, OutcomeType, CloseType, vars, callVars,
              readVars, outcomeVars, closeVars, tpVars
<1> QED
  BY <1>1, CallTypeStep, ReaderTypeStep, CloserTypeStep
     DEF Next, PeerStep, PeerFrame, ReaderAny, Terminated

\* Every reachable state of the connection is well typed; refs never goes below zero
\* although release() may run without a reference held.
THEOREM TypeCorrect == Spec => []TypeOK
<1>1. ASSUME Init PROVE TypeOK
  <2> USE <1>1 DEF Init
  <2>1. CallType
    BY DEF CallType, Labels
  <2>2. WireType /\ OutcomeType
    BY DEF WireType, OutcomeType
  <2>3. ReadType
    <3>1. garbled \in [Reqs -> BOOLEAN]
      BY Zenon
    <3>2. rpc \in ReaderLabels /\ hsid \in Reqs \cup {Nobody} /\ hend \in BOOLEAN /\ missed \in BOOLEAN
      BY DEF ReaderLabels
    <3>3. nbytes \in [Reqs -> Nat] /\ sent \in [Reqs -> Nat]
      OBVIOUS
    <3>4. maxConcurrent \in Nat /\ goawayLast \in Nat
      BY ConnAssumption DEF ConnAssumption
    <3> QED
      BY <3>1, <3>2, <3>3, <3>4, NoJobType DEF ReadType
  <2>4. CloseType
    BY DEF CloseType, CloserLabels
  <2> QED
    BY <2>1, <2>2, <2>3, <2>4 DEF TypeOK
<1>2. TypeOK /\ [Next]_vars => TypeOK'
  BY TypeStep
<1> QED
  BY <1>1, <1>2, PTL DEF Spec

-----------------------------------------------------------------------------
(***************************************************************************)
(* Who may be inside the native transport.                                 *)
(***************************************************************************)

\* _send_lock is owned exactly by the thread whose place says so.
LockInv ==
    /\ \A r \in Reqs : pc[r] \in LockedPc <=> sendLock = r
    /\ rpc = "write" <=> sendLock = Reader

\* The transport is torn down by the reader as its last step, or by a closer that saw
\* the reader dead.
TeardownInv ==
    /\ tp = "freed" => rpc = "dead"
    /\ \A c \in Closers : cpc[c] \in {"failAll", "drain", "free"} => rpc = "dead"

\* A call takes the lock only when it is free and gives back only its own.
LEMMA LockStep ==
    ASSUME TypeOK, LockInv, [Next]_vars
    PROVE  LockInv'
<1> USE ConnAssumption DEF ConnAssumption, TypeOK, LockInv, LockedPc, WritingPc
<1>1. ASSUME NEW r \in Reqs, ReqStep(r) PROVE LockInv'
  <2> USE DEF CallType, Goto, CallFrame
  <2>1. CASE Acquire(r)
    BY <2>1 DEF Acquire
  <2>2. CASE Abandon(r) \/ SendCheck(r) \/ Expire(r) \/ RstCheck(r)
    BY <2>2 DEF Abandon, SendCheck, Expire, RstCheck, OnlyPc
  <2>3. CASE SendLock(r)
    BY <2>3 DEF SendLock
  <2>4. CASE SendWrite(r)
    BY <2>4 DEF SendWrite
  <2>5. CASE SendWritten(r) \/ RstWritten(r)
    BY <2>5 DEF SendWritten, RstWritten
  <2>6. CASE Release(r)
    BY <2>6 DEF Release
  <2>7. CASE Deliver(r) \/ PopExpired(r)
    BY <2>7 DEF Deliver, PopExpired, Pop
  <2>8. CASE RstLock(r)
    BY <2>8 DEF RstLock
  <2> QED
    BY <1>1, <2>1, <2>2, <2>3, <2>4, <2>5, <2>6, <2>7, <2>8 DEF ReqStep
<1>2. ASSUME NEW r \in Reqs, PeerFrame(r) PROVE LockInv'
  BY <1>2 DEF PeerFrame, RecvHeaders, FinishHeaders, HeadersFrame, RecvData, RecvRst, CanRecv, ReaderFrame
<1>3. ASSUME ReaderAny PROVE LockInv'
  BY <1>3 DEF ReaderAny, ReaderFrame, HeadersFrame, FinishHeaders, CanRecv, RecvContinuation,
         RecvAcked, RecvGoaway, RecvEof, ReaderStep, RecvStop, ReaderGoto, GoawayFail,
         ReaderLock, ReaderWritten, PostData, CapFail, FailAll, ReaderDrain, ReaderFree,
         ReadType, Jobs
<1>4. ASSUME NEW c \in Closers, CloserStep(c) PROVE LockInv'
  BY <1>4 DEF CloserStep, CloseBegin, CloseStop, CloseCheck, CloseJoin, CloseFailAll,
         CloseDrain, CloseFree, CloseFrame
<1>5. CASE UNCHANGED vars
  BY <1>5 DEF vars
<1> QED
  BY <1>1, <1>2, <1>3, <1>4, <1>5 DEF Next, PeerStep, PeerFrame, ReaderAny, Terminated

\* Frames never interleave: at most one thread is inside tp.write.
THEOREM WritersExclude == Spec => []WritersExclusive
<1>1. Init => LockInv
  BY ConnAssumption DEF ConnAssumption, Init, LockInv, LockedPc, WritingPc
<1>2. TypeOK /\ LockInv /\ [Next]_vars => LockInv'
  BY LockStep
<1>3. LockInv => WritersExclusive
  BY ConnAssumption DEF ConnAssumption, LockInv, LockedPc, WritersExclusive
<1> QED
  BY <1>1, <1>2, <1>3, TypeCorrect, PTL DEF Spec

\* The place of the reader and of the closers says who may free the transport.
LEMMA TeardownStep ==
    ASSUME TypeOK, TeardownInv, [Next]_vars
    PROVE  TeardownInv'
<1> USE DEF TypeOK, TeardownInv
<1>1. ASSUME NEW r \in Reqs, ReqStep(r) PROVE TeardownInv'
  <2>1. CallFrame
    BY <1>1 DEF ReqStep, Acquire, Abandon, SendCheck, SendLock, SendWrite, SendWritten, Release,
         Deliver, Expire, RstCheck, RstLock, RstWritten, PopExpired, OnlyPc, Pop
  <2> QED
    BY <2>1 DEF CallFrame, closeVars, tpVars
<1>2. ASSUME NEW r \in Reqs, PeerFrame(r) PROVE TeardownInv'
  BY <1>2 DEF PeerFrame, RecvHeaders, FinishHeaders, HeadersFrame, RecvData, RecvRst, CanRecv,
         ReaderFrame, closeVars, tpVars
<1>3. ASSUME ReaderAny PROVE TeardownInv'
  BY <1>3 DEF ReaderAny, ReaderFrame, HeadersFrame, FinishHeaders, CanRecv, RecvContinuation,
         RecvAcked, RecvGoaway, RecvEof, ReaderStep, RecvStop, ReaderGoto, GoawayFail,
         ReaderLock, ReaderWritten, PostData, CapFail, FailAll, ReaderDrain, ReaderFree,
         closeVars, tpVars
<1>4. ASSUME NEW c \in Closers, CloserStep(c) PROVE TeardownInv'
  BY <1>4 DEF CloserStep, CloseBegin, CloseStop, CloseCheck, CloseJoin, CloseFailAll,
         CloseDrain, CloseFree, CloseFrame, ClGoto, CloseType, tpVars
<1>5. CASE UNCHANGED vars
  BY <1>5 DEF vars, closeVars, tpVars
<1> QED
  BY <1>1, <1>2, <1>3, <1>4, <1>5 DEF Next, PeerStep, PeerFrame, ReaderAny, Terminated

\* tp.close() never runs while the reader may be inside PR_Recv, whoever runs it.
THEOREM FreedOnlyAfterReader == Spec => []FreedAfterReader
<1>1. Init => TeardownInv
  BY DEF Init, TeardownInv
<1>2. TypeOK /\ TeardownInv /\ [Next]_vars => TeardownInv'
  BY TeardownStep
<1>3. TeardownInv => FreedAfterReader
  BY DEF TeardownInv, FreedAfterReader
<1> QED
  BY <1>1, <1>2, <1>3, TypeCorrect, PTL DEF Spec

-----------------------------------------------------------------------------
(***************************************************************************)
(* Reference counting.  The hard case is the connector, which runs _send   *)
(* and release() also when its acquire() was refused: its release() must   *)
(* not take away a reference of another call.  It does not if the refusal  *)
(* was for good, the connection being closed, closing, or past its last    *)
(* stream: none of these is ever undone, so nobody holds a reference.  If  *)
(* it was for a limit of 0 streams (starved), other calls may acquire      *)
(* after a later SETTINGS, and the connector's one release() takes one     *)
(* reference away; after it, the count stays at most one short.            *)
(***************************************************************************)

RefInv ==
    /\ RefsExact
    /\ \A r \in Reqs : held[r] => pc[r] \in InSend \cup {"cancelled"}
    /\ \A r \in Reqs : pc[r] \in InSend /\ ~held[r] =>
          /\ r = Connector
          /\ refs = Cardinality(Holders)
          /\ ~starved => Barred /\ Holders = {}
    /\ pc[Connector] = "idle" => ~starved /\ \A r \in Reqs : pc[r] = "idle"
    /\ rpc \in {"drain", "free", "dead"} => closed
    /\ rpc \in {"free", "dead"} /\ ~overrun => Cardinality(Holders) <= Stolen

\* Counting one holder more or less.
LEMMA HoldersCount ==
    /\ IsFiniteSet(Holders) /\ Cardinality(Holders) \in Nat
    /\ Cardinality(Holders) = 0 <=> Holders = {}
    /\ \A r \in Reqs \ Holders : Cardinality(Holders \cup {r}) = Cardinality(Holders) + 1
    /\ \A r \in Holders : Cardinality(Holders \ {r}) = Cardinality(Holders) - 1
<1>1. IsFiniteSet(Holders)
  BY ConnAssumption, FS_Subset DEF ConnAssumption, Holders
<1>2. Cardinality(Holders) \in Nat
  BY <1>1, FS_CardinalityType
<1>3. Cardinality(Holders) = 0 <=> Holders = {}
  BY <1>1, FS_EmptySet
<1>4. \A r \in Reqs \ Holders : Cardinality(Holders \cup {r}) = Cardinality(Holders) + 1
  BY <1>1, FS_AddElement
<1>5. \A r \in Holders : Cardinality(Holders \ {r}) = Cardinality(Holders) - 1
  BY <1>1, FS_RemoveElement
<1> QED
  BY <1>1, <1>2, <1>3, <1>4, <1>5

\* Once barred, always barred.
LEMMA BarredStays ==
    ASSUME TypeOK, Barred, [Next]_vars
    PROVE  Barred'
<1> USE DEF TypeOK, CallType, ReadType, Barred
<1>1. ASSUME NEW r \in Reqs, ReqStep(r) PROVE Barred'
  BY <1>1 DEF ReqStep, Acquire, Abandon, SendCheck, SendLock, SendWrite, SendWritten, Release,
         Deliver, Expire, RstCheck, RstLock, RstWritten, PopExpired, OnlyPc, Pop, CallFrame,
         callVars, readVars, closeVars
<1>2. ASSUME NEW r \in Reqs, PeerFrame(r) PROVE Barred'
  BY <1>2 DEF PeerFrame, RecvHeaders, HeadersFrame, RecvData, RecvRst, ReaderFrame, closeVars,
         callVars, readVars
<1>3. ASSUME ReaderAny PROVE Barred'
  <2>1. CASE RecvGoaway
    BY <2>1 DEF RecvGoaway, ReaderFrame, closeVars, callVars
  <2>2. CASE ~RecvGoaway
    BY <1>3, <2>2 DEF ReaderAny, ReaderFrame, HeadersFrame, RecvContinuation, RecvAcked, RecvEof,
         ReaderStep, RecvStop, ReaderGoto, GoawayFail, ReaderLock, ReaderWritten, PostData,
         CapFail, FailAll, ReaderDrain, ReaderFree, closeVars, callVars, readVars
  <2> QED
    BY <2>1, <2>2
<1>4. ASSUME NEW c \in Closers, CloserStep(c) PROVE Barred'
  BY <1>4 DEF CloserStep, CloseBegin, CloseStop, CloseCheck, CloseJoin, CloseFailAll,
         CloseDrain, CloseFree, CloseFrame, callVars, readVars
<1>5. CASE UNCHANGED vars
  BY <1>5 DEF vars, callVars, readVars, closeVars
<1> QED
  BY <1>1, <1>2, <1>3, <1>4, <1>5 DEF Next, PeerStep, PeerFrame, ReaderAny, Terminated

\* What acquire() leaves behind when it refuses: a connector refused for good finds nobody
\* holding a reference; any other refused call holds nothing.
LEMMA RefAcquire ==
    ASSUME TypeOK, RefInv, NEW r \in Reqs, Acquire(r)
    PROVE  RefInv'
<1> USE ConnAssumption DEF ConnAssumption, TypeOK, CallType, Acquire, Goto, CallFrame,
        readVars, closeVars, tpVars
<1>1. ~held[r] /\ pc[r] = "idle"
  BY DEF InSend, RefInv
<1>2. CASE CanAcquire
  <2>1. Holders' = Holders \cup {r} /\ r \in Reqs \ Holders
    BY <1>1, <1>2 DEF Holders
  <2>2. refs' = refs + 1 /\ starved' = starved
    BY <1>2
  <2>3. Cardinality(Holders') = Cardinality(Holders) + 1 /\ Cardinality(Holders) \in Nat
    BY <2>1, HoldersCount
  <2>4. RefsExact'
    BY <2>2, <2>3 DEF RefsExact, Stolen, RefInv
  <2>5. ~Barred /\ ~closed /\ closed' = closed /\ rpc' = rpc
    BY <1>2 DEF CanAcquire, Barred
  <2>6. \A q \in Reqs : held'[q] => pc'[q] \in InSend \cup {"cancelled"}
    BY <1>2 DEF InSend, RefInv
  <2>7. ASSUME NEW q \in Reqs, pc'[q] \in InSend, ~held'[q]
        PROVE  q = Connector /\ refs' = Cardinality(Holders') /\ starved'
    <3>1. q # r /\ pc[q] \in InSend /\ ~held[q]
      BY <1>2, <2>7
    <3>2. q = Connector /\ refs = Cardinality(Holders) /\ starved
      BY <2>5, <3>1 DEF RefInv
    <3> QED
      BY <2>2, <2>3, <3>2
  <2>8. pc'[Connector] # "idle"
    BY <1>2
  <2> QED
    BY <2>4, <2>5, <2>6, <2>7, <2>8 DEF RefInv
<1>3. CASE ~CanAcquire
  <2>1. UNCHANGED <<held, refs, Holders, closed, rpc, overrun, Barred>>
    BY <1>3 DEF Holders, Barred
  <2>2. (starved => starved') /\ (r # Connector => starved' = starved)
    BY <1>3
  <2>3. RefsExact' /\ (Cardinality(Holders) <= Stolen => Cardinality(Holders') <= Stolen')
    BY <2>1, <2>2, HoldersCount DEF RefsExact, RefInv, Stolen
  <2>4. pc' = [pc EXCEPT ![r] = IF r = Connector THEN "acquired" ELSE "refused"]
    BY <1>3
  <2>5. \A q \in Reqs : held'[q] => pc'[q] \in InSend \cup {"cancelled"}
    BY <1>1, <2>1, <2>4 DEF RefInv
  <2>6. ASSUME NEW q \in Reqs, pc'[q] \in InSend, ~held'[q]
        PROVE  /\ q = Connector /\ refs' = Cardinality(Holders')
               /\ ~starved' => Barred' /\ Holders' = {}
    <3>1. CASE r = Connector
      <4>1. ~starved /\ \A p \in Reqs : pc[p] = "idle"
        BY <1>1, <3>1 DEF RefInv
      <4>2. Holders = {}
        BY <4>1 DEF Holders, RefInv, InSend
      <4>3. Cardinality(Holders) = 0 /\ refs = 0
        BY <4>1, <4>2, HoldersCount DEF RefsExact, RefInv, Stolen
      <4>4. q = r
        BY <2>4, <2>6, <4>1 DEF InSend
      <4>5. ~starved' => Barred
        BY <1>3, <3>1
      <4> QED
        BY <2>1, <3>1, <4>2, <4>3, <4>4, <4>5
    <3>2. CASE r # Connector
      <4>1. q # r /\ pc[q] \in InSend /\ ~held[q]
        BY <2>1, <2>4, <2>6, <3>2 DEF InSend
      <4> QED
        BY <2>1, <2>2, <3>2, <4>1 DEF RefInv
    <3> QED
      BY <3>1, <3>2
  <2>7. pc'[Connector] # "idle"
    BY <2>4
  <2> QED
    BY <2>1, <2>3, <2>5, <2>6, <2>7 DEF RefInv
<1> QED
  BY <1>2, <1>3

\* release() takes away the caller's own reference, or nothing, or, called by a connector
\* that was refused for a limit of 0 streams, one other call's: once, because the connector
\* has left _send then.
LEMMA RefRelease ==
    ASSUME TypeOK, RefInv, NEW r \in Reqs, Release(r)
    PROVE  RefInv'
<1> USE DEF TypeOK, CallType, Release, Goto, CallFrame, readVars, closeVars, tpVars
<1>1. Holders' = Holders \ {r} /\ starved' = starved /\ refs \in Nat
  BY DEF Holders
<1>2. refs' = IF refs > 0 THEN refs - 1 ELSE refs
  OBVIOUS
<1> DEFINE n == Cardinality(Holders)
           m == Cardinality(Holders')
<1>3. n \in Nat /\ n - Stolen <= refs /\ refs <= n /\ Stolen \in {0, 1} /\ Stolen' = Stolen
  BY <1>1, HoldersCount DEF RefsExact, RefInv, Stolen
<1>4. ASSUME held[r] PROVE m - Stolen' <= refs' /\ refs' <= m /\ m <= n /\ (refs = n => refs' = m)
  <2>1. r \in Holders
    BY <1>4 DEF Holders
  <2>2. m = n - 1 /\ n # 0
    BY <1>1, <2>1, HoldersCount
  <2> HIDE DEF n, m
  <2>3. m - Stolen' <= refs' /\ refs' <= m /\ m <= n /\ (refs = n => refs' = m)
    BY <1>1, <1>2, <1>3, <2>2
  <2> QED
    BY <2>3
<1>5. ASSUME ~held[r] PROVE r = Connector /\ m - Stolen' <= refs' /\ refs' <= m /\ m <= n
  <2>1. r = Connector /\ refs = n /\ (~starved => Holders = {})
    BY <1>5 DEF InSend, RefInv
  <2>2. Holders' = Holders /\ m = n
    BY <1>1, <1>5 DEF Holders
  <2>3. ~starved => n = 0
    BY <2>1, HoldersCount
  <2>4. starved => Stolen = 1
    BY DEF Stolen
  <2> HIDE DEF n, m
  <2>5. m - Stolen' <= refs' /\ refs' <= m /\ m <= n
    BY <1>1, <1>2, <1>3, <2>1, <2>2, <2>3, <2>4
  <2> QED
    BY <2>1, <2>5
<1>6. RefsExact' /\ m <= n /\ (held[r] \/ r = Connector) /\ (held[r] /\ refs = n => refs' = m)
  <2>1. m - Stolen' <= refs' /\ refs' <= m
    BY <1>4, <1>5
  <2>2. m <= n /\ (held[r] \/ r = Connector) /\ (held[r] /\ refs = n => refs' = m)
    <3> HIDE DEF n, m
    <3> QED  BY <1>4, <1>5
  <2> QED
    BY <2>1, <2>2 DEF RefsExact
<1>7. \A q \in Reqs : q # r => pc'[q] = pc[q] /\ held'[q] = held[q]
  OBVIOUS
<1>8. pc'[r] \in {"waiting", "failed"} /\ ~held'[r] /\ pc[r] # "idle"
  OBVIOUS
<1>9. \A q \in Reqs : held'[q] => pc'[q] \in InSend \cup {"cancelled"}
  BY <1>7, <1>8 DEF RefInv
<1>10. ASSUME NEW q \in Reqs, pc'[q] \in InSend, ~held'[q]
       PROVE  /\ q = Connector /\ refs' = Cardinality(Holders')
              /\ ~starved' => Barred' /\ Holders' = {}
  <2>1. q # r /\ pc[q] \in InSend /\ ~held[q]
    BY <1>7, <1>8, <1>10 DEF InSend
  <2>2. q = Connector /\ refs = n /\ (~starved => Barred /\ Holders = {})
    BY <2>1 DEF RefInv
  <2>3. held[r]
    BY <1>6, <2>1, <2>2
  <2>4. Barred' = Barred
    BY DEF Barred
  <2> QED
    BY <1>1, <1>6, <2>2, <2>3, <2>4
<1>11. pc'[Connector] # "idle"
  <2>1. CASE r = Connector
    BY <1>8, <2>1
  <2>2. CASE r # Connector
    BY <1>7, <1>8, <2>2, ConnAssumption DEF ConnAssumption, RefInv
  <2> QED
    BY <2>1, <2>2
<1>12. n <= Stolen => m <= Stolen'
  <2>1. m \in Nat
    BY <1>1, HoldersCount, FS_Subset, FS_CardinalityType
  <2> HIDE DEF n, m
  <2> QED
    BY <1>3, <1>6, <2>1
<1>13. UNCHANGED <<rpc, closed, overrun>>
  OBVIOUS
<1> QED
  BY <1>6, <1>9, <1>10, <1>11, <1>12, <1>13 DEF RefInv

\* Any other step of a call leaves the references alone and stays inside, or outside,
\* _send.
LEMMA RefCall ==
    ASSUME TypeOK, RefInv, NEW r \in Reqs, ReqStep(r), ~Acquire(r), ~Release(r), Barred => Barred'
    PROVE  RefInv'
<1> USE DEF TypeOK, CallType, RefInv
<1>1. UNCHANGED <<held, starved, refs>> /\ CallFrame
  BY DEF ReqStep, Abandon, SendCheck, SendLock, SendWrite, SendWritten, Deliver, Expire,
         RstCheck, RstLock, RstWritten, PopExpired, OnlyPc, Pop, callVars
<1>2. Holders' = Holders /\ Stolen' = Stolen /\ RefsExact'
  BY <1>1 DEF Holders, Stolen, RefsExact
<1>3. PICK l \in Labels : pc' = [pc EXCEPT ![r] = l]
  BY DEF ReqStep, Abandon, SendCheck, SendLock, SendWrite, SendWritten, Deliver, Expire,
         RstCheck, RstLock, RstWritten, PopExpired, Goto, Labels, InSend, InLoop, Terminal
<1>4. /\ pc[r] # "idle" /\ pc'[r] # "idle"
      /\ held[r] => pc'[r] \in InSend \cup {"cancelled"}
      /\ pc'[r] \in InSend => pc[r] \in InSend
  BY DEF ReqStep, Abandon, SendCheck, SendLock, SendWrite, SendWritten, Deliver, Expire,
         RstCheck, RstLock, RstWritten, PopExpired, Goto, InSend
<1>5. \A q \in Reqs : q # r => pc'[q] = pc[q]
  BY <1>3
<1>6. \A q \in Reqs : held'[q] => pc'[q] \in InSend \cup {"cancelled"}
  BY <1>1, <1>4, <1>5
<1>7. \A q \in Reqs : pc'[q] \in InSend /\ ~held'[q] =>
        q = Connector /\ refs' = Cardinality(Holders') /\ (~starved' => Barred' /\ Holders' = {})
  BY <1>1, <1>2, <1>4, <1>5
<1>8. pc'[Connector] # "idle"
  BY <1>4, <1>5, ConnAssumption DEF ConnAssumption
<1>9. UNCHANGED <<rpc, closed, overrun>>
  BY <1>1 DEF CallFrame, tpVars
<1> QED
  BY <1>2, <1>6, <1>7, <1>8, <1>9

\* The reader frees only after it saw no reference, or gave up waiting.
LEMMA RefReader ==
    ASSUME TypeOK, RefInv, (\E r \in Reqs : PeerFrame(r)) \/ ReaderAny, Barred => Barred'
    PROVE  RefInv'
<1> USE DEF TypeOK, RefInv
<1>1. ReaderFrame
  BY DEF PeerFrame, ReaderAny, RecvHeaders, RecvData, RecvRst, RecvContinuation, RecvAcked,
         RecvGoaway, RecvEof, ReaderStep, RecvStop, ReaderGoto, GoawayFail, ReaderLock,
         ReaderWritten, PostData, CapFail, FailAll, ReaderDrain, ReaderFree
<1>2. UNCHANGED <<pc, held, starved, refs, Holders, Stolen>> /\ RefsExact'
  BY <1>1 DEF ReaderFrame, callVars, Holders, Stolen, RefsExact
<1>4. /\ rpc' \in {"drain", "free", "dead"} => closed'
      /\ rpc' \in {"free", "dead"} /\ ~overrun' => Cardinality(Holders) <= Stolen
  <2>1. CASE ReaderDrain
    <3>1. rpc = "drain" /\ closed' = closed /\ closed
      BY <2>1 DEF ReaderDrain
    <3>2. ~overrun' => ~(refs > 0)
      BY <2>1 DEF ReaderDrain, Drain
    <3>3. ~overrun' => Cardinality(Holders) <= Stolen
      BY <3>2, HoldersCount DEF RefsExact, Stolen, CallType
    <3> QED
      BY <3>1, <3>3
  <2>2. CASE ReaderFree \/ FailAll
    BY <2>2 DEF ReaderFree, FailAll, tpVars
  <2>3. CASE ~ReaderDrain /\ ~ReaderFree /\ ~FailAll
    <3>1. ASSUME NEW r \in Reqs, PeerFrame(r) PROVE rpc' \notin {"drain", "free", "dead"}
      BY <3>1 DEF PeerFrame, RecvHeaders, RecvData, RecvRst, CanRecv, FinishHeaders
    <3>2. CASE RecvContinuation \/ RecvAcked \/ RecvGoaway \/ RecvEof \/ RecvStop
      BY <3>2 DEF RecvContinuation, FinishHeaders, RecvAcked, RecvGoaway, RecvEof, RecvStop, ReaderGoto
    <3>3. CASE GoawayFail \/ ReaderLock \/ PostData \/ CapFail
      BY <3>3 DEF GoawayFail, ReaderLock, PostData, CapFail
    <3>4. CASE ReaderWritten
      BY <3>4 DEF ReaderWritten, ReadType, Jobs
    <3> QED
      BY <2>3, <3>1, <3>2, <3>3, <3>4 DEF ReaderAny, ReaderStep
  <2> QED
    BY <2>1, <2>2, <2>3
<1> QED
  BY <1>2, <1>4

\* close() never reopens the connection and touches no reference.
LEMMA RefCloser ==
    ASSUME TypeOK, RefInv, NEW c \in Closers, CloserStep(c), Barred => Barred'
    PROVE  RefInv'
<1> USE DEF TypeOK, RefInv
<1>1. CloseFrame
  BY DEF CloserStep, CloseBegin, CloseStop, CloseCheck, CloseJoin, CloseFailAll, CloseDrain, CloseFree
<1>2. UNCHANGED <<pc, rpc, held, starved, refs, Holders, Stolen>> /\ RefsExact'
  BY <1>1 DEF CloseFrame, callVars, Holders, Stolen, RefsExact
<1>3. (closed => closed') /\ (overrun => overrun')
  <2>1. CASE CloseDrain(c)
    BY <2>1 DEF CloseDrain, Drain
  <2>2. CASE ~CloseDrain(c)
    BY <2>2 DEF CloserStep, CloseBegin, CloseStop, CloseCheck, CloseJoin, CloseFailAll, CloseFree,
                tpVars
  <2> QED
    BY <2>1, <2>2
<1> QED
  BY <1>2, <1>3

\* Every step of the connection keeps the references accounted for.
LEMMA RefStep ==
    ASSUME TypeOK, RefInv, [Next]_vars
    PROVE  RefInv'
<1>1. Barred => Barred'
  BY BarredStays
<1>2. CASE UNCHANGED vars
  BY <1>2 DEF vars, callVars, readVars, closeVars, tpVars, RefInv, RefsExact, Holders, Stolen, Barred
<1>3. ASSUME NEW r \in Reqs, ReqStep(r) PROVE RefInv'
  BY <1>1, <1>3, RefAcquire, RefRelease, RefCall
<1>4. ASSUME (\E r \in Reqs : PeerFrame(r)) \/ ReaderAny PROVE RefInv'
  BY <1>1, <1>4, RefReader
<1>5. ASSUME NEW c \in Closers, CloserStep(c) PROVE RefInv'
  BY <1>1, <1>5, RefCloser
<1> QED
  BY <1>2, <1>3, <1>4, <1>5 DEF Next, PeerStep, PeerFrame, ReaderAny, Terminated

\* RefInv holds of every behaviour, whatever the peer announces.
LEMMA RefAlways == Spec => []RefInv
<1>1. Init => RefInv
  <2> SUFFICES ASSUME Init PROVE RefInv
    OBVIOUS
  <2>1. Holders = {}
    BY DEF Init, Holders
  <2>2. RefsExact
    BY <2>1, HoldersCount DEF Init, RefsExact, Stolen
  <2> QED
    BY <2>1, <2>2, ConnAssumption DEF Init, RefInv, ConnAssumption, InSend
<1>2. TypeOK /\ RefInv /\ [Next]_vars => RefInv'
  BY RefStep
<1> QED
  BY <1>1, <1>2, TypeCorrect, PTL DEF Spec

\* The transport is not freed under a call that holds a reference unless a teardown gave up
\* its bounded wait, or under one such call if a limit of 0 streams made acquire() refuse the
\* connector, whose release() then took that call's reference.
THEOREM RefsGuardFree == Spec => []FreeGuarded
<1>1. TeardownInv /\ RefInv => FreeGuarded
  BY DEF TeardownInv, RefInv, FreeGuarded
<1>2. Init => TeardownInv
  BY DEF Init, TeardownInv
<1>3. TypeOK /\ TeardownInv /\ [Next]_vars => TeardownInv'
  BY TeardownStep
<1> QED
  BY <1>1, <1>2, <1>3, RefAlways, TypeCorrect, PTL DEF Spec

\* _refs is exact although the connector may call release() without a reference and a
\* cancelled task never calls it; it is never more than one short, and only after a limit of 0
\* streams made acquire() refuse the connector.
THEOREM RefsCounted == Spec => []RefsExact
<1>1. RefInv => RefsExact
  BY DEF RefInv
<1> QED
  BY <1>1, RefAlways, PTL
=============================================================================
