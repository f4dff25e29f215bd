----------------------------- MODULE PoolProofs -----------------------------
(***************************************************************************)
(* Proofs about Pool for every set of calls, closers, keys, connections.   *)
(***************************************************************************)
EXTENDS Pool, FiniteSetTheorems, TLAPS

\* A step of a call keeps the types.
LEMMA CallType ==
    ASSUME TypeOK, NEW t \in Calls, CallStep(t)
    PROVE  TypeOK'
<1> USE PoolAssumption DEF PoolAssumption, TypeOK, CallPcs, InFlight, Final, Goto, poolVars, connVars
<1>1. CASE WarmLookup(t)
  BY <1>1 DEF WarmLookup, Evict, Reuse, LeastLoaded
<1>2. CASE Reap(t)
  BY <1>2 DEF Reap
<1>3. CASE CloseOne(t)
  BY <1>3 DEF CloseOne
<1>4. CASE Reaped(t) \/ WaitTimeout(t)
  BY <1>4 DEF Reaped, WaitTimeout
<1>5. CASE Lookup(t)
  BY <1>5 DEF Lookup, Evict, Reuse, LeastLoaded
<1>6. CASE Connect(t)
  BY <1>6 DEF Connect
<1>7. CASE Finally(t)
  BY <1>7 DEF Finally
<1>8. CASE Send(t)
  BY <1>8 DEF Send
<1>9. CASE Return(t)
  BY <1>9 DEF Return
<1>10. CASE Open(t)
  BY <1>10 DEF Open
<1> QED
  BY <1>1, <1>2, <1>3, <1>4, <1>5, <1>6, <1>7, <1>8, <1>9, <1>10 DEF CallStep, OwnStep

\* Every step keeps the types.
LEMMA TypeStep ==
    ASSUME TypeOK, [Next]_vars
    PROVE  TypeOK'
<1>1. ASSUME NEW s \in Closers, CloserStep(s) PROVE TypeOK'
  BY <1>1 DEF CloserStep, CloseReap, CloseOne, CloseClear, CloseEnd, TypeOK, CloserPcs, Goto,
              poolVars, connVars
<1>2. ASSUME NEW c \in Conns, ConnStep(c) PROVE TypeOK'
  BY <1>2 DEF ConnStep, Goaway, PeerCloses, ReaderStops, ReaderEnds, TypeOK, CallPcs, Final, poolVars
<1>3. CASE UNCHANGED vars
  BY <1>3 DEF vars, TypeOK
<1> QED
  BY <1>1, <1>2, <1>3, CallType DEF Next, Terminated

\* Every reachable state of the pool is well typed.
THEOREM TypeCorrect == Spec => []TypeOK
<1>1. Init => TypeOK
  BY PoolAssumption DEF PoolAssumption, Init, TypeOK, CallPcs
<1>2. TypeOK /\ [Next]_vars => TypeOK'
  BY TypeStep
<1> QED
  BY <1>1, <1>2, PTL DEF Spec

-----------------------------------------------------------------------------
(***************************************************************************)
(* Single flight.                                                          *)
(***************************************************************************)

\* The streams of a connection belong to calls that wait for a response on it.
StreamInv == \A c \in Conns : \A u \in active[c] : pc[u] = "inflight" /\ conn[u] = c

\* Only Open adds a stream and only its own call's return, or the reader's end, ends one.
LEMMA StreamStep ==
    ASSUME TypeOK, StreamInv, [Next]_vars
    PROVE  StreamInv'
<1> USE PoolAssumption DEF PoolAssumption, TypeOK, StreamInv
<1>1. ASSUME NEW t \in Calls, CallStep(t) PROVE StreamInv'
  <2> USE DEF Goto, poolVars, connVars
  <2>1. CASE Send(t) \/ Open(t)
    BY <2>1 DEF Send, Open
  <2>2. CASE Return(t)
    BY <2>2 DEF Return
  <2>3. CASE Finally(t)
    BY <2>3 DEF Finally
  <2>4. CASE Connect(t)
    BY <2>4 DEF Connect
  <2>5. CASE WarmLookup(t) \/ Lookup(t)
    BY <2>5 DEF WarmLookup, Lookup, Reuse
  <2>6. CASE Reap(t) \/ CloseOne(t) \/ Reaped(t) \/ WaitTimeout(t)
    BY <2>6 DEF Reap, CloseOne, Reaped, WaitTimeout
  <2> QED
    BY <1>1, <2>1, <2>2, <2>3, <2>4, <2>5, <2>6 DEF CallStep, OwnStep
<1>2. ASSUME NEW s \in Closers, CloserStep(s) PROVE StreamInv'
  BY <1>2 DEF CloserStep, CloseReap, CloseOne, CloseClear, CloseEnd, Goto, connVars
<1>3. ASSUME NEW c \in Conns, ConnStep(c) PROVE StreamInv'
  BY <1>3 DEF ConnStep, Goaway, PeerCloses, ReaderStops, ReaderEnds
<1>4. CASE UNCHANGED vars
  BY <1>4 DEF vars
<1> QED
  BY <1>1, <1>2, <1>3, <1>4 DEF Next, Terminated

\* A call enters the try block of _get_conn only through Lookup, with its key not in
\* _creating, and leaves it only through Finally, which takes the key out.
LEMMA FlightStep ==
    ASSUME TypeOK, StreamInv, SingleFlight, [Next]_vars
    PROVE  SingleFlight'
<1> USE PoolAssumption DEF PoolAssumption, TypeOK
<1> DEFINE Inside == {u \in Calls : pc[u] \in InFlight}
<1>1. ASSUME UNCHANGED creating, \A u \in Calls : pc'[u] \in InFlight <=> pc[u] \in InFlight
      PROVE  SingleFlight'
  <2>1. Inside' = Inside
    BY <1>1
  <2> QED
    BY <1>1, <2>1 DEF SingleFlight
<1>2. ASSUME NEW t \in Calls, Lookup(t), creating' # creating PROVE SingleFlight'
  <2>1. /\ KeyOf[t] \notin creating /\ creating' = creating \cup {KeyOf[t]}
        /\ pc' = [pc EXCEPT ![t] = "connecting"] /\ pc[t] = "lookup"
    BY <1>2 DEF Lookup, Goto
  <2>2. Inside' = Inside \cup {t}
    BY <2>1 DEF InFlight
  <2>3. \A u \in Inside : KeyOf[u] # KeyOf[t]
    BY <2>1 DEF SingleFlight
  <2>4. creating' = {KeyOf[u] : u \in Inside'}
    BY <2>1, <2>2 DEF SingleFlight
  <2> QED
    BY <2>2, <2>3, <2>4 DEF SingleFlight
<1>3. ASSUME NEW t \in Calls, Finally(t) PROVE SingleFlight'
  <2>1. t \in Inside /\ creating' = creating \ {KeyOf[t]}
    BY <1>3 DEF Finally, InFlight
  <2>2. Inside' = Inside \ {t}
    BY <1>3 DEF Finally, InFlight
  <2>3. \A u \in Inside \ {t} : KeyOf[u] # KeyOf[t]
    BY <2>1 DEF SingleFlight
  <2>4. creating' = {KeyOf[u] : u \in Inside'}
    BY <2>1, <2>2, <2>3 DEF SingleFlight
  <2> QED
    BY <2>2, <2>4 DEF SingleFlight
<1>4. ASSUME NEW t \in Calls, CallStep(t), ~Finally(t), ~(Lookup(t) /\ creating' # creating)
      PROVE  SingleFlight'
  <2>1. UNCHANGED creating /\ \A u \in Calls : pc'[u] \in InFlight <=> pc[u] \in InFlight
    BY <1>4 DEF CallStep, OwnStep, WarmLookup, Reap, CloseOne, Reaped, Lookup, WaitTimeout, Connect, Send,
                Open, Return, Reuse, Evict, Goto, InFlight, poolVars
  <2> QED
    BY <1>1, <2>1
<1>5. ASSUME NEW s \in Closers, CloserStep(s) PROVE SingleFlight'
  <2>1. UNCHANGED creating /\ \A u \in Calls : pc'[u] = pc[u]
    BY <1>5 DEF CloserStep, CloseReap, CloseOne, CloseClear, CloseEnd, Goto, poolVars
  <2> QED
    BY <1>1, <2>1
<1>6. ASSUME NEW c \in Conns, ConnStep(c) PROVE SingleFlight'
  <2>1. UNCHANGED creating /\ \A u \in Calls : pc'[u] \in InFlight <=> pc[u] \in InFlight
    BY <1>6 DEF ConnStep, Goaway, PeerCloses, ReaderStops, ReaderEnds, InFlight, poolVars,
                StreamInv
  <2> QED
    BY <1>1, <2>1
<1>7. CASE UNCHANGED vars
  BY <1>1, <1>7 DEF vars
<1> QED
  BY <1>2, <1>3, <1>4, <1>5, <1>6, <1>7 DEF Next, Terminated

\* At most one call connects per key at any time, and _creating is exactly the set of
\* keys being connected: whichever way a connect ends, the turn is free again.
THEOREM OneConnectorPerKey == Spec => []SingleFlight
<1>1. Init => StreamInv /\ SingleFlight
  <2> SUFFICES ASSUME Init PROVE StreamInv /\ SingleFlight
    OBVIOUS
  <2>1. {u \in Calls : pc[u] \in InFlight} = {}
    BY DEF Init, InFlight
  <2> QED
    BY <2>1 DEF Init, StreamInv, SingleFlight
<1>2. TypeOK /\ StreamInv /\ SingleFlight /\ [Next]_vars => StreamInv' /\ SingleFlight'
  BY StreamStep, FlightStep
<1> QED
  BY <1>1, <1>2, TypeCorrect, PTL DEF Spec

-----------------------------------------------------------------------------
(***************************************************************************)
(* Where the connections are.                                              *)
(***************************************************************************)
Threads == Calls \cup Closers

\* A connection that was never opened is nowhere.
FreshInv ==
    \A c \in Conns : cst[c] = "none" =>
        /\ c \notin draining
        /\ \A k \in Keys : c \notin pool[k]
        /\ \A t \in Threads : c \notin mine[t]

\* A thread that has not taken a list over has none.
EmptyHands == \A t \in Threads : pc[t] \in {"idle", "cold"} => mine[t] = {}

PlaceInv == OnePlace /\ NoneLost /\ FreshInv

\* Membership in Held without its unions.
Somewhere(c) ==
    c \in draining \/ (\E k \in Keys : c \in pool[k]) \/ (\E t \in Threads : c \in mine[t])

\* Held is what Somewhere describes.
LEMMA HeldMember == \A c : c \in Held <=> Somewhere(c)
<1> SUFFICES ASSUME NEW c PROVE c \in Held <=> Somewhere(c)
  OBVIOUS
<1>1. c \in UNION {pool[k] : k \in Keys} <=> \E k \in Keys : c \in pool[k]
  BY Zenon
<1>2. c \in UNION {mine[t] : t \in Threads} <=> \E t \in Threads : c \in mine[t]
  BY Zenon
<1> QED
  BY <1>1, <1>2, Zenon DEF Held, Threads, Somewhere

\* The same in the next state.
LEMMA HeldMemberNext == \A c : c \in Held' <=> Somewhere(c)'
<1> SUFFICES ASSUME NEW c PROVE c \in Held' <=> Somewhere(c)'
  OBVIOUS
<1>1. c \in UNION {pool'[k] : k \in Keys} <=> \E k \in Keys : c \in pool'[k]
  BY Zenon
<1>2. c \in UNION {mine'[t] : t \in Threads} <=> \E t \in Threads : c \in mine'[t]
  BY Zenon
<1> QED
  BY <1>1, <1>2, Zenon DEF Held, Threads, Somewhere

\* NoneLost', membership spelled out.
LEMMA NoneLostNext ==
    ASSUME NoneLost, \A c \in Conns : cst'[c] \in {"live", "goaway"} =>
                         cst[c] \in {"live", "goaway"} /\ (Somewhere(c) => Somewhere(c)')
    PROVE  NoneLost'
  BY HeldMember, HeldMemberNext DEF NoneLost

\* _evict_closed moves closed connections from the pool to _draining; with it the warm
\* path forgets drained connections that are already dead.
LEMMA PlaceEvict ==
    ASSUME TypeOK, PlaceInv, NEW t \in Calls, WarmLookup(t) \/ Lookup(t)
    PROVE  PlaceInv'
<1>1. PICK k \in Keys, D \in SUBSET draining :
          /\ \A c \in draining : cst[c] # "dead" => c \in D
          /\ Evict(k, D) /\ UNCHANGED <<mine, cst>>
  BY PoolAssumption DEF PoolAssumption, TypeOK, WarmLookup, Lookup, connVars
<1>2. pool' = [pool EXCEPT ![k] = {c \in pool[k] : ~Closed(c)}]
  BY <1>1 DEF Evict, TypeOK
<1>3. draining' = D \cup {c \in pool[k] : Closed(c)}
  BY <1>1 DEF Evict
<1>4. OnePlace'
  BY <1>1, <1>2, <1>3 DEF PlaceInv, OnePlace, TypeOK
<1>5. FreshInv'
  BY <1>1, <1>2, <1>3 DEF PlaceInv, FreshInv, TypeOK, Threads
<1>6. ASSUME NEW c \in Conns, cst[c] \in {"live", "goaway"}, Somewhere(c) PROVE Somewhere(c)'
  <2>1. CASE c \in draining
    BY <1>1, <1>3, <1>6, <2>1 DEF Somewhere
  <2>2. ASSUME NEW j \in Keys, c \in pool[j] PROVE Somewhere(c)'
    <3>1. c \in pool'[j] \/ c \in draining'
      BY <1>2, <1>3, <2>2 DEF TypeOK
    <3> QED
      BY <3>1 DEF Somewhere
  <2>3. ASSUME NEW u \in Threads, c \in mine[u] PROVE Somewhere(c)'
    BY <1>1, <2>3 DEF Somewhere
  <2> QED
    BY <1>6, <2>1, <2>2, <2>3 DEF Somewhere
<1> QED
  BY <1>1, <1>4, <1>5, <1>6, NoneLostNext DEF PlaceInv

\* Taking _draining over: _reap and the first half of Session.close.
LEMMA PlaceReap ==
    ASSUME TypeOK, PlaceInv, NEW t \in Threads, mine[t] = {},
           mine' = [mine EXCEPT ![t] = draining], draining' = {}, UNCHANGED <<pool, cst>>
    PROVE  PlaceInv'
<1>1. OnePlace'
  BY DEF PlaceInv, OnePlace, TypeOK, Threads
<1>2. FreshInv'
  BY DEF PlaceInv, FreshInv, TypeOK, Threads
<1>3. ASSUME NEW c \in Conns, Somewhere(c) PROVE Somewhere(c)'
  <2>1. CASE c \in draining
    <3>1. c \in mine'[t]
      BY <2>1 DEF TypeOK, Threads
    <3> QED
      BY <3>1 DEF Somewhere
  <2>2. ASSUME NEW u \in Threads, c \in mine[u] PROVE Somewhere(c)'
    <3>1. c \in mine'[u]
      BY <2>2 DEF TypeOK, Threads
    <3> QED
      BY <3>1 DEF Somewhere
  <2> QED
    BY <1>3, <2>1, <2>2 DEF Somewhere
<1> QED
  BY <1>1, <1>2, <1>3, NoneLostNext DEF PlaceInv

\* Taking the whole pool over: the second half of Session.close.
LEMMA PlaceClear ==
    ASSUME TypeOK, PlaceInv, NEW s \in Closers, CloseClear(s)
    PROVE  PlaceInv'
<1>1. /\ pool' = [k \in Keys |-> {}] /\ mine[s] = {} /\ UNCHANGED <<draining, cst>>
      /\ mine' = [mine EXCEPT ![s] = UNION {pool[k] : k \in Keys}]
  BY DEF CloseClear, connVars
<1>2. \A c : c \in mine'[s] <=> \E k \in Keys : c \in pool[k]
  BY <1>1 DEF TypeOK
<1>3. \A u \in Threads : u # s => mine'[u] = mine[u]
  BY <1>1 DEF TypeOK, Threads
<1>4. OnePlace'
  BY <1>1, <1>2, <1>3 DEF PlaceInv, OnePlace, Threads
<1>5. FreshInv'
  BY <1>1, <1>2, <1>3 DEF PlaceInv, FreshInv, Threads
<1>6. ASSUME NEW c \in Conns, Somewhere(c) PROVE Somewhere(c)'
  <2>1. s \in Threads
    BY DEF Threads
  <2> QED
    BY <1>1, <1>2, <1>3, <1>6, <2>1 DEF Somewhere
<1> QED
  BY <1>1, <1>4, <1>5, <1>6, NoneLostNext DEF PlaceInv

\* close() of one connection: it was in no pool, and from now on nobody owes it anything.
LEMMA PlaceCloseOne ==
    ASSUME TypeOK, PlaceInv, NEW t \in Threads, CloseOne(t)
    PROVE  PlaceInv'
<1>1. PICK d \in mine[t] :
          /\ mine' = [mine EXCEPT ![t] = @ \ {d}]
          /\ cst' = [cst EXCEPT ![d] = IF @ = "dead" THEN @ ELSE "stopping"]
          /\ UNCHANGED <<pool, draining>>
  BY DEF CloseOne, poolVars
<1>2. d \in Conns /\ cst'[d] \in {"dead", "stopping"} /\ \A c \in Conns \ {d} : cst'[c] = cst[c]
  BY <1>1 DEF TypeOK, Threads
<1>3. \A u \in Threads : mine'[u] = mine[u] \ {d}
  BY <1>1 DEF PlaceInv, OnePlace, TypeOK, Threads
<1>4. \A k \in Keys : d \notin pool[k]
  BY DEF PlaceInv, OnePlace, Threads
<1>5. OnePlace'
  BY <1>1, <1>2, <1>3, <1>4 DEF PlaceInv, OnePlace, TypeOK, Threads
<1>6. FreshInv'
  BY <1>1, <1>2, <1>3 DEF PlaceInv, FreshInv
<1>7. ASSUME NEW c \in Conns, cst'[c] \in {"live", "goaway"}
      PROVE  cst[c] \in {"live", "goaway"} /\ (Somewhere(c) => Somewhere(c)')
  BY <1>1, <1>2, <1>3, <1>7 DEF Somewhere
<1> QED
  BY <1>5, <1>6, <1>7, NoneLostNext DEF PlaceInv

\* A new connection is published before anyone else can see it.
LEMMA PlaceConnect ==
    ASSUME TypeOK, PlaceInv, NEW t \in Calls, Connect(t)
    PROVE  PlaceInv'
<1> USE PoolAssumption DEF PoolAssumption
<1>1. CASE UNCHANGED <<pool, cst>>
  BY <1>1, NoneLostNext DEF Connect, PlaceInv, OnePlace, FreshInv, Somewhere
<1>2. ASSUME NEW d \in Conns, cst[d] = "none", cst' = [cst EXCEPT ![d] = "live"],
             pool' = [pool EXCEPT ![KeyOf[t]] = @ \cup {d}], UNCHANGED <<draining, mine>>
      PROVE  PlaceInv'
  <2>1. \A k \in Keys : \A c : c \in pool'[k] <=> c \in pool[k] \/ (k = KeyOf[t] /\ c = d)
    BY <1>2 DEF TypeOK
  <2>2. OnePlace'
    BY <1>2, <2>1 DEF PlaceInv, OnePlace, FreshInv, TypeOK, Threads
  <2>3. FreshInv'
    BY <1>2, <2>1 DEF PlaceInv, FreshInv, TypeOK
  <2>4. ASSUME NEW c \in Conns, cst'[c] \in {"live", "goaway"} PROVE Somewhere(c)'
    <3>1. CASE c = d
      BY <1>2, <2>1, <3>1 DEF Somewhere
    <3>2. CASE c # d
      <4>1. cst[c] \in {"live", "goaway"}
        BY <1>2, <2>4, <3>2 DEF TypeOK
      <4>2. Somewhere(c)
        BY <4>1, HeldMember DEF PlaceInv, NoneLost
      <4> QED
        BY <1>2, <2>1, <4>2 DEF Somewhere
    <3> QED
      BY <3>1, <3>2
  <2>5. NoneLost'
    BY <2>4, HeldMemberNext DEF NoneLost
  <2> QED
    BY <2>2, <2>3, <2>5 DEF PlaceInv
<1> QED
  BY <1>1, <1>2 DEF Connect

\* What a connection does by itself, and what a call does with the one it has.
LEMMA PlaceConn ==
    ASSUME TypeOK, PlaceInv, UNCHANGED <<pool, draining, mine>>,
           \A c \in Conns : \/ cst'[c] = cst[c]
                            \/ cst[c] = "live" /\ cst'[c] = "goaway"
                            \/ cst[c] # "none" /\ cst'[c] = "dead"
    PROVE  PlaceInv'
<1>1. OnePlace'
  BY DEF PlaceInv, OnePlace, TypeOK
<1>2. FreshInv'
  BY DEF PlaceInv, FreshInv
<1>3. NoneLost'
  BY NoneLostNext DEF PlaceInv, Somewhere
<1> QED
  BY <1>1, <1>2, <1>3 DEF PlaceInv

\* Every step keeps every connection in exactly one place.
LEMMA PlaceStep ==
    ASSUME TypeOK, EmptyHands, PlaceInv, [Next]_vars
    PROVE  PlaceInv' /\ EmptyHands'
<1> USE PoolAssumption DEF PoolAssumption
<1>1. ASSUME NEW t \in Calls, CallStep(t) PROVE PlaceInv'
  <2>1. CASE WarmLookup(t) \/ Lookup(t)
    BY <2>1, PlaceEvict
  <2>2. CASE Reap(t)
    BY <2>2, PlaceReap DEF Reap, EmptyHands, Threads, connVars
  <2>3. CASE CloseOne(t)
    BY <2>3, PlaceCloseOne DEF Threads
  <2>4. CASE Connect(t)
    BY <2>4, PlaceConnect
  <2>5. CASE Reaped(t) \/ WaitTimeout(t) \/ Finally(t) \/ Send(t) \/ Open(t) \/ Return(t)
    BY <2>5, PlaceConn DEF Reaped, WaitTimeout, Finally, Send, Open, Return, poolVars, connVars
  <2> QED
    BY <1>1, <2>1, <2>2, <2>3, <2>4, <2>5 DEF CallStep, OwnStep
<1>2. ASSUME NEW s \in Closers, CloserStep(s) PROVE PlaceInv'
  <2>1. CASE CloseReap(s)
    BY <2>1, PlaceReap DEF CloseReap, EmptyHands, Threads, connVars
  <2>2. CASE CloseOne(s)
    BY <2>2, PlaceCloseOne DEF Threads
  <2>3. CASE CloseClear(s)
    BY <2>3, PlaceClear
  <2>4. CASE CloseEnd(s)
    BY <2>4, PlaceConn DEF CloseEnd, poolVars, connVars
  <2> QED
    BY <1>2, <2>1, <2>2, <2>3, <2>4 DEF CloserStep
<1>3. ASSUME NEW c \in Conns, ConnStep(c) PROVE PlaceInv'
  BY <1>3, PlaceConn DEF ConnStep, Goaway, PeerCloses, ReaderStops, ReaderEnds, poolVars, TypeOK
<1>4. ASSUME UNCHANGED vars PROVE PlaceInv'
  <2>1. UNCHANGED <<pool, draining, mine>> /\ \A c \in Conns : cst'[c] = cst[c]
    BY <1>4 DEF vars
  <2> QED
    BY <2>1, PlaceConn
<1>5. PlaceInv'
  BY <1>1, <1>2, <1>3, <1>4 DEF Next, Terminated
<1>6. ASSUME NEW t \in Calls, CallStep(t) PROVE EmptyHands'
  <2> USE DEF EmptyHands, Threads, TypeOK, Goto, poolVars, connVars
  <2>1. CASE WarmLookup(t) \/ Lookup(t)
    BY <2>1 DEF WarmLookup, Lookup, Reuse
  <2>2. CASE Reap(t) \/ CloseOne(t)
    BY <2>2 DEF Reap, CloseOne
  <2>3. CASE Reaped(t) \/ WaitTimeout(t) \/ Send(t) \/ Open(t) \/ Return(t)
    BY <2>3 DEF Reaped, WaitTimeout, Send, Open, Return
  <2>4. CASE Connect(t) \/ Finally(t)
    BY <2>4 DEF Connect, Finally
  <2> QED
    BY <1>6, <2>1, <2>2, <2>3, <2>4 DEF CallStep, OwnStep
<1>7. ASSUME NEW s \in Closers, CloserStep(s) PROVE EmptyHands'
  BY <1>7 DEF CloserStep, CloseReap, CloseOne, CloseClear, CloseEnd, EmptyHands, Threads, TypeOK,
              Goto, poolVars, connVars
<1>8. ASSUME NEW c \in Conns, ConnStep(c) PROVE EmptyHands'
  <2>1. UNCHANGED mine /\ \A t \in Threads : pc'[t] \in {pc[t], "failed", "aborted"}
    BY <1>8 DEF ConnStep, Goaway, PeerCloses, ReaderStops, ReaderEnds, Threads
  <2> QED
    BY <2>1 DEF EmptyHands
<1>9. ASSUME UNCHANGED vars PROVE EmptyHands'
  BY <1>9 DEF vars, EmptyHands
<1>10. EmptyHands'
  BY <1>6, <1>7, <1>8, <1>9 DEF Next, Terminated
<1> QED
  BY <1>5, <1>10

\* Eviction, reaping, connecting and Session.close, interleaved in any way, keep every
\* connection in exactly one of the pool, _draining and the list of a thread that closes
\* it: none is leaked with its reader running, none is closed twice or handed out after.
THEOREM ConnectionsAccounted == Spec => []Accounted
<1>1. Init => EmptyHands /\ PlaceInv
  BY DEF Init, EmptyHands, PlaceInv, OnePlace, NoneLost, FreshInv, Threads
<1>2. TypeOK /\ EmptyHands /\ PlaceInv /\ [Next]_vars => EmptyHands' /\ PlaceInv'
  BY PlaceStep
<1>3. PlaceInv => Accounted
  BY DEF PlaceInv, Accounted
<1> QED
  BY <1>1, <1>2, <1>3, TypeCorrect, PTL DEF Spec
-----------------------------------------------------------------------------
(***************************************************************************)
(* The burst.  A call becomes the connector of its key only when every     *)
(* live connection of the key is full.  The streams of two connections     *)
(* belong to different calls, and a call is given a connection once, so    *)
(* the calls that were ever given one can be counted against the           *)
(* connections: MaxConc for each of them but one, the newest.              *)
(***************************************************************************)
Opened(k)  == {c \in pool[k] : cst[c] = "live"}
CallsOf(k) == {t \in Calls : KeyOf[t] = k}
Given(k)   == {t \in CallsOf(k) : conn[t] # NoConn}
GivenBut(k, c) == {t \in Given(k) : conn[t] # c}

\* A call that was given a connection asks for no other.
AskInv ==
    \A t \in Calls : conn[t] # NoConn => pc[t] \in {"published", "sending", "opening", "inflight"} \cup Final

\* A connection that was never opened was given to nobody.
NewInv == \A c \in Conns : cst[c] = "none" => \A t \in Calls : conn[t] # c

\* A pooled connection was given to a call, and only to calls of its key.
OwnInv ==
    \A k \in Keys : \A c \in pool[k] :
        (\E t \in Calls : conn[t] = c) /\ \A t \in Calls : conn[t] = c => KeyOf[t] = k

FiniteInv == \A k \in Keys : IsFiniteSet(pool[k])

\* While a call connects, there were MaxConc calls of its key for each live connection.
FullAt(k) == Cardinality(Opened(k)) * MaxConc <= Cardinality(Given(k))
FullInv == \A t \in Calls : pc[t] = "connecting" => FullAt(KeyOf[t])

\* At any time this is so without one connection and the calls it was given to.
ButOneAt(k) ==
    \E c \in Conns \cup {NoConn} :
        Cardinality(Opened(k) \ {c}) * MaxConc <= Cardinality(GivenBut(k, c))
ButOneInv == \A k \in Keys : ButOneAt(k)

OwnerInv == AskInv /\ NewInv /\ OwnInv /\ FiniteInv
BurstInv == OwnerInv /\ FullInv /\ ButOneInv

\* Multiplication by a natural number keeps the order.
LEMMA TimesOrder ==
    ASSUME NEW a \in Nat, NEW b \in Nat, NEW m \in Nat, a <= b
    PROVE  a * m <= b * m
<1>1. PICK d \in Nat : b = a + d
  BY SMT
<1>2. b * m = a * m + d * m /\ d * m \in Nat /\ a * m \in Nat
  BY <1>1, SMT
<1> QED
  BY <1>2, SMT

\* Fewer connections and more calls.
LEMMA CountKept ==
    ASSUME NEW A, NEW B, NEW C, NEW D, A \subseteq B, C \subseteq D, IsFiniteSet(B), IsFiniteSet(D),
           Cardinality(B) * MaxConc <= Cardinality(C)
    PROVE  Cardinality(A) * MaxConc <= Cardinality(D)
<1>1. IsFiniteSet(A) /\ Cardinality(A) <= Cardinality(B)
  BY FS_Subset
<1>2. IsFiniteSet(C) /\ Cardinality(C) <= Cardinality(D)
  BY FS_Subset
<1>3. /\ Cardinality(A) \in Nat /\ Cardinality(B) \in Nat /\ Cardinality(C) \in Nat
      /\ Cardinality(D) \in Nat
  BY <1>1, <1>2, FS_CardinalityType
<1>4. MaxConc \in Nat
  BY PoolAssumption
<1>5. Cardinality(A) * MaxConc <= Cardinality(B) * MaxConc
  BY <1>1, <1>3, <1>4, TimesOrder
<1>6. Cardinality(A) * MaxConc \in Nat /\ Cardinality(B) * MaxConc \in Nat
  BY <1>3, <1>4
<1> QED
  BY <1>2, <1>3, <1>5, <1>6

\* The sets that are counted are finite.
LEMMA Countable ==
    ASSUME TypeOK, FiniteInv, NEW k \in Keys, NEW c
    PROVE  /\ IsFiniteSet(Opened(k)) /\ IsFiniteSet(Opened(k) \ {c})
           /\ IsFiniteSet(CallsOf(k)) /\ IsFiniteSet(Given(k)) /\ IsFiniteSet(GivenBut(k, c))
<1>1. IsFiniteSet(Opened(k))
  <2>1. Opened(k) \subseteq pool[k] /\ IsFiniteSet(pool[k])
    BY DEF Opened, FiniteInv
  <2> QED
    BY <2>1, FS_Subset
<1>2. IsFiniteSet(CallsOf(k))
  <2>1. CallsOf(k) \subseteq Calls /\ IsFiniteSet(Calls)
    BY PoolAssumption DEF CallsOf
  <2> QED
    BY <2>1, FS_Subset
<1>3. IsFiniteSet(Given(k))
  <2>1. Given(k) \subseteq CallsOf(k)
    BY DEF Given
  <2> QED
    BY <1>2, <2>1, FS_Subset
<1>4. IsFiniteSet(GivenBut(k, c))
  <2>1. GivenBut(k, c) \subseteq Given(k)
    BY DEF GivenBut
  <2> QED
    BY <1>3, <2>1, FS_Subset
<1>5. IsFiniteSet(Opened(k) \ {c})
  BY <1>1, FS_RemoveElement
<1> QED
  BY <1>1, <1>2, <1>3, <1>4, <1>5

\* A step that opens no connection of k and takes none away from a call.
LEMMA CountsKept ==
    ASSUME TypeOK, FiniteInv, NEW k \in Keys, Opened(k)' \subseteq Opened(k),
           \A t \in Calls : conn[t] # NoConn => conn'[t] = conn[t]
    PROVE  (FullAt(k) => FullAt(k)') /\ (ButOneAt(k) => ButOneAt(k)')
<1>1. Given(k) \subseteq Given(k)'
  BY DEF Given, CallsOf
<1>2. IsFiniteSet(Given(k)')
  <2>1. Given(k)' \subseteq CallsOf(k)
    BY DEF Given, CallsOf
  <2>2. IsFiniteSet(CallsOf(k))
    BY Countable
  <2> QED
    BY <2>1, <2>2, FS_Subset
<1>3. ASSUME FullAt(k) PROVE FullAt(k)'
  <2>1. IsFiniteSet(Opened(k)) /\ Cardinality(Opened(k)) * MaxConc <= Cardinality(Given(k))
    BY <1>3, Countable DEF FullAt
  <2>2. Cardinality(Opened(k)') * MaxConc <= Cardinality(Given(k)')
    BY <1>1, <1>2, <2>1, CountKept
  <2> QED
    BY <2>2 DEF FullAt
<1>4. ASSUME ButOneAt(k) PROVE ButOneAt(k)'
  <2>1. PICK c \in Conns \cup {NoConn} :
            Cardinality(Opened(k) \ {c}) * MaxConc <= Cardinality(GivenBut(k, c))
    BY <1>4 DEF ButOneAt
  <2>2. GivenBut(k, c) \subseteq GivenBut(k, c)'
    BY DEF GivenBut, Given, CallsOf
  <2>3. IsFiniteSet(GivenBut(k, c)')
    <3>1. GivenBut(k, c)' \subseteq Given(k)'
      BY DEF GivenBut
    <3> QED
      BY <1>2, <3>1, FS_Subset
  <2>4. (Opened(k)' \ {c}) \subseteq (Opened(k) \ {c}) /\ IsFiniteSet(Opened(k) \ {c})
    BY Countable
  <2>5. Cardinality(Opened(k)' \ {c}) * MaxConc <= Cardinality(GivenBut(k, c)')
    BY <2>1, <2>2, <2>3, <2>4, CountKept
  <2> QED
    BY <2>5 DEF ButOneAt
<1> QED
  BY <1>3, <1>4

\* A connection without a free stream was given to MaxConc calls.
LEMMA FullGiven ==
    ASSUME TypeOK, StreamInv, OwnInv, NEW k \in Keys, NEW c \in Opened(k), ~Usable(c)
    PROVE  /\ Cardinality({t \in Given(k) : conn[t] = c}) \in Nat
           /\ MaxConc <= Cardinality({t \in Given(k) : conn[t] = c})
<1> DEFINE Mine == {t \in Given(k) : conn[t] = c}
<1>1. c \in pool[k] /\ c \in Conns /\ cst[c] = "live" /\ c # NoConn
  BY PoolAssumption DEF Opened, TypeOK
<1>2. active[c] \subseteq Mine
  BY <1>1 DEF StreamInv, OwnInv, TypeOK, Given, CallsOf
<1>3. IsFiniteSet(Mine)
  <2>1. Mine \subseteq Calls /\ IsFiniteSet(Calls)
    BY PoolAssumption DEF Given, CallsOf
  <2> QED
    BY <2>1, FS_Subset
<1> HIDE DEF Mine
<1>4. IsFiniteSet(active[c]) /\ Cardinality(active[c]) <= Cardinality(Mine)
  BY <1>2, <1>3, FS_Subset
<1>5. Cardinality(active[c]) \in Nat /\ Cardinality(Mine) \in Nat /\ MaxConc \in Nat
  BY <1>3, <1>4, FS_CardinalityType, PoolAssumption
<1>6. ~(Cardinality(active[c]) < MaxConc)
  BY <1>1 DEF Usable
<1>7. MaxConc <= Cardinality(Mine) /\ Cardinality(Mine) \in Nat
  BY <1>4, <1>5, <1>6
<1> QED
  BY <1>7 DEF Mine

\* When no connection of a key is usable, the calls given one fill them all.
LEMMA NoneUsableFull ==
    ASSUME TypeOK, StreamInv, OwnInv, FiniteInv, NEW k \in Keys, ButOneAt(k),
           \A c \in pool[k] : ~Usable(c)
    PROVE  FullAt(k)
<1>1. PICK c \in Conns \cup {NoConn} :
          Cardinality(Opened(k) \ {c}) * MaxConc <= Cardinality(GivenBut(k, c))
  BY DEF ButOneAt
<1>2. /\ IsFiniteSet(Opened(k)) /\ IsFiniteSet(Opened(k) \ {c})
      /\ IsFiniteSet(Given(k)) /\ IsFiniteSet(GivenBut(k, c))
  BY Countable
<1>3. /\ Cardinality(Opened(k)) \in Nat /\ Cardinality(Opened(k) \ {c}) \in Nat
      /\ Cardinality(Given(k)) \in Nat /\ Cardinality(GivenBut(k, c)) \in Nat /\ MaxConc \in Nat
  BY <1>2, FS_CardinalityType, PoolAssumption
<1>4. CASE c \in Opened(k)
  <2> DEFINE Mine == {t \in Given(k) : conn[t] = c}
  <2>1. Cardinality(Mine) \in Nat /\ MaxConc <= Cardinality(Mine)
    <3>1. ~Usable(c)
      BY <1>4 DEF Opened
    <3> QED
      BY <1>4, <3>1, FullGiven
  <2>2. IsFiniteSet(Mine)
    <3>1. Mine \subseteq Given(k)
      OBVIOUS
    <3> QED
      BY <1>2, <3>1, FS_Subset
  <2>3. GivenBut(k, c) \cup Mine = Given(k) /\ GivenBut(k, c) \cap Mine = {}
    BY DEF GivenBut
  <2> HIDE DEF Mine
  <2>4. Cardinality(Given(k)) = Cardinality(GivenBut(k, c)) + Cardinality(Mine)
    <3>1. Cardinality(GivenBut(k, c) \cup Mine) =
              Cardinality(GivenBut(k, c)) + Cardinality(Mine) - Cardinality(GivenBut(k, c) \cap Mine)
      BY <1>2, <2>2, FS_Union
    <3>2. Cardinality(GivenBut(k, c) \cap Mine) = 0
      BY <2>3, FS_EmptySet
    <3> QED
      BY <1>3, <2>1, <2>3, <3>1, <3>2
  <2>5. Cardinality(Opened(k) \ {c}) = Cardinality(Opened(k)) - 1
    BY <1>2, <1>4, FS_RemoveElement
  <2>6. PICK n \in Nat : n = Cardinality(Opened(k) \ {c}) /\ Cardinality(Opened(k)) = n + 1
    BY <1>3, <2>5
  <2>7. (n + 1) * MaxConc = n * MaxConc + MaxConc /\ n * MaxConc \in Nat
    BY <1>3, <2>6
  <2>8. n * MaxConc <= Cardinality(GivenBut(k, c))
    BY <1>1, <2>6
  <2>9. (n + 1) * MaxConc <= Cardinality(Given(k))
    BY <1>3, <2>1, <2>4, <2>7, <2>8
  <2> QED
    BY <2>6, <2>9 DEF FullAt
<1>5. CASE c \notin Opened(k)
  <2>1. Opened(k) \subseteq (Opened(k) \ {c}) /\ GivenBut(k, c) \subseteq Given(k)
    BY <1>5 DEF GivenBut
  <2>2. Cardinality(Opened(k)) * MaxConc <= Cardinality(Given(k))
    BY <1>1, <1>2, <2>1, CountKept
  <2> QED
    BY <2>2 DEF FullAt
<1> QED
  BY <1>4, <1>5

\* A step that gives no connection and opens none keeps what is known of the owners.
LEMMA OwnerKept ==
    ASSUME TypeOK, OwnerInv, UNCHANGED conn, \A k \in Keys : pool'[k] \subseteq pool[k],
           \A c \in Conns : cst'[c] = "none" => cst[c] = "none",
           \A t \in Calls : \/ pc'[t] = pc[t] \/ pc'[t] \in Final \cup {"sending", "opening", "inflight"}
                            \/ pc[t] \notin {"published", "sending", "opening", "inflight"} \cup Final
    PROVE  OwnerInv'
<1>1. AskInv'
  BY DEF OwnerInv, AskInv
<1>2. NewInv' /\ OwnInv'
  BY DEF OwnerInv, NewInv, OwnInv, TypeOK
<1>3. FiniteInv'
  <2>1. ASSUME NEW k \in Keys PROVE IsFiniteSet(pool'[k])
    <3>1. IsFiniteSet(pool[k]) /\ pool'[k] \subseteq pool[k]
      BY DEF OwnerInv, FiniteInv
    <3> QED
      BY <3>1, FS_Subset
  <2> QED
    BY <2>1 DEF FiniteInv
<1> QED
  BY <1>1, <1>2, <1>3 DEF OwnerInv

\* Such a step keeps the counts, unless a call becomes a connector.
LEMMA BurstKept ==
    ASSUME TypeOK, BurstInv, OwnerInv', \A k \in Keys : Opened(k)' \subseteq Opened(k),
           \A t \in Calls : conn[t] # NoConn => conn'[t] = conn[t],
           \A t \in Calls : pc'[t] = "connecting" => pc[t] = "connecting" \/ FullAt(KeyOf[t])
    PROVE  BurstInv'
<1>1. FiniteInv /\ FullInv /\ ButOneInv /\ \A t \in Calls : KeyOf[t] \in Keys
  BY PoolAssumption DEF BurstInv, OwnerInv
<1>2. ASSUME NEW k \in Keys PROVE (FullAt(k) => FullAt(k)') /\ ButOneAt(k)'
  BY <1>1, CountsKept DEF ButOneInv
<1>3. FullInv'
  BY <1>1, <1>2 DEF FullInv
<1>4. ButOneInv'
  BY <1>2 DEF ButOneInv
<1> QED
  BY <1>3, <1>4 DEF BurstInv

\* _evict_closed leaves the live connections of every key where they are.
LEMMA EvictOpened ==
    ASSUME TypeOK, NEW k \in Keys, NEW D, Evict(k, D), UNCHANGED cst
    PROVE  \A j \in Keys : pool'[j] \subseteq pool[j] /\ Opened(j)' \subseteq Opened(j)
<1>1. pool' = [pool EXCEPT ![k] = {c \in pool[k] : ~Closed(c)}]
  BY DEF Evict, TypeOK
<1>2. \A j \in Keys : pool'[j] \subseteq pool[j]
  BY <1>1 DEF TypeOK
<1> QED
  BY <1>2 DEF Opened

\* A pooled connection is given to one more call of its key.
LEMMA BurstReuse ==
    ASSUME TypeOK, OnePlace, BurstInv, NEW t \in Calls, pc[t] \in {"idle", "lookup"},
           NEW D, Evict(KeyOf[t], D), Reuse(t), UNCHANGED cst
    PROVE  BurstInv'
<1>1. KeyOf[t] \in Keys
  BY PoolAssumption
<1>2. \A j \in Keys : pool'[j] \subseteq pool[j] /\ Opened(j)' \subseteq Opened(j)
  BY <1>1, EvictOpened
<1>3. PICK c \in pool[KeyOf[t]] : /\ cst[c] = "live" /\ conn' = [conn EXCEPT ![t] = c]
                                  /\ pc' = [pc EXCEPT ![t] = "sending"]
  BY DEF Reuse, LeastLoaded, Usable, Goto
<1>4. c \in Conns /\ c # NoConn /\ conn[t] = NoConn
  BY <1>1, PoolAssumption DEF TypeOK, BurstInv, OwnerInv, AskInv, Final
<1>5. conn'[t] = c /\ \A u \in Calls : u # t => conn'[u] = conn[u]
  BY <1>3 DEF TypeOK
<1>6. pc'[t] = "sending" /\ \A u \in Calls : u # t => pc'[u] = pc[u]
  BY <1>3 DEF TypeOK
<1>7. AskInv' /\ NewInv'
  BY <1>3, <1>4, <1>5, <1>6 DEF BurstInv, OwnerInv, AskInv, NewInv
<1>8. OwnInv'
  <2> SUFFICES ASSUME NEW k \in Keys, NEW d \in pool'[k]
               PROVE  (\E u \in Calls : conn'[u] = d) /\ \A u \in Calls : conn'[u] = d => KeyOf[u] = k
    BY DEF OwnInv
  <2>1. d \in pool[k]
    BY <1>2
  <2>2. PICK v \in Calls : conn[v] = d /\ \A u \in Calls : conn[u] = d => KeyOf[u] = k
    BY <2>1 DEF BurstInv, OwnerInv, OwnInv
  <2>3. d \in Conns /\ d # NoConn
    BY <2>1, PoolAssumption DEF TypeOK
  <2>4. v # t /\ conn'[v] = d
    BY <1>4, <1>5, <2>2, <2>3
  <2>5. d = c => KeyOf[t] = k
    BY <1>1, <1>3, <2>1 DEF OnePlace
  <2> QED
    BY <1>5, <2>2, <2>4, <2>5
<1>9. FiniteInv'
  <2>1. ASSUME NEW k \in Keys PROVE IsFiniteSet(pool'[k])
    <3>1. IsFiniteSet(pool[k]) /\ pool'[k] \subseteq pool[k]
      BY <1>2 DEF BurstInv, OwnerInv, FiniteInv
    <3> QED
      BY <3>1, FS_Subset
  <2> QED
    BY <2>1 DEF FiniteInv
<1>10. OwnerInv'
  BY <1>7, <1>8, <1>9 DEF OwnerInv
<1>11. \A u \in Calls : conn[u] # NoConn => conn'[u] = conn[u]
  BY <1>4, <1>5
<1>12. \A u \in Calls : pc'[u] = "connecting" => pc[u] = "connecting"
  BY <1>6
<1> QED
  BY <1>2, <1>10, <1>11, <1>12, BurstKept

\* A lookup that finds no usable connection: the call waits, or becomes the connector.
LEMMA BurstMiss ==
    ASSUME TypeOK, StreamInv, BurstInv, NEW t \in Calls, pc[t] \in {"idle", "lookup"},
           NEW D, Evict(KeyOf[t], D), NoneUsable(t), UNCHANGED <<cst, conn>>,
           NEW l \in {"cold", "waiting", "connecting"}, Goto(t, l)
    PROVE  BurstInv'
<1>1. KeyOf[t] \in Keys
  BY PoolAssumption
<1>2. \A j \in Keys : pool'[j] \subseteq pool[j] /\ Opened(j)' \subseteq Opened(j)
  BY <1>1, EvictOpened
<1>3. \A u \in Calls : pc'[u] = IF u = t THEN l ELSE pc[u]
  BY DEF Goto, TypeOK
<1>4. FullAt(KeyOf[t])
  BY <1>1, NoneUsableFull DEF BurstInv, OwnerInv, ButOneInv, NoneUsable
<1>5. pc[t] \notin {"published", "sending", "opening", "inflight"} \cup Final
  BY DEF Final
<1>6. OwnerInv'
  BY <1>2, <1>3, <1>5, OwnerKept DEF BurstInv
<1> QED
  BY <1>2, <1>3, <1>4, <1>6, BurstKept

\* A connection is opened: it is the one that need not be full, and the calls given the
\* others are those that were given any.
LEMMA BurstOpens ==
    ASSUME TypeOK, SingleFlight, FreshInv, BurstInv, NEW t \in Calls, pc[t] = "connecting",
           NEW d \in Conns, cst[d] = "none", cst' = [cst EXCEPT ![d] = "live"],
           pool' = [pool EXCEPT ![KeyOf[t]] = @ \cup {d}], conn' = [conn EXCEPT ![t] = d],
           Goto(t, "published")
    PROVE  BurstInv'
<1>1. KeyOf \in [Calls -> Keys] /\ KeyOf[t] \in Keys /\ d # NoConn
  BY PoolAssumption
<1>2. conn[t] = NoConn /\ \A u \in Calls : conn[u] # d
  BY DEF BurstInv, OwnerInv, AskInv, NewInv, Final
<1>3. conn'[t] = d /\ \A u \in Calls : u # t => conn'[u] = conn[u]
  BY DEF TypeOK
<1>4. pc'[t] = "published" /\ \A u \in Calls : u # t => pc'[u] = pc[u]
  BY DEF TypeOK, Goto
<1>5. /\ pool'[KeyOf[t]] = pool[KeyOf[t]] \cup {d}
      /\ \A k \in Keys : k # KeyOf[t] => pool'[k] = pool[k]
      /\ \A k \in Keys : d \notin pool[k]
  BY <1>1 DEF TypeOK, FreshInv
<1>6. cst'[d] = "live" /\ \A c \in Conns : c # d => cst'[c] = cst[c]
  BY DEF TypeOK
<1>7. AskInv' /\ NewInv'
  BY <1>1, <1>3, <1>4, <1>6 DEF BurstInv, OwnerInv, AskInv, NewInv
<1>8. OwnInv'
  <2> SUFFICES ASSUME NEW k \in Keys, NEW c \in pool'[k]
               PROVE  (\E u \in Calls : conn'[u] = c) /\ \A u \in Calls : conn'[u] = c => KeyOf[u] = k
    BY DEF OwnInv
  <2>1. CASE c = d
    <3>1. k = KeyOf[t]
      BY <1>5, <2>1
    <3> QED
      BY <1>2, <1>3, <2>1, <3>1
  <2>2. CASE c # d
    <3>1. c \in pool[k] /\ c # NoConn
      BY <1>5, <2>2, PoolAssumption DEF TypeOK
    <3>2. PICK v \in Calls : conn[v] = c /\ \A u \in Calls : conn[u] = c => KeyOf[u] = k
      BY <3>1 DEF BurstInv, OwnerInv, OwnInv
    <3>3. v # t
      BY <1>2, <3>1, <3>2
    <3> QED
      BY <1>3, <2>2, <3>2, <3>3
  <2> QED
    BY <2>1, <2>2
<1>9. FiniteInv'
  <2>1. IsFiniteSet(pool[KeyOf[t]] \cup {d})
    BY <1>1, FS_AddElement DEF BurstInv, OwnerInv, FiniteInv
  <2> QED
    BY <1>5, <2>1 DEF BurstInv, OwnerInv, FiniteInv
<1>10. OwnerInv'
  BY <1>7, <1>8, <1>9 DEF OwnerInv
<1>11. ButOneAt(KeyOf[t])'
  <2>1. Opened(KeyOf[t])' \ {d} = Opened(KeyOf[t])
    BY <1>1, <1>5, <1>6 DEF Opened, TypeOK
  <2>2. GivenBut(KeyOf[t], d)' = Given(KeyOf[t])
    BY <1>1, <1>2, <1>3 DEF GivenBut, Given, CallsOf
  <2>3. Cardinality(Opened(KeyOf[t])) * MaxConc <= Cardinality(Given(KeyOf[t]))
    BY DEF BurstInv, FullInv, FullAt
  <2> QED
    BY <2>1, <2>2, <2>3 DEF ButOneAt
<1>12. ASSUME NEW k \in Keys, k # KeyOf[t]
       PROVE  (FullAt(k) => FullAt(k)') /\ ButOneAt(k)'
  <2>1. Opened(k)' \subseteq Opened(k)
    BY <1>5, <1>6, <1>12 DEF Opened, TypeOK
  <2>2. \A u \in Calls : conn[u] # NoConn => conn'[u] = conn[u]
    BY <1>2, <1>3
  <2> QED
    BY <2>1, <2>2, CountsKept DEF BurstInv, OwnerInv, ButOneInv
<1>13. FullInv'
  <2> SUFFICES ASSUME NEW u \in Calls, pc'[u] = "connecting"
               PROVE  FullAt(KeyOf[u])'
    BY DEF FullInv
  <2>1. u # t /\ pc[u] = "connecting"
    BY <1>4
  <2>2. KeyOf[u] # KeyOf[t]
    BY <2>1 DEF SingleFlight, InFlight
  <2>3. KeyOf[u] \in Keys /\ FullAt(KeyOf[u])
    BY <1>1, <2>1 DEF BurstInv, FullInv
  <2> QED
    BY <1>12, <2>2, <2>3
<1>14. ButOneInv'
  BY <1>11, <1>12 DEF ButOneInv
<1> QED
  BY <1>10, <1>13, <1>14 DEF BurstInv

\* A step that gives no connection and opens none.
LEMMA BurstQuiet ==
    ASSUME TypeOK, BurstInv, UNCHANGED conn, \A k \in Keys : pool'[k] \subseteq pool[k],
           \A c \in Conns : cst'[c] \in {"none", "live"} => cst[c] = cst'[c],
           \A t \in Calls : pc'[t] = "connecting" => pc[t] = "connecting",
           \A t \in Calls : \/ pc'[t] = pc[t] \/ pc'[t] \in Final \cup {"sending", "opening", "inflight"}
                            \/ pc[t] \notin {"published", "sending", "opening", "inflight"} \cup Final
    PROVE  BurstInv'
<1>1. \A c \in Conns : cst'[c] = "none" => cst[c] = "none"
  OBVIOUS
<1>2. OwnerInv'
  BY <1>1, OwnerKept DEF BurstInv
<1>3. \A k \in Keys : Opened(k)' \subseteq Opened(k)
  BY DEF Opened, TypeOK
<1> QED
  BY <1>2, <1>3, BurstKept

\* Every step keeps the counts.
LEMMA BurstStep ==
    ASSUME TypeOK, StreamInv, SingleFlight, PlaceInv, BurstInv, [Next]_vars
    PROVE  BurstInv'
<1>1. ASSUME NEW t \in Calls, CallStep(t) PROVE BurstInv'
  <2>1. CASE WarmLookup(t)
    <3>1. /\ pc[t] = "idle" /\ UNCHANGED cst
          /\ Evict(KeyOf[t], {c \in draining : cst[c] # "dead"})
          /\ Reuse(t) \/ (NoneUsable(t) /\ Goto(t, "cold") /\ UNCHANGED conn)
      BY <2>1 DEF WarmLookup, connVars
    <3>2. PICK D : D = {c \in draining : cst[c] # "dead"}
      OBVIOUS
    <3>3. CASE Reuse(t)
      BY <3>1, <3>2, <3>3, BurstReuse DEF PlaceInv
    <3>4. CASE NoneUsable(t) /\ Goto(t, "cold") /\ UNCHANGED conn
      BY <3>1, <3>2, <3>4, BurstMiss
    <3> QED
      BY <3>1, <3>3, <3>4
  <2>2. CASE Lookup(t)
    <3>1. /\ pc[t] = "lookup" /\ UNCHANGED cst /\ Evict(KeyOf[t], draining)
          /\ \/ Reuse(t)
             \/ /\ NoneUsable(t) /\ UNCHANGED conn
                /\ Goto(t, "waiting") \/ Goto(t, "connecting")
      BY <2>2 DEF Lookup, connVars
    <3>2. CASE Reuse(t)
      BY <3>1, <3>2, BurstReuse DEF PlaceInv
    <3>3. CASE /\ NoneUsable(t) /\ UNCHANGED conn
               /\ Goto(t, "waiting") \/ Goto(t, "connecting")
      BY <3>1, <3>3, BurstMiss
    <3> QED
      BY <3>1, <3>2, <3>3
  <2>3. CASE Connect(t)
    <3>1. CASE UNCHANGED <<pool, conn, cst>> /\ (Goto(t, "failing") \/ Goto(t, "h1"))
      <4>1. pc[t] = "connecting" /\ \A u \in Calls : pc'[u] = pc[u] \/ (u = t /\ pc'[u] \in {"failing", "h1"})
        BY <2>3, <3>1 DEF Connect, Goto, TypeOK
      <4> QED
        BY <3>1, <4>1, BurstQuiet DEF Final
    <3>2. ASSUME NEW d \in Conns, cst[d] = "none", cst' = [cst EXCEPT ![d] = "live"],
                 pool' = [pool EXCEPT ![KeyOf[t]] = @ \cup {d}], conn' = [conn EXCEPT ![t] = d],
                 Goto(t, "published")
          PROVE  BurstInv'
      <4>1. pc[t] = "connecting" /\ FreshInv
        BY <2>3 DEF Connect, PlaceInv
      <4> QED
        BY <3>2, <4>1, BurstOpens
    <3> QED
      BY <2>3, <3>1, <3>2 DEF Connect
  <2>4. CASE Reap(t) \/ Reaped(t) \/ WaitTimeout(t)
    <3>1. /\ UNCHANGED <<pool, conn, cst>> /\ pc[t] \in {"idle", "cold", "closing", "waiting"}
          /\ \A u \in Calls : pc'[u] = pc[u] \/ (u = t /\ pc'[u] \in {"closing", "lookup"})
      BY <2>4 DEF Reap, Reaped, WaitTimeout, Goto, TypeOK, poolVars, connVars
    <3> QED
      BY <3>1, BurstQuiet DEF Final
  <2>5. CASE CloseOne(t)
    <3>1. /\ UNCHANGED <<pool, conn, pc>>
          /\ \A c \in Conns : cst'[c] = cst[c] \/ cst'[c] \in {"dead", "stopping"}
      BY <2>5 DEF CloseOne, TypeOK, poolVars
    <3> QED
      BY <3>1, BurstQuiet
  <2>6. CASE Finally(t)
    <3>1. /\ UNCHANGED <<pool, conn, cst>>
          /\ \A u \in Calls : \/ pc'[u] = pc[u] \/ pc'[u] \in {"failed", "done", "sending"}
                              \/ pc[u] = "waiting" /\ pc'[u] = "lookup"
      BY <2>6 DEF Finally, connVars
    <3> QED
      BY <3>1, BurstQuiet DEF Final
  <2>7. CASE Send(t) \/ Open(t) \/ Return(t)
    <3>1. /\ UNCHANGED <<pool, conn, cst>>
          /\ \A u \in Calls : pc'[u] = pc[u] \/ pc'[u] \in {"failed", "done", "opening", "inflight"}
      BY <2>7 DEF Send, Open, Return, Goto, TypeOK, poolVars, connVars
    <3> QED
      BY <3>1, BurstQuiet DEF Final
  <2> QED
    BY <1>1, <2>1, <2>2, <2>3, <2>4, <2>5, <2>6, <2>7 DEF CallStep, OwnStep
<1>2. ASSUME NEW s \in Closers, CloserStep(s) PROVE BurstInv'
  <2>1. UNCHANGED conn /\ \A k \in Keys : pool'[k] \subseteq pool[k]
    BY <1>2 DEF CloserStep, CloseReap, CloseOne, CloseClear, CloseEnd, poolVars
  <2>2. \A c \in Conns : cst'[c] = cst[c] \/ cst'[c] \in {"dead", "stopping"}
    BY <1>2 DEF CloserStep, CloseReap, CloseOne, CloseClear, CloseEnd, TypeOK, connVars
  <2>3. \A t \in Calls : pc'[t] = pc[t]
    BY <1>2, PoolAssumption DEF CloserStep, CloseReap, CloseOne, CloseClear, CloseEnd, Goto, TypeOK
  <2> QED
    BY <2>1, <2>2, <2>3, BurstQuiet
<1>3. ASSUME NEW d \in Conns, ConnStep(d) PROVE BurstInv'
  <2>1. /\ UNCHANGED <<conn, pool>>
        /\ \A c \in Conns : cst'[c] = cst[c] \/ cst'[c] \in {"dead", "goaway"}
        /\ \A t \in Calls : pc'[t] = pc[t] \/ pc'[t] \in {"failed", "aborted"}
    BY <1>3 DEF ConnStep, Goaway, PeerCloses, ReaderStops, ReaderEnds, TypeOK, poolVars
  <2> QED
    BY <2>1, BurstQuiet DEF Final
<1>4. ASSUME UNCHANGED vars PROVE BurstInv'
  <2>1. UNCHANGED <<conn, pool, cst, pc>>
    BY <1>4 DEF vars
  <2> QED
    BY <2>1, BurstQuiet
<1> QED
  BY <1>1, <1>2, <1>3, <1>4 DEF Next, Terminated

\* The counts bound the connections by the calls.
LEMMA BurstBound ==
    ASSUME TypeOK, BurstInv
    PROVE  BurstCoalesced
<1> SUFFICES ASSUME NEW k \in Keys, Opened(k) # {}
             PROVE  (Cardinality(Opened(k)) - 1) * MaxConc < Cardinality(CallsOf(k))
  BY DEF BurstCoalesced, Opened, CallsOf
<1>1. PICK c \in Conns \cup {NoConn} :
          Cardinality(Opened(k) \ {c}) * MaxConc <= Cardinality(GivenBut(k, c))
  BY DEF BurstInv, ButOneInv, ButOneAt
<1>2. /\ IsFiniteSet(Opened(k)) /\ IsFiniteSet(Opened(k) \ {c}) /\ IsFiniteSet(CallsOf(k))
      /\ IsFiniteSet(Given(k)) /\ IsFiniteSet(GivenBut(k, c))
  BY Countable DEF BurstInv, OwnerInv
<1>3. PICK d \in Opened(k), u \in CallsOf(k) : conn[u] = d /\ (c \in Opened(k) => d = c)
  <2>1. PICK d \in Opened(k) : c \in Opened(k) => d = c
    OBVIOUS
  <2>2. \E u \in CallsOf(k) : conn[u] = d
    BY <2>1 DEF Opened, CallsOf, BurstInv, OwnerInv, OwnInv
  <2> QED
    BY <2>1, <2>2
<1>4. /\ Cardinality(Opened(k)) \in Nat /\ Cardinality(Opened(k) \ {c}) \in Nat
      /\ Cardinality(CallsOf(k)) \in Nat /\ Cardinality(GivenBut(k, c)) \in Nat /\ MaxConc \in Nat
  BY <1>2, FS_CardinalityType, PoolAssumption
<1>5. GivenBut(k, c) \subseteq CallsOf(k)
  BY DEF GivenBut, Given
<1>6. CASE c \in Opened(k)
  <2>1. Cardinality(Opened(k) \ {c}) = Cardinality(Opened(k)) - 1
    BY <1>2, <1>6, FS_RemoveElement
  <2>2. u \notin GivenBut(k, c)
    BY <1>3, <1>6 DEF GivenBut
  <2>3. Cardinality(GivenBut(k, c)) < Cardinality(CallsOf(k))
    <3>1. Cardinality(GivenBut(k, c)) <= Cardinality(CallsOf(k))
      BY <1>2, <1>5, FS_Subset
    <3>2. Cardinality(GivenBut(k, c)) # Cardinality(CallsOf(k))
      BY <1>2, <1>3, <1>5, <2>2, FS_Subset
    <3> QED
      BY <1>4, <3>1, <3>2
  <2>4. PICK n \in Nat : n = Cardinality(Opened(k) \ {c})
    BY <1>4
  <2>5. n * MaxConc \in Nat /\ n * MaxConc <= Cardinality(GivenBut(k, c))
    BY <1>1, <1>4, <2>4
  <2>6. n * MaxConc < Cardinality(CallsOf(k))
    BY <1>4, <2>3, <2>5
  <2> QED
    BY <2>1, <2>4, <2>6
<1>7. CASE c \notin Opened(k)
  <2>1. Opened(k) \subseteq (Opened(k) \ {c})
    BY <1>7
  <2>2. Cardinality(Opened(k)) * MaxConc <= Cardinality(CallsOf(k))
    BY <1>1, <1>2, <1>5, <2>1, CountKept
  <2>3. Cardinality(CallsOf(k)) > 0
    BY <1>2, <1>3, <1>4, FS_EmptySet
  <2>4. Cardinality(Opened(k)) # 0
    BY <1>2, FS_EmptySet
  <2>5. PICK n \in Nat : Cardinality(Opened(k)) = n + 1 /\ Cardinality(Opened(k)) - 1 = n
    BY <1>4, <2>4
  <2>6. (n + 1) * MaxConc = n * MaxConc + MaxConc /\ n * MaxConc \in Nat
    BY <1>4, <2>5
  <2>7. MaxConc = 0 => n * MaxConc = 0
    BY <2>5
  <2>8. n * MaxConc < Cardinality(CallsOf(k))
    BY <1>4, <2>2, <2>3, <2>5, <2>6, <2>7
  <2> QED
    BY <2>5, <2>8
<1> QED
  BY <1>6, <1>7

\* A burst of calls to a cold host shares connections: n live ones of a key need more
\* calls than n - 1 of them have streams for, whatever fails, goes away or times out
\* between the lookup under the lock and the connect outside it.
THEOREM BurstSharesConnections == Spec => []BurstCoalesced
<1>1. Init => StreamInv /\ SingleFlight /\ EmptyHands /\ PlaceInv
  <2> SUFFICES ASSUME Init PROVE StreamInv /\ SingleFlight /\ EmptyHands /\ PlaceInv
    OBVIOUS
  <2>1. {u \in Calls : pc[u] \in InFlight} = {}
    BY DEF Init, InFlight
  <2>2. StreamInv /\ SingleFlight
    BY <2>1 DEF Init, StreamInv, SingleFlight
  <2>3. EmptyHands /\ PlaceInv
    BY DEF Init, EmptyHands, PlaceInv, OnePlace, NoneLost, FreshInv, Threads
  <2> QED
    BY <2>2, <2>3
<1>2. ASSUME Init PROVE BurstInv
  <2>1. AskInv /\ NewInv /\ OwnInv /\ FullInv
    BY <1>2, PoolAssumption DEF Init, AskInv, NewInv, OwnInv, FullInv
  <2>2. FiniteInv
    BY <1>2, FS_EmptySet DEF Init, FiniteInv
  <2>3. ASSUME NEW k \in Keys PROVE ButOneAt(k)
    <3>1. Opened(k) \ {NoConn} = {} /\ GivenBut(k, NoConn) = {}
      BY <1>2 DEF Init, Opened, GivenBut, Given, CallsOf
    <3>2. Cardinality({}) * MaxConc <= Cardinality({})
      BY FS_EmptySet, PoolAssumption
    <3>3. Cardinality(Opened(k) \ {NoConn}) * MaxConc <= Cardinality(GivenBut(k, NoConn))
      BY <3>1, <3>2
    <3> QED
      BY <3>3 DEF ButOneAt
  <2> QED
    BY <2>1, <2>2, <2>3 DEF BurstInv, OwnerInv, ButOneInv
<1>3. TypeOK /\ StreamInv /\ SingleFlight /\ EmptyHands /\ PlaceInv /\ BurstInv /\ [Next]_vars
        => StreamInv' /\ SingleFlight' /\ EmptyHands' /\ PlaceInv' /\ BurstInv'
  BY StreamStep, FlightStep, PlaceStep, BurstStep
<1>4. TypeOK /\ BurstInv => BurstCoalesced
  BY BurstBound
<1> QED
  BY <1>1, <1>2, <1>3, <1>4, TypeCorrect, PTL DEF Spec
=============================================================================
