--------------------------- MODULE RequestProofs ---------------------------
(***************************************************************************)
(* Proofs about Request, for any number of calls and hosts and any limits. *)
(***************************************************************************)
EXTENDS Request, FiniteSetTheorems, TLAPS

\* A call that does not run has locals of the right type.
LEMMA FreshType == Fresh \in CallLocals /\ Ended \in CallLocals
  <1>1. PICK h \in Hosts : TRUE
    BY RequestAssumption DEF RequestAssumption
  <1>2. (CHOOSE x \in Hosts : TRUE) \in Hosts
    BY <1>1
  <1>3. 0 \in 0 .. MaxRedirects /\ 0 \in 0 .. BackoffRetries /\ 0 \in 0 .. Larger(1, Retries) - 1
    BY RequestAssumption DEF RequestAssumption, Larger
  <1> QED  BY <1>2, <1>3 DEF Fresh, Ended, CallLocals

\* A failed attempt leaves locals of the right type.
LEMMA RetryType ==
    ASSUME TypeOK, NEW c \in Calls, NEW how \in SUBSET {"wire"}, Retry(c, how)
    PROVE  call' \in [Calls -> CallLocals]
  <1>1. call \in [Calls -> CallLocals] /\ call[c] \in CallLocals
    BY DEF TypeOK
  <1>2. CASE call[c].tries + 1 < Attempts(c)
    <2>1. call' = [call EXCEPT ![c] = [call[c] EXCEPT !.pc = "conn", !.tries = @ + 1, !.lost = @ \cup how]]
      BY <1>2 DEF Retry, Alone, Locals
    <2>2. Attempts(c) <= Larger(1, Retries) /\ Attempts(c) \in Int /\ Larger(1, Retries) \in Int
      <3>1. Retries \in Nat
        BY RequestAssumption DEF RequestAssumption
      <3>2. Larger(1, Retries) \in Nat /\ 1 <= Larger(1, Retries)
        BY <3>1 DEF Larger
      <3>3. Attempts(c) \in {1, Larger(1, Retries)}
        BY DEF Attempts
      <3> QED  BY <3>2, <3>3
    <2>3. call[c].tries + 1 \in 0 .. Larger(1, Retries) - 1
      BY <1>1, <1>2, <2>2 DEF CallLocals
    <2> QED  BY <1>1, <2>1, <2>3 DEF CallLocals
  <1>3. CASE ~(call[c].tries + 1 < Attempts(c))
    <2>1. call' = [call EXCEPT ![c] = Ended]
      BY <1>3 DEF Retry, Alone, Locals
    <2> QED  BY <1>1, <2>1, FreshType
  <1> QED  BY <1>2, <1>3

\* Types are kept by every step of a call.
LEMMA CallTypeStep ==
    ASSUME TypeOK, NEW c \in Calls, Start(c) \/ Work(c) \/ Cancel(c)
    PROVE  TypeOK'
  <1>1. call \in [Calls -> CallLocals] /\ call[c] \in CallLocals /\ call[c].host \in Hosts
    BY DEF TypeOK, CallLocals
  <1>n. {Retries, BackoffRetries, MaxRedirects, Interval, Jitter} \subseteq Nat /\ Waits \subseteq Nat
    BY RequestAssumption DEF RequestAssumption
  <1> DEFINE Rest == /\ clock' = clock /\ nxt' = nxt /\ h3hosts' = h3hosts
                     /\ slots' = slots /\ begun' = begun
  <1>r. ASSUME Rest, call' \in [Calls -> CallLocals] PROVE TypeOK'
    BY <1>r DEF TypeOK
  <1>2. CASE Start(c)
    <2>1. PICK m \in Methods, b \in BOOLEAN, h \in Hosts :
            Alone(c, [Fresh EXCEPT !.pc = "pace", !.method = m, !.body = b, !.host = h])
      BY <1>2 DEF Start
    <2>2. [Fresh EXCEPT !.pc = "pace", !.method = m, !.body = b, !.host = h] \in CallLocals
      BY FreshType DEF CallLocals
    <2> QED  BY <1>1, <1>r, <2>1, <2>2 DEF Alone, Locals, history
  <1>3. CASE Delay(c)
    <2> DEFINE h == call[c].host
               start == Larger(clock, nxt[h])
    <2>1. start \in Nat
      BY <1>1 DEF TypeOK, Larger
    <2>2. PICK j \in (-Jitter) .. Jitter :
            Locals(c, [call[c] EXCEPT !.pc = "sleep", !.wake = Larger(clock, start + j),
                                      !.slot = Len(slots[h]) + 1])
      BY <1>3 DEF Delay
    <2>3. Larger(clock, start + j) \in Nat
      <3>1. clock \in Nat /\ start + j \in Int
        BY <2>1, <1>n DEF TypeOK
      <3> HIDE DEF start
      <3> QED  BY <3>1 DEF Larger
    <2>s. slots[h] \in Seq(Nat) /\ Len(slots[h]) + 1 \in Nat
      BY <1>1 DEF TypeOK
    <2>4. call' \in [Calls -> CallLocals]
      <3> HIDE DEF start
      <3> QED  BY <1>1, <2>2, <2>3, <2>s DEF Locals, CallLocals
    <2>5. /\ nxt' = [nxt EXCEPT ![h] = start + Interval] /\ slots' = [slots EXCEPT ![h] = Append(@, start)]
          /\ clock' = clock /\ h3hosts' = h3hosts /\ begun' = begun
      BY <1>3 DEF Delay
    <2> HIDE DEF start
    <2>6. nxt' \in [Hosts -> Nat]
      BY <1>1, <1>n, <2>1, <2>5 DEF TypeOK
    <2>7. slots' \in [Hosts -> Seq(Nat)]
      <3>1. Append(slots[h], start) \in Seq(Nat)
        BY <2>1, <2>s
      <3> QED  BY <1>1, <2>5, <3>1 DEF TypeOK
    <2> QED  BY <2>4, <2>5, <2>6, <2>7 DEF TypeOK
  <1>4. CASE SendOnce(c)
    <2>1. call' \in [Calls -> CallLocals]
      BY <1>1, <1>4 DEF SendOnce, Locals, CallLocals
    <2>2. begun' \in [Hosts -> SUBSET Nat]
      BY <1>1, <1>4 DEF SendOnce, CallLocals, TypeOK
    <2> QED  BY <1>4, <2>1, <2>2 DEF SendOnce, TypeOK
  <1>5. CASE H3Fail(c)
    <2>1. call' \in [Calls -> CallLocals]
      <3>1. PICK how \in {"h3", "h3timeout"} :
              Locals(c, [call[c] EXCEPT !.pc = "conn", !.lost = IF call[c].body THEN @ ELSE @ \cup {how}])
        BY <1>5 DEF H3Fail, Alone
      <3>2. [call[c] EXCEPT !.pc = "conn", !.lost = IF call[c].body THEN @ ELSE @ \cup {how}] \in CallLocals
        BY <1>1 DEF CallLocals
      <3> QED  BY <1>1, <3>1, <3>2 DEF Locals
    <2> QED  BY <1>5, <1>r, <2>1 DEF H3Fail, Alone, history
  <1>6. CASE ConnFail(c) \/ Broken(c)
    <2>1. PICK how \in SUBSET {"wire"} : Retry(c, how)
      BY <1>6 DEF ConnFail, Broken
    <2> QED  BY <1>r, <2>1, RetryType DEF Retry, Alone, history
  <1>7. CASE Write(c)
    <2>1. call' \in [Calls -> CallLocals]
      <3>0. call[c].copies + 1 \in Nat
        BY <1>1 DEF CallLocals
      <3>1. [call[c] EXCEPT !.pc = "wire", !.copies = @ + 1] \in CallLocals
        BY <1>1, <3>0 DEF CallLocals
      <3> QED  BY <1>1, <1>7, <3>1 DEF Write, Alone, Locals
    <2> QED  BY <1>7, <1>r, <2>1 DEF Write, Alone, history
  <1>8. CASE TimedOut(c) \/ Unusable(c) \/ Cancel(c)
    <2>1. call' = [call EXCEPT ![c] = Ended] /\ Rest
      BY <1>8 DEF TimedOut, Unusable, Cancel, Alone, Locals, history
    <2> QED  BY <1>1, <1>r, <2>1, FreshType
  <1>9. CASE Backoff(c)
    <2>1. PICK w \in Waits :
            Alone(c, [call[c] EXCEPT !.pc = "backoff", !.attempt = @ + 1, !.tries = 0, !.wake = clock + w,
                                     !.copies = 0, !.lost = {}])
      BY <1>9 DEF Backoff
    <2>2. call[c].attempt + 1 \in 0 .. BackoffRetries /\ clock + w \in Nat /\ 0 \in 0 .. Larger(1, Retries) - 1
      <3>1. clock \in Nat /\ w \in Nat
        BY <1>n DEF TypeOK
      <3>2. call[c].attempt \in 0 .. BackoffRetries /\ call[c].attempt < BackoffRetries
        BY <1>1, <1>9 DEF Backoff, CallLocals
      <3> QED  BY <1>n, <3>1, <3>2 DEF Larger
    <2>3. call' \in [Calls -> CallLocals]
      BY <1>1, <2>1, <2>2 DEF Alone, Locals, CallLocals
    <2> QED  BY <1>r, <2>1, <2>3 DEF Alone, history
  <1>10. CASE Resume(c)
    <2>1. call' \in [Calls -> CallLocals]
      BY <1>1, <1>10 DEF Resume, Alone, Locals, CallLocals
    <2> QED  BY <1>10, <1>r, <2>1 DEF Resume, Alone, history
  <1>11. ASSUME NoteAltSvc(c) PROVE h3hosts' \subseteq Hosts
    BY <1>1, <1>11 DEF NoteAltSvc, TypeOK
  <1>12. CASE Redirect(c)
    <2>1. PICK m \in {Rewritten(call[c].method, status) : status \in {301, 302, 303, 307, 308}}, to \in Hosts :
            Locals(c, IF call[c].hop < MaxRedirects
                      THEN [Fresh EXCEPT !.pc = "pace", !.method = m, !.host = to,
                                         !.body = call[c].body /\ m = call[c].method,
                                         !.hop = call[c].hop + 1]
                      ELSE Ended)
      BY <1>12 DEF Redirect
    <2>2. m \in Methods \cup {"GET"}
      BY <1>1 DEF Rewritten, CallLocals
    <2>3. CASE call[c].hop < MaxRedirects
      <3>1. call[c].hop + 1 \in 0 .. MaxRedirects
        BY <1>1, <1>n, <2>3 DEF CallLocals
      <3>2. [Fresh EXCEPT !.pc = "pace", !.method = m, !.host = to,
                          !.body = call[c].body /\ m = call[c].method,
                          !.hop = call[c].hop + 1] \in CallLocals
        BY FreshType, <2>2, <3>1 DEF CallLocals
      <3>3. call' \in [Calls -> CallLocals]
        BY <1>1, <2>1, <2>3, <3>2 DEF Locals
      <3> QED  BY <1>11, <1>12, <3>3 DEF Redirect, TypeOK, history
    <2>4. CASE ~(call[c].hop < MaxRedirects)
      <3>3. call' \in [Calls -> CallLocals]
        BY <1>1, <2>1, <2>4, FreshType DEF Locals
      <3> QED  BY <1>11, <1>12, <3>3 DEF Redirect, TypeOK, history
    <2> QED  BY <2>3, <2>4
  <1>13. CASE Return(c)
    <2>1. call' \in [Calls -> CallLocals]
      BY <1>1, <1>13, FreshType DEF Return, Locals
    <2> QED  BY <1>11, <1>13, <2>1 DEF Return, TypeOK, history
  <1> QED
    BY <1>2, <1>3, <1>4, <1>5, <1>6, <1>7, <1>8, <1>9, <1>10, <1>12, <1>13 DEF Work

\* Types are kept by every step.
LEMMA TypeStep == TypeOK /\ [Next]_vars => TypeOK'
  <1> SUFFICES ASSUME TypeOK, [Next]_vars PROVE TypeOK'
    OBVIOUS
  <1>1. CASE Tick
    BY <1>1 DEF Tick, TypeOK, history
  <1>2. CASE UNCHANGED vars
    BY <1>2 DEF vars, TypeOK
  <1> QED  BY <1>1, <1>2, CallTypeStep DEF Next, Terminated

\* Every variable keeps its type; the counters of request, _do_hop and _send_once stay
\* within max_redirects, backoff_retries and the attempts allowed.
THEOREM TypeCorrect == Spec => []TypeOK
  <1>1. Init => TypeOK
    BY FreshType DEF Init, TypeOK
  <1> QED  BY <1>1, TypeStep, PTL DEF Spec

-----------------------------------------------------------------------------

\* What a step may do to the locals of the call that takes it, as far as the properties
\* look at them: x before, y after.
Same(x, y) == x.hop = y.hop /\ x.attempt = y.attempt /\ x.method = y.method /\ x.body = y.body
Spare(x) == IF x.body THEN 0 ELSE 1
Moves(x, y) ==
    \/ x.pc # "ended" /\ y.pc = "ended" /\ y.lost = {} /\ y.tries = 0 /\ y.copies = 0
    \/ /\ x.pc = "idle" /\ y.pc = "pace" /\ y.hop = 0 /\ y.attempt = 0 /\ y.tries = 0 /\ y.lost = {}
       /\ y.copies = 0
    \/ /\ Same(x, y) /\ x.tries = y.tries /\ x.lost = y.lost
       /\ \/ <<x.pc, y.pc>> \in {<<"pace", "sleep">>, <<"backoff", "pace">>} /\ y.copies = x.copies
          \/ x.pc = "sleep" /\ y.pc = "h3" /\ y.copies = Spare(x)
          \/ x.pc = "sleep" /\ y.pc = "conn" /\ y.copies = 0
          \/ x.pc = "conn" /\ y.pc = "wire" /\ y.copies = x.copies + 1
    \/ /\ Same(x, y) /\ x.tries = y.tries /\ x.pc = "h3" /\ y.pc = "conn" /\ y.copies = x.copies
       /\ \E how \in {"h3", "h3timeout"} : y.lost = IF x.body THEN x.lost ELSE x.lost \cup {how}
    \/ /\ Same(x, y) /\ y.tries = x.tries + 1 /\ x.pc \in {"conn", "wire"} /\ y.pc = "conn"
       /\ x.method \in IDEMPOTENT /\ (y.lost = x.lost \/ y.lost = x.lost \cup {"wire"})
       /\ y.tries < Larger(1, Retries) /\ y.copies = x.copies
    \/ /\ x.pc \in {"h3", "wire"} /\ y.pc = "backoff" /\ x.hop = y.hop /\ y.attempt = x.attempt + 1
       /\ x.method = y.method /\ x.body = y.body /\ y.lost = {}
       /\ y.tries = 0 /\ y.copies = 0
    \/ /\ x.pc \in {"h3", "wire"} /\ y.pc = "pace" /\ y.hop = x.hop + 1 /\ y.lost = {}
       /\ y.tries = 0 /\ y.copies = 0

\* Writing one call's locals.
LEMMA LocalsFields ==
    ASSUME TypeOK, NEW c \in Calls, NEW new, Locals(c, new)
    PROVE  call'[c] = new /\ \A d \in Calls : d # c => call'[d] = call[d]
  BY DEF TypeOK, Locals

\* What the locals of an ended call say.
LEMMA EndedFields == Ended.pc = "ended" /\ Ended.lost = {} /\ Ended.tries = 0 /\ Ended.copies = 0
  BY DEF Ended, Fresh

\* Every step of a call is one of these moves.
LEMMA CallMoves ==
    ASSUME TypeOK, NEW c \in Calls, Start(c) \/ Work(c) \/ Cancel(c)
    PROVE  Moves(call[c], call'[c]) /\ \A d \in Calls : d # c => call'[d] = call[d]
  <1>0. call[c] \in CallLocals
    BY DEF TypeOK
  <1>1. CASE Start(c)
    <2>1. PICK m \in Methods, b \in BOOLEAN, h \in Hosts :
            Locals(c, [Fresh EXCEPT !.pc = "pace", !.method = m, !.body = b, !.host = h])
      BY <1>1 DEF Start, Alone
    <2>2. call'[c] = [Fresh EXCEPT !.pc = "pace", !.method = m, !.body = b, !.host = h]
      BY <2>1, LocalsFields
    <2>3. call[c].pc = "idle" /\ \A d \in Calls : d # c => call'[d] = call[d]
      BY <1>1, <2>1, LocalsFields DEF Start
    <2>4. /\ call'[c].pc = "pace" /\ call'[c].hop = 0 /\ call'[c].attempt = 0
          /\ call'[c].tries = 0 /\ call'[c].lost = {} /\ call'[c].copies = 0
      BY <2>2 DEF Fresh
    <2> QED  BY <2>3, <2>4 DEF Moves
  <1>2. CASE Delay(c)
    <2>1. PICK w, t : Locals(c, [call[c] EXCEPT !.pc = "sleep", !.wake = w, !.slot = t])
      <3>1. PICK j : Locals(c, [call[c] EXCEPT !.pc = "sleep",
                                   !.wake = Larger(clock, Larger(clock, nxt[call[c].host]) + j),
                                   !.slot = Len(slots[call[c].host]) + 1])
        BY <1>2 DEF Delay
      <3> QED  BY <3>1
    <2>2. call'[c] = [call[c] EXCEPT !.pc = "sleep", !.wake = w, !.slot = t]
      BY <2>1, LocalsFields
    <2> QED  BY <1>0, <1>2, <2>1, <2>2, LocalsFields DEF Delay, Moves, Same, CallLocals
  <1>3. CASE SendOnce(c)
    <2>1. PICK to \in {"h3", "conn"}, n \in {0, 1} :
            /\ Locals(c, [call[c] EXCEPT !.pc = to, !.wake = 0, !.slot = 0, !.copies = n])
            /\ n = IF to = "h3" THEN Spare(call[c]) ELSE 0
      <3>1. CASE ShouldTryH3(call[c].host)
        <4>1. Locals(c, [call[c] EXCEPT !.pc = "h3", !.wake = 0, !.slot = 0,
                                        !.copies = IF ~call[c].body THEN 1 ELSE 0])
          BY <1>3, <3>1 DEF SendOnce
        <4>2. (IF ~call[c].body THEN 1 ELSE 0) = Spare(call[c])
          BY DEF Spare
        <4> QED  BY <4>1, <4>2
      <3>2. CASE ~ShouldTryH3(call[c].host)
        BY <1>3, <3>2 DEF SendOnce
      <3> QED  BY <3>1, <3>2
    <2>2. call'[c] = [call[c] EXCEPT !.pc = to, !.wake = 0, !.slot = 0, !.copies = n]
      BY <2>1, LocalsFields
    <2> QED  BY <1>0, <1>3, <2>1, <2>2, LocalsFields DEF SendOnce, Moves, Same, CallLocals
  <1>4. CASE H3Fail(c)
    <2>1. PICK how \in {"h3", "h3timeout"} :
            Locals(c, [call[c] EXCEPT !.pc = "conn", !.lost = IF call[c].body THEN @ ELSE @ \cup {how}])
      BY <1>4 DEF H3Fail, Alone
    <2>2. call'[c] = [call[c] EXCEPT !.pc = "conn", !.lost = IF call[c].body THEN @ ELSE @ \cup {how}]
      BY <2>1, LocalsFields
    <2>3. /\ Same(call[c], call'[c]) /\ call[c].tries = call'[c].tries
          /\ call[c].pc = "h3" /\ call'[c].pc = "conn" /\ call'[c].copies = call[c].copies
      BY <1>0, <1>4, <2>2 DEF H3Fail, Same, CallLocals
    <2>4. call'[c].lost = IF call[c].body THEN call[c].lost ELSE call[c].lost \cup {how}
      BY <1>0, <2>2 DEF CallLocals
    <2>5. \A d \in Calls : d # c => call'[d] = call[d]
      BY <2>1, LocalsFields
    <2> QED  BY <2>3, <2>4, <2>5 DEF Moves
  <1>5. CASE ConnFail(c) \/ Broken(c)
    <2>1. PICK how \in {{}, {"wire"}} : Retry(c, how)
      BY <1>5 DEF ConnFail, Broken
    <2>2. CASE call[c].tries + 1 < Attempts(c)
      <3> DEFINE new == [call[c] EXCEPT !.pc = "conn", !.tries = @ + 1, !.lost = @ \cup how]
      <3>1. Locals(c, new)
        BY <2>1, <2>2 DEF Retry, Alone
      <3>2. call'[c] = new
        BY <3>1, LocalsFields
      <3>3. call[c].method \in IDEMPOTENT /\ call[c].tries + 1 < Larger(1, Retries)
        BY <1>0, <2>2 DEF Attempts, CallLocals
      <3> QED  BY <1>0, <1>5, <3>1, <3>2, <3>3, LocalsFields DEF ConnFail, Broken, Moves, Same, CallLocals
    <2>3. CASE ~(call[c].tries + 1 < Attempts(c))
      <3>1. Locals(c, Ended)
        BY <2>1, <2>3 DEF Retry, Alone
      <3> QED  BY <1>5, <3>1, LocalsFields, EndedFields DEF ConnFail, Broken, Moves
    <2> QED  BY <2>2, <2>3
  <1>6. CASE Write(c)
    <2>1. Locals(c, [call[c] EXCEPT !.pc = "wire", !.copies = @ + 1])
      BY <1>6 DEF Write, Alone
    <2>2. call'[c] = [call[c] EXCEPT !.pc = "wire", !.copies = @ + 1]
      BY <2>1, LocalsFields
    <2> QED  BY <1>0, <1>6, <2>1, <2>2, LocalsFields DEF Write, Moves, Same, CallLocals
  <1>7. CASE TimedOut(c) \/ Unusable(c) \/ Cancel(c) \/ Return(c)
    <2>1. Locals(c, Ended)
      BY <1>7 DEF TimedOut, Unusable, Cancel, Return, Alone
    <2>2. call[c].pc # "ended"
      BY <1>7 DEF TimedOut, Unusable, Cancel, Return, Answered
    <2> QED  BY <2>1, <2>2, LocalsFields, EndedFields DEF Moves
  <1>8. CASE Backoff(c)
    <2>1. PICK w \in Waits :
            Locals(c, [call[c] EXCEPT !.pc = "backoff", !.attempt = @ + 1, !.tries = 0, !.wake = clock + w,
                                      !.copies = 0, !.lost = {}])
      BY <1>8 DEF Backoff, Alone
    <2>2. call'[c] = [call[c] EXCEPT !.pc = "backoff", !.attempt = @ + 1, !.tries = 0, !.wake = clock + w,
                                     !.copies = 0, !.lost = {}]
      BY <2>1, LocalsFields
    <2> QED  BY <1>0, <1>8, <2>1, <2>2, LocalsFields DEF Backoff, Answered, Moves, CallLocals
  <1>9. CASE Resume(c)
    <2>1. Locals(c, [call[c] EXCEPT !.pc = "pace", !.wake = 0])
      BY <1>9 DEF Resume, Alone
    <2>2. call'[c] = [call[c] EXCEPT !.pc = "pace", !.wake = 0]
      BY <2>1, LocalsFields
    <2> QED  BY <1>0, <1>9, <2>1, <2>2, LocalsFields DEF Resume, Moves, Same, CallLocals
  <1>10. CASE Redirect(c)
    <2>0. call[c].pc \in {"h3", "wire"}
      BY <1>10 DEF Redirect, Answered
    <2>1. \/ Locals(c, Ended)
          \/ \E m, to, b : Locals(c, [Fresh EXCEPT !.pc = "pace", !.method = m, !.host = to, !.body = b,
                                                  !.hop = call[c].hop + 1])
      BY <1>10 DEF Redirect
    <2>2. CASE Locals(c, Ended)
      BY <2>0, <2>2, LocalsFields, EndedFields DEF Moves
    <2>3. ASSUME NEW m, NEW to, NEW b,
                 Locals(c, [Fresh EXCEPT !.pc = "pace", !.method = m, !.host = to, !.body = b,
                                         !.hop = call[c].hop + 1])
          PROVE  Moves(call[c], call'[c]) /\ \A d \in Calls : d # c => call'[d] = call[d]
      <3>1. call'[c] = [Fresh EXCEPT !.pc = "pace", !.method = m, !.host = to, !.body = b,
                                     !.hop = call[c].hop + 1]
        BY <2>3, LocalsFields
      <3> QED  BY <2>0, <2>3, <3>1, LocalsFields DEF Moves, Fresh
    <2> QED  BY <2>1, <2>2, <2>3
  <1> QED  BY <1>1, <1>2, <1>3, <1>4, <1>5, <1>6, <1>7, <1>8, <1>9, <1>10 DEF Work

-----------------------------------------------------------------------------

\* Multiplication by the interval is monotone.
LEMMA TimesMonotone ==
    ASSUME NEW i \in Nat, NEW k \in Nat, NEW n \in Nat, i <= k
    PROVE  i * n <= k * n
  <1>1. PICK d \in Nat : k = i + d
    BY k - i \in Nat
  <1>2. k * n = i * n + d * n
    BY <1>1
  <1>3. d * n \in Nat /\ i * n \in Nat
    BY <1>1
  <1> QED  BY <1>2, <1>3

\* One more interval.
LEMMA TimesNext ==
    ASSUME NEW i \in Nat, NEW n \in Nat
    PROVE  (i + 1) * n = i * n + n /\ i * n \in Nat
  OBVIOUS

\* Of a host's slots s, each lies as many intervals after an earlier one as there are between
\* them, and so does the next free one, n.
Spaced(s, n) ==
    /\ \A i \in 1 .. Len(s) : s[i] + (Len(s) + 1 - i) * Interval <= n
    /\ \A i, k \in 1 .. Len(s) : i <= k => s[i] + (k - i) * Interval <= s[k]

\* Slots are spaced; a sleeping call wakes no earlier than its slot but for the jitter; and so
\* no round began earlier.
SlotInv ==
    \A h \in Hosts :
        /\ Spaced(slots[h], nxt[h])
        /\ \A k \in begun[h] : k \in 1 .. Len(slots[h]) /\ slots[h][k] <= clock + Jitter
        /\ \A c \in Calls : call[c].pc = "sleep" /\ call[c].host = h =>
              /\ call[c].slot \in 1 .. Len(slots[h])
              /\ slots[h][call[c].slot] <= call[c].wake + Jitter

\* Reserving a slot not before the next free one keeps them spaced.
LEMMA SpacedAppend ==
    ASSUME NEW s \in Seq(Nat), NEW n \in Nat, Spaced(s, n), NEW start \in Nat, start >= n
    PROVE  Spaced(Append(s, start), start + Interval)
  <1> DEFINE t == Append(s, start)
             l == Len(s)
  <1>1. Interval \in Nat
    BY RequestAssumption DEF RequestAssumption
  <1>2. l \in Nat /\ Len(t) = l + 1 /\ t[l + 1] = start /\ \A i \in 1 .. l : t[i] = s[i] /\ s[i] \in Nat
    OBVIOUS
  <1>3. \A i \in 1 .. l : s[i] + (l + 1 - i) * Interval <= n
    BY DEF Spaced
  <1>4. \A i, k \in 1 .. l : i <= k => s[i] + (k - i) * Interval <= s[k]
    BY DEF Spaced
  <1> HIDE DEF t, l
  <1>5. ASSUME NEW i \in 1 .. l + 1 PROVE t[i] + (l + 2 - i) * Interval <= start + Interval
    <2>1. CASE i \in 1 .. l
      <3>1. l + 1 - i \in Nat
        BY <1>2, <2>1
      <3>2. (l + 1 - i + 1) * Interval = (l + 1 - i) * Interval + Interval /\ (l + 1 - i) * Interval \in Nat
        BY <1>1, <3>1, TimesNext
      <3>3. l + 1 - i + 1 = l + 2 - i
        BY <1>2, <2>1
      <3>4. s[i] + (l + 1 - i) * Interval <= n /\ t[i] = s[i] /\ s[i] \in Nat
        BY <1>2, <1>3, <2>1
      <3> DEFINE x == (l + 1 - i) * Interval
      <3>5. (l + 2 - i) * Interval = x + Interval /\ x \in Nat
        BY <3>2, <3>3
      <3>6. s[i] + x <= n
        BY <3>4
      <3> HIDE DEF x
      <3>8. t[i] = s[i] /\ s[i] \in Nat /\ x \in Nat
        BY <3>4, <3>5
      <3>7. s[i] + (x + Interval) <= start + Interval
        BY <1>1, <3>6, <3>8
      <3> QED  BY <3>4, <3>5, <3>7
    <2>2. CASE i = l + 1
      <3>1. l + 2 - i = 1 /\ 1 * Interval = Interval
        BY <1>1, <1>2, <2>2
      <3> QED  BY <1>1, <1>2, <2>2, <3>1
    <2> QED  BY <1>2, <2>1, <2>2
  <1>6. ASSUME NEW i \in 1 .. l + 1, NEW k \in 1 .. l + 1, i <= k PROVE t[i] + (k - i) * Interval <= t[k]
    <2>1. CASE k \in 1 .. l
      <3>1. i \in 1 .. l
        BY <1>2, <1>6, <2>1
      <3> QED  BY <1>2, <1>4, <1>6, <2>1, <3>1
    <2>2. CASE k = l + 1 /\ i \in 1 .. l
      <3>1. l + 1 - i \in Nat
        BY <1>2, <2>2
      <3>2. (l + 1 - i) * Interval \in Nat
        BY <1>1, <3>1, TimesNext
      <3>3. s[i] + (l + 1 - i) * Interval <= n /\ s[i] \in Nat
        BY <1>2, <1>3, <2>2
      <3>4. s[i] + (l + 1 - i) * Interval <= start
        BY <3>2, <3>3
      <3>5. t[i] = s[i] /\ t[k] = start /\ k - i = l + 1 - i
        BY <1>2, <2>2
      <3> QED  BY <3>4, <3>5
    <2>3. CASE k = l + 1 /\ i = l + 1
      <3>1. (k - i) * Interval = 0
        BY <1>1, <1>2, <2>3
      <3> QED  BY <1>2, <2>3, <3>1
    <2> QED  BY <1>2, <2>1, <2>2, <2>3
  <1>7. Len(t) + 1 = l + 2 /\ 1 .. Len(t) = 1 .. l + 1
    BY <1>2
  <1>8. Spaced(t, start + Interval)
    <2>1. \A i \in 1 .. Len(t) : t[i] + (Len(t) + 1 - i) * Interval <= start + Interval
      <3> SUFFICES ASSUME NEW i \in 1 .. Len(t) PROVE t[i] + (Len(t) + 1 - i) * Interval <= start + Interval
        OBVIOUS
      <3>1. i \in 1 .. l + 1 /\ Len(t) + 1 - i = l + 2 - i
        BY <1>2, <1>7
      <3>2. t[i] + (l + 2 - i) * Interval <= start + Interval
        BY <1>5, <3>1
      <3> QED  BY <3>1, <3>2
    <2>2. \A i, k \in 1 .. Len(t) : i <= k => t[i] + (k - i) * Interval <= t[k]
      BY <1>6, <1>7
    <2> QED  BY <2>1, <2>2 DEF Spaced
  <1> QED  BY <1>8 DEF t

\* delay() keeps the slots apart, because it reserves after the last reservation.
LEMMA SlotDelay ==
    ASSUME TypeOK, SlotInv, NEW c \in Calls, Delay(c)
    PROVE  SlotInv'
  <1> DEFINE h == call[c].host
             start == Larger(clock, nxt[h])
             l == Len(slots[h])
  <1>1. h \in Hosts /\ slots[h] \in Seq(Nat) /\ nxt[h] \in Nat /\ clock \in Nat /\ l \in Nat
    BY DEF TypeOK, CallLocals
  <1>2. Interval \in Nat /\ Jitter \in Nat
    BY RequestAssumption DEF RequestAssumption
  <1>3. start \in Nat /\ start >= nxt[h]
    BY <1>1 DEF Larger
  <1>4. /\ nxt' = [nxt EXCEPT ![h] = start + Interval] /\ slots' = [slots EXCEPT ![h] = Append(@, start)]
        /\ clock' = clock /\ begun' = begun
    BY DEF Delay
  <1>5. PICK j \in (-Jitter) .. Jitter :
          Locals(c, [call[c] EXCEPT !.pc = "sleep", !.wake = Larger(clock, start + j), !.slot = l + 1])
    BY DEF Delay
  <1>6. Larger(clock, start + j) + Jitter >= start
    BY <1>1, <1>2, <1>3 DEF Larger
  <1> HIDE DEF start
  <1>7. Spaced(Append(slots[h], start), start + Interval)
    BY <1>1, <1>3, SpacedAppend DEF SlotInv
  <1>8. slots'[h] = Append(slots[h], start) /\ nxt'[h] = start + Interval
    BY <1>1, <1>4 DEF TypeOK
  <1>9. Len(slots'[h]) = l + 1 /\ slots'[h][l + 1] = start /\ \A i \in 1 .. l : slots'[h][i] = slots[h][i]
    BY <1>1, <1>3, <1>8
  <1>10. call' = [call EXCEPT ![c] = [call[c] EXCEPT !.pc = "sleep", !.wake = Larger(clock, start + j),
                                                     !.slot = l + 1]]
    BY <1>5 DEF Locals
  <1>11. call \in [Calls -> CallLocals]
    BY DEF TypeOK
  <1>12. ASSUME NEW g \in Hosts PROVE
            /\ Spaced(slots'[g], nxt'[g])
            /\ \A k \in begun'[g] : k \in 1 .. Len(slots'[g]) /\ slots'[g][k] <= clock' + Jitter
            /\ \A d \in Calls : call'[d].pc = "sleep" /\ call'[d].host = g =>
                  /\ call'[d].slot \in 1 .. Len(slots'[g])
                  /\ slots'[g][call'[d].slot] <= call'[d].wake + Jitter
    <2>1. CASE g = h
      <3>2. ASSUME NEW k \in begun'[g] PROVE k \in 1 .. Len(slots'[g]) /\ slots'[g][k] <= clock' + Jitter
        <4>1. k \in 1 .. l /\ slots[h][k] <= clock + Jitter
          BY <1>1, <1>4, <2>1, <3>2 DEF SlotInv
        <4> QED  BY <1>1, <1>4, <1>9, <2>1, <4>1
      <3>3. ASSUME NEW d \in Calls, call'[d].pc = "sleep", call'[d].host = g
            PROVE  /\ call'[d].slot \in 1 .. Len(slots'[g])
                   /\ slots'[g][call'[d].slot] <= call'[d].wake + Jitter
        <4>1. CASE d = c
          <5>1. call'[d].slot = l + 1 /\ call'[d].wake = Larger(clock, start + j)
            BY <1>10, <1>11, <4>1 DEF CallLocals
          <5>2. slots'[g][call'[d].slot] = start
            BY <1>9, <2>1, <5>1
          <5>3. Larger(clock, start + j) \in Int
            BY <1>1, <1>3 DEF Larger
          <5>4. start <= Larger(clock, start + j) + Jitter
            BY <1>2, <1>3, <1>6, <5>3
          <5>5. l + 1 \in 1 .. Len(slots'[g])
            BY <1>1, <1>9, <2>1
          <5> QED  BY <5>1, <5>2, <5>4, <5>5
        <4>2. CASE d # c
          <5>1. call'[d] = call[d]
            BY <1>10, <1>11, <4>2
          <5>2. call[d].slot \in 1 .. l /\ slots[h][call[d].slot] <= call[d].wake + Jitter
            BY <1>1, <2>1, <3>3, <5>1 DEF SlotInv
          <5>3. call[d].slot \in 1 .. Len(slots'[g])
            BY <1>1, <1>9, <2>1, <5>2
          <5>4. slots'[g][call[d].slot] = slots[h][call[d].slot]
            BY <1>9, <2>1, <5>2
          <5> QED  BY <5>1, <5>2, <5>3, <5>4
        <4> QED  BY <4>1, <4>2
      <3> QED  BY <1>7, <1>8, <2>1, <3>2, <3>3
    <2>2. CASE g # h
      <3>1. slots'[g] = slots[g] /\ nxt'[g] = nxt[g] /\ begun'[g] = begun[g]
        BY <1>1, <1>4, <2>2 DEF TypeOK
      <3>2. ASSUME NEW d \in Calls, call'[d].pc = "sleep", call'[d].host = g
            PROVE  call'[d] = call[d]
        <4>1. call'[c].host = h
          BY <1>10, <1>11 DEF CallLocals
        <4> QED  BY <1>10, <1>11, <2>2, <3>2, <4>1
      <3> QED  BY <1>4, <3>1, <3>2 DEF SlotInv
    <2> QED  BY <2>1, <2>2
  <1> QED  BY <1>12 DEF SlotInv

\* A round begins when its sleep is over, so not before its slot but for the jitter.
LEMMA SlotSend ==
    ASSUME TypeOK, SlotInv, NEW c \in Calls, SendOnce(c)
    PROVE  SlotInv'
  <1> DEFINE h == call[c].host
  <1>1. h \in Hosts /\ call[c].slot \in Nat /\ call[c].wake \in Nat /\ clock \in Nat
    BY DEF TypeOK, CallLocals
  <1>2. begun' = [begun EXCEPT ![h] = @ \cup {call[c].slot}] /\ UNCHANGED <<clock, nxt, slots>>
    BY DEF SendOnce
  <1>3. call[c].slot \in 1 .. Len(slots[h]) /\ slots[h][call[c].slot] <= call[c].wake + Jitter
    BY <1>1 DEF SlotInv, SendOnce
  <1>4. slots[h][call[c].slot] <= clock + Jitter
    <2>1. Jitter \in Nat /\ slots[h] \in Seq(Nat)
      BY <1>1, RequestAssumption DEF RequestAssumption, TypeOK
    <2>2. slots[h][call[c].slot] \in Nat
      BY <1>3, <2>1
    <2>3. clock >= call[c].wake
      BY DEF SendOnce
    <2> DEFINE x == slots[h][call[c].slot]
               w == call[c].wake
    <2>4. x \in Nat /\ w \in Nat /\ x <= w + Jitter /\ clock >= w
      BY <1>1, <1>3, <2>2, <2>3
    <2> HIDE DEF x, w
    <2>5. x <= clock + Jitter
      BY <1>1, <2>1, <2>4
    <2> QED  BY <2>5 DEF x
  <1>5. ASSUME NEW d \in Calls, call'[d].pc = "sleep" PROVE call'[d] = call[d]
    <2>1. call'[c].pc # "sleep"
      BY DEF SendOnce, Locals, TypeOK, CallLocals
    <2> QED  BY <1>5, <2>1 DEF SendOnce, Locals, TypeOK
  <1>6. ASSUME NEW g \in Hosts, NEW k \in begun'[g]
        PROVE  k \in 1 .. Len(slots[g]) /\ slots[g][k] <= clock + Jitter
    <2>1. k \in begun[g] \/ (g = h /\ k = call[c].slot)
      BY <1>1, <1>2, <1>6 DEF TypeOK
    <2>2. CASE k \in begun[g]
      BY <2>2 DEF SlotInv
    <2>3. CASE g = h /\ k = call[c].slot
      BY <1>3, <1>4, <2>3
    <2> QED  BY <2>1, <2>2, <2>3
  <1> QED  BY <1>2, <1>5, <1>6 DEF SlotInv

\* All other steps leave the slots alone, and no call begins to sleep before its slot.
LEMMA SlotStep == TypeOK /\ SlotInv /\ [Next]_vars => SlotInv'
  <1> SUFFICES ASSUME TypeOK, SlotInv, [Next]_vars PROVE SlotInv'
    OBVIOUS
  <1>1. ASSUME NEW c \in Calls, Start(c) \/ Work(c) \/ Cancel(c), call'[c].pc # "sleep",
               UNCHANGED <<clock, nxt, slots, begun>>
        PROVE  SlotInv'
    <2>1. ASSUME NEW d \in Calls, call'[d].pc = "sleep" PROVE call'[d] = call[d]
      BY <1>1, <2>1, CallMoves
    <2> QED  BY <1>1, <2>1 DEF SlotInv
  <1>3. ASSUME NEW c \in Calls, Start(c) \/ Work(c) \/ Cancel(c), ~Delay(c), ~SendOnce(c)
        PROVE  SlotInv'
    <2>1. UNCHANGED <<clock, nxt, slots, begun>>
      BY <1>3 DEF Start, Work, H3Fail, ConnFail, Write, Broken, Retry, TimedOut, Unusable, Backoff, Resume,
                  Redirect, Return, Cancel, Alone, history
    <2>2. call[c].pc # "pace"
      BY <1>3 DEF Start, Work, H3Fail, ConnFail, Write, Broken, TimedOut, Unusable, Backoff, Resume,
                  Redirect, Return, Cancel, Answered
    <2>3. call'[c].pc # "sleep"
      BY <1>3, <2>2, CallMoves DEF Moves
    <2> QED  BY <1>1, <1>3, <2>1, <2>3
  <1>5. CASE Tick
    <2>1. clock' = clock + 1 /\ clock \in Nat /\ UNCHANGED <<call, nxt, slots, begun>>
      BY <1>5 DEF Tick, TypeOK, history
    <2>2. ASSUME NEW h \in Hosts, NEW k \in begun[h]
          PROVE  k \in 1 .. Len(slots[h]) /\ slots[h][k] <= clock' + Jitter
      <3>1. k \in 1 .. Len(slots[h]) /\ slots[h][k] <= clock + Jitter
        BY <2>2 DEF SlotInv
      <3>2. Jitter \in Nat /\ slots[h] \in Seq(Nat)
        BY RequestAssumption DEF RequestAssumption, TypeOK
      <3>3. slots[h][k] \in Nat
        BY <3>1, <3>2
      <3> QED  BY <2>1, <3>1, <3>2, <3>3
    <2> QED  BY <2>1, <2>2 DEF SlotInv
  <1>6. CASE UNCHANGED vars
    BY <1>6 DEF vars, SlotInv
  <1> QED
    BY <1>3, <1>5, <1>6, SlotDelay, SlotSend DEF Next, Terminated

\* Rounds that all keep to their slots are not more than the time since any one of them
\* allows: more would not fit between its slot and the last that may have begun.
LEMMA SlotsPace == TypeOK /\ SlotInv => Paced
  <1> DEFINE Rounds(h, i) == {k \in begun[h] : k >= i}
  <1> SUFFICES ASSUME TypeOK, SlotInv, NEW h \in Hosts, NEW i \in begun[h]
               PROVE  (Cardinality(Rounds(h, i)) - 1) * Interval <= clock - slots[h][i] + Jitter
    BY DEF Paced
  <1> DEFINE l == Len(slots[h])
             s == slots[h]
  <1>1. Interval \in Nat /\ Jitter \in Nat /\ s \in Seq(Nat) /\ clock \in Nat /\ l \in Nat
    BY RequestAssumption DEF RequestAssumption, TypeOK
  <1>2. \A k \in begun[h] : k \in 1 .. l /\ s[k] <= clock + Jitter /\ s[k] \in Nat
    <2>1. \A k \in begun[h] : k \in 1 .. l /\ s[k] <= clock + Jitter
      BY DEF SlotInv
    <2>2. \A k \in 1 .. l : s[k] \in Nat
      BY <1>1
    <2> QED  BY <2>1, <2>2
  <1>3. \A k \in 1 .. l : i <= k => s[i] + (k - i) * Interval <= s[k]
    BY <1>2 DEF SlotInv, Spaced
  <1> DEFINE R == Rounds(h, i)
             n == Cardinality(R)
  <1>4. R \subseteq 1 .. l /\ IsFiniteSet(R) /\ i \in R
    <2>1. R \subseteq 1 .. l /\ i \in R
      BY <1>1, <1>2
    <2>2. IsFiniteSet(1 .. l)
      BY <1>1, FS_Interval
    <2> QED  BY <2>1, <2>2, FS_Subset
  <1>5. n \in Nat /\ n > 0
    BY <1>4, FS_CardinalityType, FS_EmptySet
  <1>6. \A k \in R : k \in 1 .. l /\ i <= k /\ s[i] + (k - i) * Interval <= clock + Jitter
    <2> SUFFICES ASSUME NEW k \in R PROVE s[i] + (k - i) * Interval <= clock + Jitter
      BY <1>2, <1>4
    <2>1. k \in 1 .. l /\ i \in 1 .. l /\ i <= k
      BY <1>2, <1>4
    <2>2. s[i] + (k - i) * Interval <= s[k] /\ s[k] <= clock + Jitter /\ s[i] \in Nat /\ s[k] \in Nat
      BY <1>2, <1>3, <1>4, <2>1
    <2>3. k - i \in Nat
      BY <2>1
    <2>4. (k - i) * Interval \in Nat
      BY <1>1, <2>3, TimesNext
    <2> DEFINE x == (k - i) * Interval
    <2>5. x \in Nat /\ s[i] + x <= s[k]
      BY <2>2, <2>4
    <2> HIDE DEF x, s
    <2>6. s[i] + x <= clock + Jitter
      BY <1>1, <2>2, <2>5
    <2> QED  BY <2>6 DEF x
  <1>7. s[i] \in Nat /\ i \in 1 .. l
    BY <1>2
  <1> HIDE DEF n, R, s, l
  <1>8. SUFFICES ASSUME (n - 1) * Interval > clock - s[i] + Jitter PROVE FALSE
    <2>1. n - 1 \in Nat
      BY <1>5
    <2>2. (n - 1) * Interval \in Nat
      BY <1>1, <2>1, TimesNext
    <2>3. (n - 1) * Interval <= clock - s[i] + Jitter
      BY <1>1, <1>7, <1>8, <2>2
    <2> QED  BY <2>3 DEF n, R, s
  <1>9. R \subseteq i .. i + n - 2
    <2> SUFFICES ASSUME NEW k \in R, k > i + n - 2 PROVE FALSE
      BY <1>1, <1>5, <1>6, <1>7
    <2>0. k \in 1 .. l /\ i <= k /\ i \in 1 .. l
      BY <1>6, <1>7
    <2>1. k \in Nat /\ i \in Nat /\ n - 1 \in Nat /\ k - i \in Nat /\ n - 1 <= k - i
      BY <1>1, <1>5, <2>0
    <2>2. (n - 1) * Interval <= (k - i) * Interval
      BY <1>1, <2>1, TimesMonotone
    <2>3. s[i] + (k - i) * Interval <= clock + Jitter
      BY <1>6
    <2>4. (k - i) * Interval \in Nat /\ (n - 1) * Interval \in Nat
      BY <1>1, <2>1, TimesNext
    <2> DEFINE x == (k - i) * Interval
               y == (n - 1) * Interval
    <2>5. x \in Nat /\ y \in Nat /\ y <= x /\ s[i] + x <= clock + Jitter /\ y > clock - s[i] + Jitter
      BY <1>8, <2>2, <2>3, <2>4
    <2> HIDE DEF x, y
    <2> QED  BY <1>1, <1>7, <2>5
  <1>10. IsFiniteSet(i .. i + n - 2) /\ Cardinality(i .. i + n - 2) = n - 1
    <2> DEFINE b == i + n - 2
    <2>1. i \in Int /\ b \in Int /\ b - i + 1 = n - 1 /\ (i > b => n - 1 = 0)
      BY <1>1, <1>5, <1>7
    <2> HIDE DEF b
    <2>2. Cardinality(i .. b) = IF i > b THEN 0 ELSE b - i + 1
      BY <2>1, FS_Interval
    <2>3. IsFiniteSet(i .. b)
      BY <2>1, FS_Interval
    <2>4. Cardinality(i .. b) = n - 1
      BY <2>1, <2>2
    <2> QED  BY <2>3, <2>4 DEF b
  <1>11. n <= n - 1
    <2>1. Cardinality(R) <= Cardinality(i .. i + n - 2)
      BY <1>9, <1>10, FS_Subset
    <2> QED  BY <1>10, <2>1 DEF n
  <1> QED  BY <1>5, <1>11

\* Per host, rounds of _do_hop begin no faster than the RateLimiter's interval allows but for
\* one jitter, counted from any of them, for any number of calls, whichever redirects and
\* backoffs they come from. (Retries and the HTTP/3 fallback within a round are not counted.)
THEOREM RoundsPaced == Spec => []Paced
  <1>1. Init => SlotInv
    <2> SUFFICES ASSUME Init PROVE SlotInv
      OBVIOUS
    <2>1. \A h \in Hosts : slots[h] = <<>> /\ begun[h] = {}
      BY DEF Init
    <2>2. \A c \in Calls : call[c].pc = "idle"
      BY DEF Init, Fresh
    <2>3. \A h \in Hosts : Spaced(slots[h], nxt[h])
      BY <2>1 DEF Spaced
    <2> QED  BY <2>1, <2>2, <2>3 DEF SlotInv
  <1> QED  BY <1>1, SlotStep, SlotsPace, TypeCorrect, PTL DEF Spec

-----------------------------------------------------------------------------

\* How a copy of the present request can have been left unanswered while the call
\* goes on: not by a timeout on a connection, by a broken one only if the method is
\* idempotent, and over HTTP/3 only without a body.
LostInv ==
    \A c \in Calls :
        /\ "timeout" \notin call[c].lost
        /\ "wire" \in call[c].lost => call[c].method \in IDEMPOTENT
        /\ call[c].body => call[c].lost \cap {"h3", "h3timeout"} = {}

\* Only Retry and the HTTP/3 fallback add to what was lost.
LEMMA LostStep == TypeOK /\ LostInv /\ [Next]_vars => LostInv'
  <1> SUFFICES ASSUME TypeOK, LostInv, [Next]_vars PROVE LostInv'
    OBVIOUS
  <1>3. ASSUME NEW c \in Calls, Start(c) \/ Work(c) \/ Cancel(c) PROVE LostInv'
    <2>1. Moves(call[c], call'[c]) /\ \A d \in Calls : d # c => call'[d] = call[d]
      BY <1>3, CallMoves
    <2>2. /\ "timeout" \notin call[c].lost
          /\ "wire" \in call[c].lost => call[c].method \in IDEMPOTENT
          /\ call[c].body => call[c].lost \cap {"h3", "h3timeout"} = {}
      BY DEF LostInv
    <2>3. /\ "timeout" \notin call'[c].lost
          /\ "wire" \in call'[c].lost => call'[c].method \in IDEMPOTENT
          /\ call'[c].body => call'[c].lost \cap {"h3", "h3timeout"} = {}
      BY <2>1, <2>2 DEF Moves, Same
    <2> QED  BY <2>1, <2>3 DEF LostInv
  <1>4. CASE call' = call
    BY <1>4 DEF LostInv
  <1> QED  BY <1>3, <1>4 DEF Next, Tick, Terminated, vars

\* What may be sent again after a copy was given to a connection: nothing after a timeout, an
\* idempotent request only after a break; and a request with a body never went over HTTP/3.
THEOREM ResendingIsSafe == Spec => ResentOnlyIf
  <1>1. Init => LostInv
    BY DEF Init, Fresh, LostInv
  <1>2. LostInv => \A c \in Calls :
          Handed(c) =>
             /\ "timeout" \notin call[c].lost
             /\ "wire" \in call[c].lost => call[c].method \in IDEMPOTENT
             /\ call[c].body => call[c].lost \cap {"h3", "h3timeout"} = {}
    BY DEF LostInv
  <1>3. LostInv /\ [Next]_vars => [\A c \in Calls :
          Handed(c) =>
             /\ "timeout" \notin call[c].lost
             /\ "wire" \in call[c].lost => call[c].method \in IDEMPOTENT
             /\ call[c].body => call[c].lost \cap {"h3", "h3timeout"} = {}]_vars
    BY <1>2
  <1> QED  BY <1>1, <1>3, LostStep, TypeCorrect, PTL DEF Spec, ResentOnlyIf

-----------------------------------------------------------------------------

\* How many copies a round has handed out at each place: at most one for each attempt that
\* failed, one for the present one, and one for HTTP/3.
CountInv ==
    \A c \in Calls :
        /\ call[c].tries < Attempts(c)
        /\ call[c].pc = "h3" => call[c].copies <= Spare(call[c])
        /\ call[c].pc = "conn" => call[c].copies <= call[c].tries + Spare(call[c])
        /\ call[c].pc = "wire" => call[c].copies <= call[c].tries + 1 + Spare(call[c])
        /\ call[c].pc \notin {"h3", "conn", "wire"} => call[c].copies = 0

\* Only Retry counts a try, and only SendOnce and Write hand out a copy.
LEMMA CountStep == TypeOK /\ CountInv /\ [Next]_vars => CountInv'
  <1> SUFFICES ASSUME TypeOK, CountInv, [Next]_vars PROVE CountInv'
    OBVIOUS
  <1>1. Larger(1, Retries) \in Nat /\ Larger(1, Retries) >= 1
    BY RequestAssumption DEF RequestAssumption, Larger
  <1>2. ASSUME NEW c \in Calls, Start(c) \/ Work(c) \/ Cancel(c) PROVE CountInv'
    <2>1. Moves(call[c], call'[c]) /\ \A d \in Calls : d # c => call'[d] = call[d]
      BY <1>2, CallMoves
    <2> DEFINE x == call[c]
               y == call'[c]
    <2>2. x.tries \in Nat /\ x.copies \in Nat /\ Spare(x) \in {0, 1}
      BY <1>1 DEF TypeOK, CallLocals, Spare
    <2>3. /\ x.tries < (IF x.method \in IDEMPOTENT THEN Larger(1, Retries) ELSE 1)
          /\ x.pc = "h3" => x.copies <= Spare(x)
          /\ x.pc = "conn" => x.copies <= x.tries + Spare(x)
          /\ x.pc = "wire" => x.copies <= x.tries + 1 + Spare(x)
          /\ x.pc \notin {"h3", "conn", "wire"} => x.copies = 0
      BY DEF CountInv, Attempts
    <2>4. x.body = y.body => Spare(y) = Spare(x)
      BY DEF Spare
    <2>5. Moves(x, y)
      BY <2>1
    <2> HIDE DEF x, y
    <2>6. y.tries < (IF y.method \in IDEMPOTENT THEN Larger(1, Retries) ELSE 1)
      BY <1>1, <2>2, <2>3, <2>5 DEF Moves, Same
    <2>7. /\ y.pc = "h3" => y.copies <= Spare(y)
          /\ y.pc = "conn" => y.copies <= y.tries + Spare(y)
          /\ y.pc = "wire" => y.copies <= y.tries + 1 + Spare(y)
          /\ y.pc \notin {"h3", "conn", "wire"} => y.copies = 0
      BY <2>2, <2>3, <2>4, <2>5 DEF Moves, Same
    <2> QED  BY <2>1, <2>6, <2>7 DEF CountInv, Attempts, x, y
  <1>3. CASE call' = call
    BY <1>3 DEF CountInv, Attempts
  <1> QED  BY <1>2, <1>3 DEF Next, Tick, Terminated, vars

\* A slot lets through no more copies of a request than its attempts and one over HTTP/3, for
\* any number of retries: one of a POST with a body, two of one without.
THEOREM CopiesBounded == Spec => []CopiesPerRound
  <1>1. Init => CountInv
    <2>1. Larger(1, Retries) \in Nat /\ Larger(1, Retries) >= 1
      BY RequestAssumption DEF RequestAssumption, Larger
    <2> QED  BY <2>1 DEF Init, Fresh, CountInv, Attempts
  <1>2. TypeOK /\ CountInv => CopiesPerRound
    <2> SUFFICES ASSUME TypeOK, CountInv, NEW c \in Calls
                 PROVE  call[c].copies <= Attempts(c) + Spare(call[c])
      BY DEF CopiesPerRound, Spare
    <2>1. Larger(1, Retries) \in Nat /\ Larger(1, Retries) >= 1
      BY RequestAssumption DEF RequestAssumption, Larger
    <2>2. Attempts(c) \in Nat /\ call[c].tries \in Nat /\ call[c].copies \in Nat /\ Spare(call[c]) \in {0, 1}
      BY <2>1 DEF Attempts, TypeOK, CallLocals, Spare
    <2> QED  BY <2>2 DEF CountInv
  <1> QED  BY <1>1, <1>2, CountStep, TypeCorrect, PTL DEF Spec

-----------------------------------------------------------------------------

\* A call that has not begun has fresh locals.
IdleInv == \A c \in Calls : call[c].pc = "idle" => call[c] = Fresh

\* No step leads back to idle.
LEMMA IdleStep == TypeOK /\ IdleInv /\ [Next]_vars => IdleInv'
  <1> SUFFICES ASSUME TypeOK, IdleInv, [Next]_vars PROVE IdleInv'
    OBVIOUS
  <1>1. ASSUME NEW c \in Calls, Start(c) \/ Work(c) \/ Cancel(c) PROVE IdleInv'
    <2>1. call'[c].pc # "idle"
      BY <1>1, CallMoves DEF Moves
    <2> QED  BY <1>1, <2>1, CallMoves DEF IdleInv
  <1>2. CASE call' = call
    BY <1>2 DEF IdleInv
  <1> QED  BY <1>1, <1>2 DEF Next, Tick, Terminated, vars

\* Every step moves every call on, or leaves it alone.
LEMMA LaterStep == TypeOK /\ IdleInv /\ [Next]_vars => \A d \in Calls : Later(call[d], call'[d])
  <1> SUFFICES ASSUME TypeOK, IdleInv, [Next]_vars, NEW d \in Calls PROVE Later(call[d], call'[d])
    OBVIOUS
  <1>1. CASE call'[d] = call[d]
    BY <1>1 DEF Later
  <1>2. ASSUME NEW c \in Calls, Start(c) \/ Work(c) \/ Cancel(c) PROVE Later(call[d], call'[d])
    <2>1. CASE d # c
      BY <1>1, <1>2, <2>1, CallMoves
    <2>2. CASE d = c
      <3> DEFINE x == call[d]
                 y == call'[d]
      <3>1. Moves(x, y)
        BY <1>2, <2>2, CallMoves
      <3>2. x.pc = "idle" => x.hop = 0 /\ x.attempt = 0 /\ x.tries = 0
        <4>1. x.pc = "idle" => x = Fresh
          BY DEF IdleInv
        <4> QED  BY <4>1 DEF Fresh
      <3>3. x.hop \in Nat /\ x.attempt \in Nat /\ x.tries \in Nat
        <4>1. x \in CallLocals
          BY DEF TypeOK
        <4> QED  BY <4>1, RequestAssumption DEF CallLocals, RequestAssumption
      <3>4. x.pc \in {"idle", "pace", "sleep", "h3", "conn", "wire", "backoff", "ended"}
        BY DEF TypeOK, CallLocals
      <3>5. Later(x, y)
        <4> HIDE DEF x, y
        <4> QED  BY <3>1, <3>2, <3>3, <3>4 DEF Moves, Same, Later, Place
      <3> QED  BY <3>5
    <2> QED  BY <2>1, <2>2
  <1> QED  BY <1>1, <1>2 DEF Next, Tick, Terminated, vars

\* The loops of request, _do_hop and _send_once end together: each step of a call ends it
\* or moves it on in the order of (redirects, backoff, tries, place).
THEOREM CallsAdvance == Spec => Advances
  <1>1. Init => IdleInv
    BY DEF Init, IdleInv
  <1>2. TypeOK /\ IdleInv /\ [Next]_vars => [MovesOn]_vars
    BY LaterStep DEF MovesOn
  <1> QED  BY <1>1, <1>2, IdleStep, TypeCorrect, PTL DEF Spec, Advances
=============================================================================
