# never_fox in TLA+

never_fox is an HTTP client that presents itself to servers as Firefox: a Python package
(`never_fox/`) over a small C library around NSS (`native/fxtls_lib.c`), and, for HTTP/3,
patched files of Mozilla's neqo and nss-rs (`native/h3/files/`). This directory holds
TLA+ models of its concurrent and stateful parts, the TLC runs that check them on small
instances, and TLAPS proofs for every instance.

| module | what it is |
|---|---|
| `H2Conn`, `MCH2Conn`, `H2ConnProofs`, `H2FramesProofs` | one HTTP/2 connection: reader thread, calls, closers |
| `Pool`, `MCPool`, `PoolProofs` | the connection pool of a session |
| `Request`, `MCRequest`, `RequestProofs` | `Session.request`: attempts, retries, backoff, redirects, rate limit |
| `CryptoStreams`, `MCCryptoStreams`, `CryptoStreamsProofs` | CRYPTO frames over an unreliable network |
| `ByteChannel` | what CryptoStreams promises: a reliable ordered channel per space |
| `PacketNumbers` | the range of packet numbers a key has used |
| `InitialKeys` | Initial and Handshake keys, versions and Retry |
| `Agent` | the NSS agent as QUIC uses it |
| `Crypto`, `MCCrypto`, `CryptoProofs`, `CryptoVersionProofs` | the client handshake, composed of Agent and InitialKeys |
| `KeyUpdate`, `MCKeyUpdate`, `KeyUpdateProofs` | 0-RTT and 1-RTT keys of a QUIC connection |

`X_<run>.cfg` or `X.cfg` are the passing runs and `X_v_<name>.cfg` those in which TLC
refutes what a comment of the code says. `PROJECT.json` maps every definition to its
source lines, and lists the hazards, the mutants that show each property can fail, and
the findings.

## 1. Inventory

**HTTP/2 connection** (`never_fox/h2conn.py`). State: `closed`, `_closing`, `_refs`,
`_streams`, `_next_id`, `max_concurrent`, `goaway_last`, the HPACK codecs, the header
block being continued, `_slock`, `_send_lock`. Operations: `acquire`, `_send`
(`request`, `send_async`), `release`, `_pop`, `_rst`, `_dispatch` per frame, `_fail_all`,
`_teardown_transport`, `close`. Threads: one reader, any number of callers, the asyncio
loop, any number of closers. Hard: the transport is a C pointer that must not be freed
under a reader or writer; a stream may be finished by five different events; timeouts
race answers. Correct means: complete responses only, final outcomes, exact reference
counts, no use after free, every call returns, close() ends.

**ctypes transport** (`never_fox/_native.py`, contract with `native/fxtls_lib.c`). State:
`ctx`, `_stop`. `recvn` waits in slices of 250 ms and looks at `_stop` in between;
`write` is unbounded; `close` frees. One reader and one writer may be inside at once.

**Connection pool** (`never_fox/client.py:224-316,455-469`, `never_fox/aio.py:40-80`).
State: `_pool`, `_draining`, `_creating`, one condition variable. Operations:
`_existing_conn`, `_get_conn`, `_evict_closed`, `_reap`, `close`. Hard: one connector per
key, whichever way it ends; connections that go away while others use them. Correct
means: every open connection is in exactly one place, nobody waits for ever, bursts share
connections.

**Request loop, rate limiter, Alt-Svc cache** (`client.py:89-118,316-455`, `aio.py`,
`h3.py`). State: the locals of every call (method, body, redirects, backoffs and tries
left), the next free slot per host, the hosts known to speak HTTP/3. Operations: one
request through three nested loops: redirects around backoff around attempts; an attempt
over HTTP/3 with fallback, a connection failure, a broken write, a timeout. Hard: what may
be sent twice; many calls share one rate. Correct means: the rate holds over all calls,
unsafe requests are not repeated, the loops end.

**QUIC CRYPTO streams** (`neqo-transport/src/crypto.rs:1400-1761`). State per space: bytes
written, what of them is sent and acknowledged, what arrived and what was read.
Operations: `send`, `write_frame` (with the slicing of the server name), `acked`, `lost`,
`resend_unacked`, `discard`, `inbound_frame`, `read_to_end`. Hard: acknowledgement, loss
and resend of overlapping pieces in any order. Correct means: what is read is a prefix of
what was written, nothing is forgotten, everything arrives.

**QUIC handshake** (`crypto.rs:60-480`, `CryptoStates` for Initial and Handshake, the
agent of `nss-rs/src/agent.rs`). State: the agent's handshake state, queued records, the
secrets handed out, an alert, the authentication hook, ECH, Initial keys by version,
Handshake keys, tokens. Operations: `handshake`, `authenticated`, `confirm_version`,
`install_keys`, `install_application_keys`, `discard`, tickets. Hard: NSS may fail at any
step, the verdict on the certificate comes later and from elsewhere, versions change
while packets of the old one are on their way. Correct means: no application keys before
the certificate is accepted, no packet number twice, keys once and in order, the handshake
ends.

**QUIC packet protection** (`crypto.rs:480-1400`). State per key: epoch, range of packet
numbers used, minimum, invocations left, largest packet; per connection: Initial keys by
version, Handshake, 0-RTT, 1-RTT write, read and next read, the rotation timer.
Operations: install, encrypt, decrypt, update (ours, forced by the limit, the peer's),
rotate, check overlap. Hard: both ends update on their own, packets are reordered over an
update, limits are counted over several keys. Correct means: both directions in step,
numbers never reused, accepted numbers rise over updates, limits kept.

**Cookie jar** (`cookies.py`): a dictionary shared by threads without a lock. **HTTP/1.1**
(`http1.py`): sequential framing; hard only at truncated bodies. **Native engine**
(`fxtls_lib.c`): global initialisation, which importing `_native.py` runs through
`fxtls_have_roots()` before any connect, connecting, proxy dialogue.

**Not part of the client's behaviour**: build, packaging and verification scripts, the
measurement harness, FFI declarations and numeric constants.

The parts interact so: `Session.request` waits for its rate slot, asks the pool for a
connection (`_get_conn`), sends on it and waits; the connection's reader thread wakes it
(an event, or a future through `call_soon_threadsafe`); `_reap` and `Session.close` close
connections from other threads; the reader frees the transport as its last step, a closer
only if the reader is already gone. The QUIC parts live inside the prebuilt HTTP/3 bridge,
one request at a time: the handshake feeds NSS with what the CRYPTO streams deliver,
installs the keys NSS hands out, and ends the Initial and Handshake spaces.

## 2. The models

### H2Conn

One step is one `with _slock:` block, or what lies between two points where another
thread can matter. `_send_lock` is held over the native write, so it is a variable
(`sendLock`) and a write has a beginning and an end.

* Calls (`Reqs`): `Acquire` → `SendCheck` (closed? 194) → `SendLock` (lock, id, stream
  registered, HPACK) → `SendWrite`, `SendWritten` → `Release` → `Deliver`, or `Expire` →
  `RstCheck`, `RstLock`, `RstWritten` → `PopExpired`. The calls in `Async` run on the
  asyncio loop: only one is inside inline code (`LoopFree`), and `Abandon` is a task
  cancelled after its connection was acquired. `Connector` is the call that created the
  connection; `client.py:307` ignores what its `acquire()` returns, so its `release()` may
  run without a reference. When it was refused for good (`Barred`: closed, going away, ids
  used up) nobody else holds one; when it was refused because the peer allowed 0 streams
  (history variable `starved`) somebody may later, and `RefsExact` and `FreeGuarded` grant
  the count that one missing reference (`Stolen`).
* Reader: `Recv*` for each frame type, then lock, write, and what follows the write;
  `RecvEof`, `RecvStop` (stop flag at a read timeout); `FailAll`, `ReaderDrain`,
  `ReaderFree`.
* Closers: `CloseBegin`, `CloseStop`, `CloseCheck`, `CloseJoin`, and, if the reader is
  gone, `CloseFailAll`, `CloseDrain`, `CloseFree`.

Data is abstracted: a DATA payload is one unit; HPACK is whether a header block was fed to
the decoder (`missed`), and whether a response was decoded after that (`garbled`); frame
encoding is left out. The peer conforms to HTTP/2 in what it sends on a stream, except
that it may do so at any time, in any order over streams, and go away: with the last id it
took, or gracefully with the highest id there is, after which calls still open streams.

Bounds: two calls (one blocking, one asyncio) for the frames, because every race there is
between two streams; three DATA units against a cap of one, so that the cap is passed,
cancelled and passed again; one call and one closer for teardown and liveness, because a
closer races one holder at a time. `SidLimit` 9 lies above every id used. In the two passing
runs the peer keeps its first limit of streams; it announces 0 and 2 in `h2conn_midwrite`.
The proofs hold for any number of calls and closers and any limits.

### Pool

One step is one `with _lock:` block; `Condition.wait` is the state `waiting`, left by a
notification or its timeout. A connection is seen from outside only: `live`, `goaway`,
`stopping`, `dead`. Calls with a key (`KeyOf`) look up, wait, connect (which may succeed,
fail, yield HTTP/1.1, or never return), test `closed` (`Send`), register their stream
(`Open`) and return; between the two the connection may have died, and the call then waits
for its timeout; `Async` calls try the warm path first; any call
on a cold path reaps; closers run `Session.close`. `Faults` switches failures on.

Bounds: three calls, two keys, two connections, so that a waiter, a connector and a call
on another key exist together and one connection is replaced; two streams per connection.

### Request

A call's locals are one record, `call[c]`: its place, method, body, and how many redirects,
backoffs and tries it has used. `Start`, `Delay` (the slot reserved in `RateLimiter.delay`
and the sleep), `SendOnce` (which protocol), `H3Fail` (fallback), `ConnFail`, `Write`,
`Broken`, `TimedOut`, `Unusable`, `Backoff`, `Resume`, `Redirect`, `Return`; `Cancel` for
asyncio calls; `Tick` moves the clock. `nxt` is `RateLimiter._next`, `h3hosts` the Alt-Svc
cache. History, per host: when each slot reserved so far is (`slots`), and in which of them a
round began (`begun`); per call: its slot, how many copies of the request this `_send_once`
handed to a connection or to neqo-client (`copies`), and how they were left without an answer
(`lost`): on a broken connection, or with neqo-client, whose timeout (`h3.py:165`) is told
apart.

Time passes only while a call sleeps, which is the worst case for the rate: work between
two sleeps takes no time. A single attempt either answers or raises: that it does so at all
is `EveryCallReturns` of H2Conn and `GetConnReturns` of Pool. `Unusable` stands for every
exception after the response is there (decoding, the cookie jar). A call without
`allow_redirects` is one that returns where it could redirect. The stripping of headers and
credentials on a redirect, cookies and encodings are data and left out. `Interval` 0 is a
session without a limit.

Bounds: two calls to one host, GET and POST, each with and without a body, two attempts, one
backoff of three ticks, one redirect, an interval of two ticks with a jitter of one: each
loop is passed and used up, two calls compete for a slot, a wait can be shorter than the
jitter, and a backoff longer than the interval leaves a pause after which a burst could
come. `MaxRounds` = 4 is the number of rounds a call with a redirect and two backoffs takes;
the two calls share them in every way.

### CryptoStreams

A sender and a receiver with one stream per packet number space and a network between. A
byte is its position, so "arrived in order" is a statement on positions. `tx` says of each
byte whether it is unsent, sent or acknowledged; `flight` holds the packets, with their
tokens, that loss recovery remembers. `Send` is `buffer_records` and `send`; `BeginFrames`,
`WriteFrame` and `EndFrames` are the loop of `write_frame` with `write_chunk`,
`mark_as_sent` and the slicing around the server name; then `Acked`, `Lost`,
`ResendUnacked`, `Discard`; at the receiver `InboundFrames`, `ReadToEnd`, `PeerDiscard`.
`TxBuffer`, `RxStreamOrderer` and loss recovery (`Forget`) are not in the repository and
are modelled from how `crypto.rs` uses them.

Packets arrive in any order, late, more than once or never. Losses that recovery declares
(rightly or not) and resends asked for are limited to `Faults` = 2, so that both packets of
a ClientHello can be given up and pieces of different cuts overlap. Other bounds: a
ClientHello of six bytes in packets of five, so that it needs two, and a Handshake flight
of one; recovery remembers two packets; the server name is at 1 and 2; numbers from 3 on take
two bytes, so that the length field grows inside the message; the receiver buffers four
bytes: less than the message, so that the limit is met, and enough for each order in which
the pieces {5, 0} and {1, 2, 3} and what a loss makes of them can be read to the end.
Packets that begin with less room are left to the proofs.

### InitialKeys, Agent, Crypto

`Crypto` composes `Agent` (records, handshake state, secrets, alert, hook, ECH, tickets)
with `InitialKeys` (keys by version, continuation of packet numbers over Retry and version
changes). A call into `Crypto` is a sequence of steps: `step` names the one that is due,
and nothing else of the connection runs until the call is at its end (`idle`). NSS is external: at each step it may produce records, hand out secrets, ask for
authentication, raise an alert, complete or fail. A cipher suite it does not report makes
`install_handshake_keys` fail with the same `Error::Internal` as a missing secret
(crypto.rs:308-312); the model tells the two apart, since the first is NSS's doing and the
second would be this code's (`KeysInOrder`). The verdict on the certificate comes from
the application, at any time between calls. Initial packets are reordered and repeated by
the network; the peer is an honest server.

Bounds: two versions, one Retry, two packet numbers of ours, three of the peer, three
received packets remembered, two tickets. Two versions are the most one connection uses.

### PacketNumbers and KeyUpdate

`CryptoDxState` is a record: `epoch`, the range `lo .. hi - 1` of numbers used, `min`,
`inv` (invocations left), `large`. `Continuation`, `Overlaps` and `UsedPn` are in
PacketNumbers, shared by all keys; `NewKeys`, `NextKeys`, `Spend` in KeyUpdate. Actions are the operations of
`CryptoStates` at a client. A packet is its true epoch and its number; the phase bit alone
selects the key, and the key opens the packet exactly when the epochs agree, which is all
the AEAD is kept as. The peer is not trusted: any epoch and number may arrive at any time.
Body lengths are counted in units of 2^11 bytes, rounded up to a power of two, as the code
does by counting leading zeros. A packet that `check_pn_overlap` reports is not accepted,
and the connection goes on; the caller is not part of the repository. The build is the
released one (`build_h3.py:85`): two debug assertions (crypto.rs:1290, 1336) that a repeated
first packet of an epoch would trip are compiled out, and the code after them runs.

Left out: the 0-RTT keys of a server (never_fox is a client), the failure of key
derivation, and `auto_update` when the write keys are already ahead, which ends the
connection with KeysExhausted.

Bounds: epochs up to 5 (two updates), four and three invocations, three numbers. A third
update repeats the second: rotation makes the same pair of keys with other epochs. The
proofs do not depend on the bounds.

## 3. Runs

| run | properties | what it shows |
|---|---|---|
| `h2conn_frames` | RefsExact, OkIsComplete, BufferBounded, GoawaySparesAccepted, DoneIsFinal, WireInIdOrder | whatever the order of answers, resets, GOAWAY, the cap, EOF and timeouts, references are exact, a returned response is complete and an outcome is final |
| `h2conn_returns` | TypeOK, FreeGuarded, FreedAfterReader, EveryCallReturns, CloseFrees | a call, cancellation and close() racing: no free under the reader, nor under a holder unless the bounded drain gave up; every call that entered `_send` returns; close() ends, also with a leaked reference |
| `pool_safety` | TypeOK, SingleFlight, Accounted, BurstCoalesced, GetConnReturns | one connector per key; each connection in exactly one place; bursts share; nobody stays in `_get_conn`, also when connectors fail, unless a connect of the same key never returns |
| `request` | TypeOK, Paced, CopiesPerRound, ResentOnlyIf, Advances | rounds keep the rate over all calls; a round hands out no more copies than its attempts; what was given to a connection is repeated only where that is safe; the loops end |
| `cryptostreams` | TypeOK, NotStranded, AckedArrived, FirstPacketSplits, ChannelSpec, Delivered | CRYPTO streams over a faulty network implement a reliable channel; no byte is forgotten; the first packet does not have the whole server name; everything arrives unless a space is dropped or the buffer overflows |
| `crypto_handshake` | TypeOK, AuthenticatedFirst, VerdictWelcome, NumbersFresh, KeysInOrder, OverlapExplained, TokensNewest, HandshakeEnds | no keys without a verdict, no number twice, keys once and in order, the newest token first, every handshake ends |
| `keyupdate_safety` | TypeOK, KeysInStep, ConsecutiveKeysOrdered, PnNeverReused, WithinWriteLimit | keys in step, sent numbers and write limits kept, accepted numbers in order from each epoch to the next, against any peer |

`CHECK_DEADLOCK FALSE` stands in the KeyUpdate, CryptoStreams and Crypto runs: keys run
out, all data is delivered, the handshake is over, and then nothing more happens. In the
others the end of all calls is an explicit stuttering step (`Terminated`), so TLC's
deadlock check finds a thread that is stuck.

Fairness.

* `h2conn_returns`: calls get strong fairness, because a lock that is free again and again
  is granted in the end by CPython's locks and because PR_Write is taken to return; timers
  fire; the reader goes on once it has a frame; the stop flag is seen while no frame
  arrives. Nothing obliges the peer to answer or a call to start. `CloseFrees` has a
  hypothesis of its own: the peer pauses for 250 ms again and again, because `recvn` looks
  at the flag only then. With a peer that never pauses, the reader outlives close()
  although `_native.py:128` says it exits within one read timeout.
* `pool_safety`: weak fairness for what a call does by itself (`OwnStep`): threads run, and
  Condition.wait has a timeout. None for a connect: PR_Connect has a timeout, but
  SSL_ForceHandshake (`fxtls_lib.c:159`) has none, so a server that is silent after TCP keeps
  the connector there, and the callers of its key wait again and again. `GetConnReturns` has
  the escape clause that a connect of the call's own key hangs for ever; that of another key
  is no excuse.
* `cryptostreams`: the sender's loop runs, packets that no fault hits arrive and are
  acknowledged, TLS reads what is there, and a space the peer has dropped is dropped. At
  most `Faults` packets are given up: a connection that loses packets for ever times out,
  which is the business of its caller.
* `crypto_handshake`: a call runs to its end, the handshake is started, the application
  gives its verdict, the server's packets arrive.
* `request` has none. `Advances` says that every step of a call moves it up in a
  lexicographic order of (redirects, backoff, tries, place); with the ranges of TypeOK that
  bounds the number of steps.

Refinement. `CryptoStreams` has the property `ChannelSpec`: with the bytes written and
read per space as its mapping, every behaviour is one of `ByteChannel`, which only lets the
writer append and the reader take the next piece of what was written.

### Where the code and its comments disagree

* `h2conn_midwrite` — a peer that announces 0 streams before the connector acquires makes
  `acquire()` refuse it; `client.py:307` does not look, the connector sends, and EOF frees the
  transport inside its write, although `h2conn.py:191-192` says close() "can never free the
  transport mid-write". If another call acquires in between, it is that call's reference the
  connector's release() takes. Without such a peer (`MaxConcValues` = {}) TLC finds the other
  hole: `_rst` (`h2conn.py:163`) holds no reference for its write.
* `h2conn_hpack` — the header block of a stream that timed out is skipped, so later blocks
  are decoded with a table that differs from the peer's.
* `pool_goaway` — the next cold call reaps a connection that received GOAWAY and aborts
  the streams the peer still answers; `h2conn.py:61` says they "still get their responses".
* `request_resend` — a POST without a body whose HTTP/3 attempt ends without an answer, also
  by its timeout, is sent again over HTTP/2 (`client.py:328`), although `client.py:89-91` says
  it "must not be retried" and 347-348 that re-sending after a timeout "would just duplicate
  work". `ResentOnlyIf` holds of copies given to a connection only.
* `keyupdate_overlap` — after packets 0 (old keys) and 2 (new keys), packet 1 under the
  old keys is rejected: `continuation` has lowered the start of the new range to 1. Every
  packet of the new keys is rejected as well until the timer rotates the keys. The timer
  exists so that "we can continue to receive any delayed packets" (`crypto.rs:1323`). The
  check also errs the other way (`MaxPn` = 2 shows it): number 1 is accepted in epoch 3; (4, 0)
  is refused, but has widened `used_pn` and started the timer; after the rotation number 1 is
  accepted in epoch 5, although `used_pn` "allows for verifying" (`crypto.rs:504-506`) that
  numbers before an update lie below those after it. Hence the name of
  `ConsecutiveKeysOrdered`: it speaks of one epoch and the next.

Observed and not given a run:

* a stream registered after `_fail_all` took its snapshot waits for its whole timeout
  (h2conn.py:194, 203); a failed write leaves its stream registered (218); DATA of dropped
  streams is never given back to the connection window (108); a call past the test of
  `closed` opens a stream after GOAWAY (194); two acquirers may pass for one free slot
  (256); a peer that stops reading holds PR_Write, and with it `_send_lock`, for ever (118);
* `max_connections_per_host` is stored and never read (client.py:230); a connection whose
  preface fails leaks its Transport (306); a connection made while Session.close runs is
  appended to the pool of a closed session (466), where `Accounted` counts it as held;
* the retries and the HTTP/3 fallback inside `_send_once` take no slot of the rate limiter, so
  a host may get more than "at most `rate` requests/second" (client.py:101): `Paced` speaks of
  rounds, and `CopiesPerRound` says how many copies each may hand out; a response beyond the
  cap is retried for idempotent methods, since its error is a ConnectionError;
* the reads of the current keys after the next were derived are not counted against the next
  (crypto.rs:621, 1258, 1364), although 617-618 speak of "a single limit" for all reads;
* only the first packet of a long ClientHello is sure not to have the whole server name: the
  share is computed from `builder.limit()` without the frame headers (crypto.rs:1728-1732),
  the left chunk, written second, is cut before the name begins, and the second packet
  carries what is left in one piece (in the instance checked, bytes 1 to 3), against the
  intent of the comments at 1694-1698;
* after a version change a delayed Initial packet of the first version can be refused
  although its number is unused (crypto.rs:999-1003), and when `confirm_version` fails there
  the original keys are not put back: `OverlapExplained` states the only circumstances.

## 4. Proofs

All theorems hold for every value of the constants that satisfies the named assumptions
(`ConnAssumption`, `PoolAssumption`, `RequestAssumption`, `StreamsAssumption`,
`NoneAssumption`, `KeysAssumption`, `AgentAssumption`, `CryptoAssumption`, `KeyAssumption`,
`NoKeysAssumption`, `SizesAssumption`): any number of calls, closers, keys, versions,
packets, any limits. Most of them say no more than that the sets are disjoint, finite where
they are counted, and that numbers are numbers. Two say more. `SizesAssumption` says that of
two packet sizes the larger is a multiple of the smaller: sizes are body lengths rounded up
to a power of two, all that the shift in `encrypt` looks at (crypto.rs 738-747).
`StreamsAssumption` says that a server name `find_sni` finds has at least two bytes.

* `H2ConnProofs!TypeCorrect`, `WritersExclude`, `FreedOnlyAfterReader`, `RefsCounted`,
  `RefsGuardFree`. `WritersExclusive` is not inductive, since nothing in it says that a
  writer owns the lock: `LockInv` ties each place to the owner. `FreedAfterReader` needs
  `TeardownInv`: a closer past its check saw the reader dead. `RefsExact` and
  `FreeGuarded` need `RefInv`: the connector may run `release()` without a reference,
  which is harmless when no acquire() ever succeeds (`Barred`), so that nobody's reference
  can be taken, and costs one reference, once, when it was refused for a limit of 0 streams
  (`starved`). The theorems assume nothing of the peer: the count is exact or, after that, one
  short.
* `H2FramesProofs!ResponsesComplete`, `BuffersBounded`, `GoawaySpares`, `OutcomesFinal`,
  `WireOrdered`, from `FrameInv` with the lock and teardown invariants. `OkIsComplete` is
  not inductive: it needs that a stream which may still finish well has kept all it was
  sent, that a DATA frame the reader has in hand belongs to a stream not yet done
  (`JobInv`), and that streams not yet sent are untouched (`FreshInv`). `WireInIdOrder`
  needs `OrderInv`: ids lie below the next one, and the stream registered but not yet written
  has the highest.
* `PoolProofs!TypeCorrect`, `OneConnectorPerKey`, `ConnectionsAccounted`. `SingleFlight`
  is inductive with the types. `Accounted` needs that a thread not closing has empty
  hands, that connections never opened are nowhere, and that only connections out of the
  pool are stopping.
* `PoolProofs!BurstSharesConnections`. `BurstCoalesced` compares the number of connections
  with the number of calls, and a call's streams end, so neither it nor a count of streams
  is inductive. `BurstInv` counts instead the calls ever given a connection, each once
  (`AskInv`), by a connection of its own key (`OwnInv`) that nobody had before it was opened
  (`NewInv`): always MaxConc of them for every live connection but one (`ButOneInv`), and
  for every one while a call connects (`FullInv`). The step from the first to the second is
  the lookup that finds none usable (`NoneUsableFull`); between the lookup and the connect
  connections only go, and `SingleFlight` keeps others from opening one.
* `RequestProofs!TypeCorrect`, `RoundsPaced`, `CopiesBounded`, `ResendingIsSafe`,
  `CallsAdvance`. `Paced` follows from `SlotInv`: the slots of a host are an interval apart
  and from the next free one (`Spaced`, kept by `SpacedAppend`), and no round begins before
  its slot but for the jitter; so more rounds than allowed would not fit (`SlotsPace`). It
  counts rounds, not copies: `CopiesBounded` bounds those of a round, from `CountInv`, which
  says at each place how many a call can have handed out. `ResentOnlyIf` needs `LostInv`,
  which says by place and protocol what an unanswered copy can be; of copies lost with
  neqo-client it says only that they had no body.
  `Advances` needs `IdleInv`, that calls not started have fresh locals.
* `CryptoStreamsProofs!StreamTypes`, `NoByteStranded`, `AckedHasArrived`,
  `StreamsAreChannels`. The inductive invariant `StreamInv` is TypeOK, `WrittenInv`
  (nothing beyond what was written), `FramesInv` (a frame carries bytes at their own
  positions), `GotInv` and `ArrivedInv` (what the receiver holds was sent), `NotStranded`
  and `AckedArrived`. The refinement follows step by step: reading takes the next
  positions, writing appends, all else stutters.
* `CryptoStreamsProofs!NameIsSplit`, about the packet that starts a ClientHello, for any room
  it has. `FirstPacketSplits` is about packets that have left; `PktSplit`
  says it of the one being filled: either nothing is in it and the data to be sliced is
  still the first unsent run, or it misses a byte of the name and has no room for another
  frame. So the loop of `write_frame`, which goes on after a single chunk, cannot add what
  the first turn left out. The lemmas say that a share of the data is less than the whole
  (`ShareShort`), that `limit_chunks` leaves out a byte beside the cut (`LimitChunksGap`),
  and what that means for the frames written (`SlicedMisses`).
* `CryptoProofs!TypesHold`, `AuthenticatedBeforeUse`, `VerdictCanBeGiven`,
  `NumbersNeverReused`, `PendingIsTrue`, `KeysComeInOrder`, `TokensKeptNewest`. (`PendingTrue`,
  that a packet is kept for Handshake keys exactly until these are installed, is only
  proved: no run has it.) The inductive invariant `IInv` is TypeOK, `AgentInv` (handshake state, hook and verdict), `SecretsInv` (which secrets are
  waiting or handed out at each stage, and what is due) and `NumbersInv` (every number sent
  lies below what the key in use sends next, over Retry and version changes).
  `TokensNewest` needs `TokenInv`: tokens are kept in the order they came, so making room
  drops the oldest.
* `CryptoVersionProofs!OverlapNeedsRefusal`, from `IInv` and `VersionInv`. Before the version
  is confirmed the client sends with its first version's keys only (`FirstVersion`), the
  server does not go back to a version it left (`PeerOrder`), and while nothing was refused
  the numbers each version's keys have used are those of that version's packets (`RxKnown`).
  So when `confirm_version` compares the two ranges (once, `ConfirmOnce`), they overlap only
  if a packet was refused.
* `KeyUpdateProofs!TypeCorrect`, `KeysStayInStep`, `NumbersGoUp`, `ConsecutivePacketsOrdered`. The
  operators on one key are lemmas (`ContinuationFields`, `UsedFields`, `SpendFields`).
  `NumbersGoUp` rests on `SentInv`: all that was sent lies below what the key in use
  sends next, and 0-RTT keys are gone when 1-RTT keys exist. `ConsecutivePacketsOrdered`, which
  is about one epoch and the next, rests on `ReadInv`, which places the accepted packets of three neighbouring epochs against the
  two live keys; the step has two cases, a packet of the current epoch
  (`DecryptCurrent`) and of the next (`DecryptNext`), and in the second the peer's first
  packet always starts the timer.
* `KeyUpdateProofs!LimitKept`, from `LimitInv`: what a key has protected, and what it still
  may at the largest size met so far, are together within the limit. The shift in `encrypt`
  keeps that because it loses only a remainder (`SpendShrinks`), and the packet then paid for
  is no larger than the size charged (`SpendFits`).

Every invariant and action property of the passing runs is proved. Model-checked only:
liveness (EveryCallReturns, CloseFrees, GetConnReturns, Delivered, HandshakeEnds), which needs
fairness and ENABLED and is out of TLAPS's reach here, and what the five violation runs refute.

## 5. Not modelled

* The server roles of `Crypto` and the agent, the stream mode of the agent
  (`handshake`, `close`; `set_raw` keeps it apart from the mode QUIC uses), its option
  setters, certificate compression and the initialisation in `lib.rs`: a client over QUIC
  uses none but the last, whose only state is a lazily made global.
* The rest of neqo (connection, recovery, buffers) is not in the repository; what is needed
  of it is marked external in the map.
* CookieJar: its hazard is an exception of CPython when a dictionary changes during an
  iteration; Request takes it as one of the reasons of `Unusable`.
* HTTP/1.1: one sequential exchange; its hazard, a truncated body returned as complete, is
  data against a reference definition.
* Connecting (but for its outcome), ALPN, the proxy dialogue and NSS initialisation of
  `fxtls_lib.c`; inside the HTTP/3 bridge, the subprocess and the parsing of its output.
* Build, packaging, measurement and fingerprint data: no state of the running client.

## 6. Plan

Done in this order: the connection, the pool that shares it, the QUIC keys, the CRYPTO
streams and the abstract channel, the handshake with its agent, the request loop. Next:

1. `PooledConn`: H2Conn under a mapping to the states Pool sees implements an abstract
   connection that Pool uses.
2. `Transport` (fxtls_lib.c, _native.py): initialisation, connect, proxy, stop flag.
3. `Http1` and `CookieJar`: body framing against a reference definition, the shared
   dictionary.
