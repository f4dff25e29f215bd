---------------------------- MODULE CryptoStreams ----------------------------
(***************************************************************************)
(* One direction of the CRYPTO streams of a QUIC handshake (CryptoStreams  *)
(* of native/h3/files/neqo/neqo-transport/src/crypto.rs): the CryptoStreams*)
(* of the side that sends, a network that delays, reorders, duplicates and *)
(* loses packets, loss recovery, and the CryptoStreams of the side that    *)
(* receives.                                                               *)
(*                                                                         *)
(* A byte is its position in what TLS wrote to the space.  A frame carries *)
(* the bytes from, from + 1, ... and announces them at an offset.  TxBuffer*)
(* and RxStreamOrderer are outside this code: the first knows of each byte *)
(* whether it is unsent, sent or acked, the second keeps what arrived.     *)
(***************************************************************************)
EXTENDS Integers, Sequences, FiniteSets

CONSTANTS
    MaxLen,         \* bound: bytes TLS writes per space
    Records,        \* lengths of the records TLS writes, per space
    Window,         \* bound: packets loss recovery remembers
    Limit,          \* builder.limit(): the size of a packet
    Rooms,          \* builder.remaining() when write_frame is called
    Overhead,       \* type and first length byte of a CRYPTO frame (2 in the code)
    VarintEdge,     \* numbers from here on take one more byte (64 in the code)
    SniSlicing,     \* sni_slicing, a parameter of the connection
    SniStart, SniEnd,  \* where find_sni finds the name in the first Initial bytes
    BufferLimit,    \* BUFFER_LIMIT
    Faults,         \* bound: losses declared and resends asked for
    None

Initial         == 1    \* PacketNumberSpace
Handshake       == 2
ApplicationData == 3
Spaces == {Initial, Handshake, ApplicationData}

ASSUME StreamsAssumption ==
    /\ MaxLen \in [Spaces -> Nat] /\ Records \in [Spaces -> SUBSET (Nat \ {0})]
    /\ Window \in Nat
    /\ Limit \in Nat \ {0} /\ Rooms \subseteq Nat
    /\ SniSlicing \in BOOLEAN /\ Overhead \in Nat /\ VarintEdge \in Nat \ {0}
    /\ SniStart \in Nat /\ SniEnd \in Nat /\ SniStart + 2 <= SniEnd
    /\ BufferLimit \in Nat /\ Faults \in Nat

VARIABLES
    written,        \* [Spaces -> bytes TLS has written]
    tx,             \* CryptoStream::tx, [Spaces -> [offset -> status]]
    stage,          \* the variant of the sender's CryptoStreams: spaces below are gone
    pkt,            \* the packet write_frame is filling, or None
    flight,         \* [Slots -> the packets (with their tokens) not yet forgotten, or None]
    rx,             \* CryptoStream::rx of the receiver, [Spaces -> [offset -> byte or None]]
    peerStage,      \* the variant of the receiver's CryptoStreams
    got,            \* [Spaces -> what the receiver's TLS has read]
    exceeded,       \* the receiver closed with CryptoBufferExceeded
    faults          \* losses and resends so far

vars == <<written, tx, stage, pkt, flight, rx, peerStage, got, exceeded, faults>>

Offsets(s) == 0 .. MaxLen[s] - 1
Slots == 1 .. Window

\* get(space): a space is live from the variant's own on.
Live(s) == s >= stage

Init ==
    /\ written = [s \in Spaces |-> 0]
    /\ tx = [s \in Spaces |-> [o \in Offsets(s) |-> "none"]]
    /\ stage = Initial /\ pkt = None
    /\ flight = [k \in Slots |-> None]
    /\ rx = [s \in Spaces |-> [o \in Offsets(s) |-> None]]
    /\ peerStage = Initial /\ got = [s \in Spaces |-> <<>>] /\ exceeded = FALSE /\ faults = 0

-----------------------------------------------------------------------------
(***************************************************************************)
(* Filling a packet: write_frame and its helpers.                          *)
(***************************************************************************)
Least(a, b)   == IF a < b THEN a ELSE b
Varint(n)     == IF n < VarintEdge THEN 1 ELSE 2
Header(off)   == Overhead + Varint(off)
FrameSize(f)  == Header(f.offset) + Varint(f.len) - 1 + f.len
Size(fs)      == IF fs = <<>> THEN 0 ELSE FrameSize(fs[1])

\* Mutant: the length field always takes one byte.
Fitting_ShortLength(off, len, room) == Least(len, room - Header(off))

\* write_chunk: how much of len bytes fits, a longer length field counted.
Fitting(off, len, room) ==
    LET most == Least(len, room - Header(off))
    IN  Least(len, room - (Header(off) + Varint(most) - 1))

\* Mutant: the length returned is that of the data, not of what fitted.
WriteChunk_Whole(off, from, len, room) ==
    IF room < Header(off) + 1 THEN <<>>
    ELSE <<[offset |-> off, from |-> from, len |-> Fitting(off, len, room), token |-> len]>>

\* write_chunk: one frame, or none when not even a byte would fit.  The length it returns
\* goes into the recovery token.
WriteChunk(off, from, len, room) ==
    IF room < Header(off) + 1 THEN <<>>
    ELSE <<[offset |-> off, from |-> from, len |-> Fitting(off, len, room),
            token |-> Fitting(off, len, room)]>>

\* Mutant: the end of the right half is announced where the right half begins.
LimitChunks_SameOffset(mid, len, limit) ==
    [left |-> mid, at |-> mid, to |-> len,
     from |-> IF len <= limit THEN mid ELSE mid + (len - limit)]

\* Mutant: the right half is sent from its start, the name with it.
LimitChunks_FromStart(mid, len, limit) ==
    [left |-> mid, at |-> mid, from |-> mid, to |-> Least(len, limit)]

\* limit_chunks, for 0 .. len - 1 cut at mid: how much of the left part to send, and at
\* which offset which bytes of the right one.
LimitChunks(mid, len, limit) ==
    IF len <= limit THEN [left |-> mid, at |-> mid, from |-> mid, to |-> len]
    ELSE IF mid <= limit
      THEN [left |-> mid, at |-> mid + (len - limit), from |-> mid + (len - limit), to |-> len]
    ELSE IF len - mid <= limit
      THEN [left |-> limit - (len - mid), at |-> mid, from |-> mid, to |-> len]
    ELSE [left |-> limit \div 2, at |-> mid, from |-> mid, to |-> mid + limit \div 2]

\* The two chunks of 0 .. len - 1, cut in the middle of the name and swapped.
PacketsNeeded(len) == (len + Limit - 1) \div Limit
Middle == SniStart + (SniEnd - SniStart) \div 2
Sliced(len, room) ==
    LET c     == LimitChunks(Middle, len, len \div PacketsNeeded(len))
        right == WriteChunk(c.at, c.from, c.to - c.from, room)
    IN  right \o WriteChunk(0, 0, c.left, room - Size(right))

\* find_sni, on what is unsent from offset 0 on.
FindSni(s, len) == s = Initial /\ SniEnd <= len

\* TxBuffer::next_bytes: lo .. hi - 1 is the first unsent run.
NextBytes(s, lo, hi) ==
    /\ lo < hi /\ hi <= MaxLen[s]
    /\ \A o \in 0 .. lo - 1 : tx[s][o] # "unsent"
    /\ \A o \in lo .. hi - 1 : tx[s][o] = "unsent"
    /\ hi < MaxLen[s] => tx[s][hi] # "unsent"

\* What the tokens of frames name.
Covered(fs, o) == \E i \in DOMAIN fs : fs[i].offset <= o /\ o < fs[i].offset + fs[i].token

\* A change of status for the bytes that tokens or frames name.
Mark(s, fs, from, to) ==
    tx' = [tx EXCEPT ![s] =
             [o \in Offsets(s) |-> IF Covered(fs, o) /\ @[o] \in from THEN to ELSE @[o]]]

\* The packet leaves with the tokens of its frames; an empty one is not sent.
Dispatch(fs) ==
    /\ pkt' = None
    /\ IF fs = <<>> THEN UNCHANGED flight
       ELSE \E k \in Slots :
              /\ flight[k] = None /\ \A j \in 1 .. k - 1 : flight[j] # None
              /\ flight' = [flight EXCEPT ![k] =
                   [space |-> pkt.space, frames |-> fs, span |-> pkt.span,
                    lost |-> FALSE, arrived |-> FALSE]]

\* write_frame is entered.  span is history: the data from offset 0 that is to be sliced.
BeginFrames(s, room) ==
    /\ pkt = None /\ Live(s)
    /\ \E k \in Slots : flight[k] = None
    /\ \E lo, hi \in 0 .. MaxLen[s] :
         /\ NextBytes(s, lo, hi)
         /\ pkt' = [space |-> s, room |-> room, frames |-> <<>>,
                    span |-> IF SniSlicing /\ lo = 0 /\ FindSni(s, hi) THEN hi ELSE 0]
    /\ UNCHANGED <<written, tx, stage, flight, rx, peerStage, got, exceeded, faults>>

\* What one turn of its loop writes: two chunks of sliced data, one chunk, or nothing.
Chunks(s, lo, hi, room) ==
    IF SniSlicing /\ lo = 0 /\ FindSni(s, hi) THEN Sliced(hi, room)
    ELSE WriteChunk(lo, lo, hi - lo, room)

\* One turn: what is written is marked and gets tokens; anything but one chunk is the
\* end of the packet.
WriteFrame ==
    /\ pkt # None
    /\ \E lo, hi \in 0 .. MaxLen[pkt.space] :
         /\ NextBytes(pkt.space, lo, hi)
         /\ \E fs \in {Chunks(pkt.space, lo, hi, pkt.room)} :
              /\ Mark(pkt.space, fs, {"unsent"}, "sent")
              /\ \/ /\ Len(fs) = 1
                    /\ pkt' = [pkt EXCEPT !.frames = @ \o fs, !.room = @ - Size(fs)]
                    /\ UNCHANGED flight
                 \/ Len(fs) # 1 /\ Dispatch(pkt.frames \o fs)
    /\ UNCHANGED <<written, stage, rx, peerStage, got, exceeded, faults>>

\* next_bytes has nothing more.
EndFrames ==
    /\ pkt # None
    /\ \A o \in Offsets(pkt.space) : tx[pkt.space][o] # "unsent"
    /\ Dispatch(pkt.frames)
    /\ UNCHANGED <<written, tx, stage, rx, peerStage, got, exceeded, faults>>

-----------------------------------------------------------------------------
(***************************************************************************)
(* The sender's other operations.                                          *)
(***************************************************************************)

\* buffer_records, send: TLS writes n bytes to a live space.
Send(s, n) ==
    /\ pkt = None /\ Live(s) /\ written[s] + n <= MaxLen[s]
    /\ written' = [written EXCEPT ![s] = @ + n]
    /\ tx' = [tx EXCEPT ![s] =
                [o \in Offsets(s) |-> IF written[s] <= o /\ o < written[s] + n THEN "unsent" ELSE @[o]]]
    /\ UNCHANGED <<stage, pkt, flight, rx, peerStage, got, exceeded, faults>>

\* acked, when an acknowledgement comes, also for a packet declared lost before.
Acked(k) ==
    /\ pkt = None /\ flight[k] # None /\ flight[k].arrived
    /\ flight' = [flight EXCEPT ![k] = None]
    /\ IF Live(flight[k].space)
         THEN Mark(flight[k].space, flight[k].frames, {"unsent", "sent"}, "acked")
         ELSE UNCHANGED tx
    /\ UNCHANGED <<written, stage, pkt, rx, peerStage, got, exceeded, faults>>

\* Mutant: only the first token of the packet is marked as lost.
Lost_FirstToken(k) ==
    /\ pkt = None /\ flight[k] # None /\ ~flight[k].lost /\ faults < Faults
    /\ flight' = [flight EXCEPT ![k].lost = TRUE]
    /\ IF Live(flight[k].space)
         THEN Mark(flight[k].space, <<flight[k].frames[1]>>, {"sent"}, "unsent")
         ELSE UNCHANGED tx
    /\ faults' = faults + 1
    /\ UNCHANGED <<written, stage, pkt, rx, peerStage, got, exceeded>>

\* Mutant: the oldest live space is taken for a dropped one.
Lost_OffByOne(k) ==
    /\ pkt = None /\ flight[k] # None /\ ~flight[k].lost /\ faults < Faults
    /\ flight' = [flight EXCEPT ![k].lost = TRUE]
    /\ IF flight[k].space > stage
         THEN Mark(flight[k].space, flight[k].frames, {"sent"}, "unsent")
         ELSE UNCHANGED tx
    /\ faults' = faults + 1
    /\ UNCHANGED <<written, stage, pkt, rx, peerStage, got, exceeded>>

\* lost, when loss recovery or its timer says so (rightly or not).
Lost(k) ==
    /\ pkt = None /\ flight[k] # None /\ ~flight[k].lost /\ faults < Faults
    /\ flight' = [flight EXCEPT ![k].lost = TRUE]
    /\ IF Live(flight[k].space)
         THEN Mark(flight[k].space, flight[k].frames, {"sent"}, "unsent")
         ELSE UNCHANGED tx
    /\ faults' = faults + 1
    /\ UNCHANGED <<written, stage, pkt, rx, peerStage, got, exceeded>>

\* Loss recovery forgets a lost packet, or one of a discarded space: a later
\* acknowledgement finds nothing.
Forget(k) ==
    /\ flight[k] # None
    /\ flight[k].lost \/ flight[k].space < stage
    /\ flight' = [flight EXCEPT ![k] = None]
    /\ UNCHANGED <<written, tx, stage, pkt, rx, peerStage, got, exceeded, faults>>

\* resend_unacked: everything sent and not acked is to be sent again; tokens stay.
ResendUnacked(s) ==
    /\ pkt = None /\ faults < Faults /\ s # ApplicationData /\ Live(s)
    /\ tx' = [tx EXCEPT ![s] = [o \in Offsets(s) |-> IF @[o] = "sent" THEN "unsent" ELSE @[o]]]
    /\ tx' # tx
    /\ faults' = faults + 1
    /\ UNCHANGED <<written, stage, pkt, flight, rx, peerStage, got, exceeded>>

\* discard: a space is dropped with its stream, in order.
Discard(s) ==
    /\ pkt = None /\ s # ApplicationData /\ stage = s
    /\ stage' = s + 1
    /\ tx' = [tx EXCEPT ![s] = [o \in Offsets(s) |-> "none"]]
    /\ UNCHANGED <<written, pkt, flight, rx, peerStage, got, exceeded, faults>>

-----------------------------------------------------------------------------
(***************************************************************************)
(* The receiver.                                                           *)
(***************************************************************************)

\* Whether, and which byte, a packet brings for an offset.
At(f, o) == f.offset <= o /\ o < f.offset + f.len
Carried(fs, o) == \E i \in DOMAIN fs : At(fs[i], o)
Brings(fs, o) ==
    LET f == fs[CHOOSE i \in DOMAIN fs : At(fs[i], o)]
    IN  f.from + (o - f.offset)

Buffered(r, n) == {o \in DOMAIN r : r[o] # None /\ o >= n}

\* inbound_frame for the frames of a packet: the data is kept, then received() - retired()
\* is checked.  Within a packet the buffer only grows, so the check after the last frame
\* fails if one before it does; a packet that fails is not acknowledged.  A packet may come
\* again; packets of a space whose keys are gone are not opened.
InboundFrames(k) ==
    /\ flight[k] # None /\ flight[k].space >= peerStage /\ ~exceeded
    /\ LET s == flight[k].space
           r == [o \in Offsets(s) |->
                   IF rx[s][o] = None /\ Carried(flight[k].frames, o)
                     THEN Brings(flight[k].frames, o) ELSE rx[s][o]]
       IN  /\ rx' = [rx EXCEPT ![s] = r]
           /\ exceeded' = (Cardinality(Buffered(r, Len(got[s]))) > BufferLimit)
    /\ flight' = [flight EXCEPT ![k].arrived = @ \/ ~exceeded']
    /\ UNCHANGED <<written, tx, stage, pkt, peerStage, got, faults>>

\* data_ready and read_to_end: TLS reads all there is before the first gap.
ReadToEnd(s) ==
    /\ s >= peerStage /\ ~exceeded
    /\ \E n \in 1 .. MaxLen[s] - Len(got[s]) :
         LET at == Len(got[s])
         IN  /\ \A o \in at .. at + n - 1 : rx[s][o] # None
             /\ at + n < MaxLen[s] => rx[s][at + n] = None
             /\ got' = [got EXCEPT ![s] = @ \o [i \in 1 .. n |-> rx[s][at + i - 1]]]
    /\ UNCHANGED <<written, tx, stage, pkt, flight, rx, peerStage, exceeded, faults>>

\* discard at the receiver, a server: its connection drops Initial with the first Handshake
\* data it opens, Handshake once the handshake is done.
PeerDiscard(s) ==
    /\ peerStage = s
    /\ \/ s = Initial /\ \E o \in Offsets(Handshake) : rx[Handshake][o] # None
       \/ s = Handshake /\ Len(got[s]) = MaxLen[s]
    /\ peerStage' = s + 1
    /\ rx' = [rx EXCEPT ![s] = [o \in Offsets(s) |-> None]]
    /\ UNCHANGED <<written, tx, stage, pkt, flight, got, exceeded, faults>>

-----------------------------------------------------------------------------
Next ==
    \/ \E s \in Spaces :
         \/ \E n \in Records[s] : Send(s, n)
         \/ \E room \in Rooms : BeginFrames(s, room)
         \/ ResendUnacked(s) \/ Discard(s) \/ ReadToEnd(s) \/ PeerDiscard(s)
    \/ WriteFrame \/ EndFrames
    \/ \E k \in Slots : Acked(k) \/ Lost(k) \/ Forget(k) \/ InboundFrames(k)

Spec == Init /\ [][Next]_vars

\* The sender's loop goes on and data is sent when there is room; a packet that is not
\* given up arrives and is acknowledged; what is given up is forgotten; TLS reads what is
\* there; the sender drops a space the receiver has dropped.  The network spoils at most
\* Faults packets.
Fairness ==
    /\ WF_vars(WriteFrame \/ EndFrames)
    /\ \A s \in Spaces :
         /\ WF_vars(BeginFrames(s, Limit)) /\ WF_vars(ReadToEnd(s))
         /\ WF_vars(peerStage > s /\ Discard(s))
    /\ \A k \in Slots : WF_vars(InboundFrames(k)) /\ WF_vars(Acked(k)) /\ WF_vars(Forget(k))

LiveSpec == Spec /\ Fairness

-----------------------------------------------------------------------------
(***************************************************************************)
(* What holds.                                                             *)
(***************************************************************************)
Frame == [offset : Nat, from : Nat, len : Nat, token : Nat]
Packet == [space : Spaces, frames : Seq(Frame), span : Nat, lost : BOOLEAN, arrived : BOOLEAN]
Filling == [space : Spaces, room : Nat, frames : Seq(Frame), span : Nat]

ASSUME NoneAssumption == None \notin Packet \cup Filling

\* Every variable has its type; in particular the room of a packet never goes below zero.
TypeOK ==
    /\ written \in [Spaces -> Nat] /\ \A s \in Spaces : written[s] <= MaxLen[s]
    /\ DOMAIN tx = Spaces
    /\ \A s \in Spaces : tx[s] \in [Offsets(s) -> {"none", "unsent", "sent", "acked"}]
    /\ stage \in Spaces /\ peerStage \in Spaces /\ exceeded \in BOOLEAN /\ faults \in Nat
    /\ pkt \in Filling \cup {None} /\ flight \in [Slots -> Packet \cup {None}]
    /\ DOMAIN rx = Spaces /\ \A s \in Spaces : rx[s] \in [Offsets(s) -> Nat \cup {None}]
    /\ got \in [Spaces -> Seq(Nat)]

\* The frames of a space that can still be declared lost or acknowledged.
Pending(s) ==
    {flight[k].frames : k \in {j \in Slots : flight[j] # None /\ flight[j].space = s /\ ~flight[j].lost}}
      \cup (IF pkt # None /\ pkt.space = s THEN {pkt.frames} ELSE {})

\* No byte is forgotten: what a live space counts as sent is named by a token that loss
\* recovery still holds, so it will be acknowledged or sent again, whatever the order of
\* late acknowledgements, false losses, resend_unacked and discards.
NotStranded ==
    \A s \in Spaces : \A o \in Offsets(s) :
        s >= stage /\ tx[s][o] = "sent" => \E fs \in Pending(s) : Covered(fs, o)

\* What the sender counts as acknowledged, and will never send again, the receiver has,
\* although chunks are cut twice (by limit_chunks and by the room in the packet).
AckedArrived ==
    \A s \in Spaces : s >= stage /\ s >= peerStage =>
        \A o \in Offsets(s) : tx[s][o] = "acked" => rx[s][o] = o

\* The CRYPTO streams implement a reliable, ordered channel per space.
Channel == INSTANCE ByteChannel WITH sent <- [s \in Spaces |-> [i \in 1 .. written[s] |-> i - 1]]
ChannelSpec == Channel!Spec

\* A packet begun when the unsent data from offset 0 exceeds a packet never carries the whole
\* name, also when the tail was sent before or packets were lost: some of the name stays
\* behind.  Nothing is said of the packets that carry the rest, which may have all of it.
Carries(fs, o) == \E i \in DOMAIN fs : fs[i].from <= o /\ o < fs[i].from + fs[i].len
HasName(fs)    == \A o \in SniStart .. SniEnd - 1 : Carries(fs, o)
FirstPacketSplits ==
    \A k \in Slots : flight[k] # None /\ flight[k].span > Limit => ~HasName(flight[k].frames)

\* Every byte TLS writes is read by the peer's TLS, unless one of them drops the space or
\* the receiver gives up.
Delivered ==
    \A s \in Spaces :
        []<>(Len(got[s]) = written[s] \/ stage > s \/ peerStage > s \/ exceeded)
=============================================================================
