------------------------- MODULE CryptoStreamsProofs -------------------------
(***************************************************************************)
(* Proofs about CryptoStreams, for every length of what TLS writes, every  *)
(* packet size, place of the server name, number of packets in flight and  *)
(* number of faults.                                                       *)
(*                                                                         *)
(* Every frame announces the bytes it carries, within what TLS wrote, and  *)
(* its token names the same; so what the receiver keeps at an offset is    *)
(* the byte of that offset, and what TLS reads is a prefix of what was     *)
(* written.                                                                *)
(***************************************************************************)
EXTENDS CryptoStreams, SequenceTheorems, TLAPS

\* A frame that carries what it announces, below end, and whose token says so.
TrueFrame(f, end) == f.from = f.offset /\ f.token = f.len /\ f.offset + f.len <= end
TrueFrames(fs, end) == \A i \in DOMAIN fs : TrueFrame(fs[i], end)

WrittenInv ==
    \A s \in Spaces : \A o \in Offsets(s) :
        /\ tx[s][o] # "none" => o < written[s]
        /\ rx[s][o] # None => rx[s][o] = o /\ o < written[s]

FramesInv ==
    /\ pkt # None => TrueFrames(pkt.frames, written[pkt.space])
    /\ \A k \in Slots : flight[k] # None => TrueFrames(flight[k].frames, written[flight[k].space])

GotInv ==
    \A s \in Spaces : Len(got[s]) <= written[s] /\ \A i \in 1 .. Len(got[s]) : got[s][i] = i - 1

ArrivedInv ==
    \A k \in Slots : flight[k] # None /\ flight[k].arrived /\ flight[k].space >= peerStage =>
        \A o \in Offsets(flight[k].space) : Covered(flight[k].frames, o) => rx[flight[k].space][o] = o

StreamInv == TypeOK /\ WrittenInv /\ FramesInv /\ GotInv /\ ArrivedInv /\ NotStranded /\ AckedArrived

-----------------------------------------------------------------------------
(***************************************************************************)
(* What a packet is filled with.                                           *)
(***************************************************************************)

\* write_chunk writes nothing, or one true frame that fits.
LEMMA WriteChunkTrue ==
    ASSUME NEW off \in Nat, NEW len \in Nat, NEW room \in Int
    PROVE  \/ WriteChunk(off, off, len, room) = <<>>
           \/ \E f \in Frame : /\ WriteChunk(off, off, len, room) = <<f>>
                               /\ TrueFrame(f, off + len)
                               /\ FrameSize(f) \in Nat /\ FrameSize(f) <= room
  <1>1. CASE room < Header(off) + 1
    BY <1>1 DEF WriteChunk
  <1>2. CASE ~(room < Header(off) + 1)
    <2> DEFINE n == Fitting(off, len, room)
               f == [offset |-> off, from |-> off, len |-> n, token |-> n]
    <2>1. /\ n \in Nat /\ n <= len
          /\ Header(off) + Varint(n) - 1 + n \in Nat /\ Header(off) + Varint(n) - 1 + n <= room
      BY <1>2, StreamsAssumption DEF Fitting, Least, Header, Varint
    <2>2. WriteChunk(off, off, len, room) = <<f>>
      BY <1>2 DEF WriteChunk
    <2> HIDE DEF n
    <2>3. f \in Frame /\ TrueFrame(f, off + len)
      BY <2>1 DEF Frame, TrueFrame
    <2>4. FrameSize(f) = Header(off) + Varint(n) - 1 + n
      BY DEF FrameSize
    <2> QED  BY <2>1, <2>2, <2>3, <2>4
  <1> QED  BY <1>1, <1>2

\* Data from offset 0 is divided among at least one packet.
LEMMA ShareNat ==
    ASSUME NEW len \in Nat \ {0}
    PROVE  len \div PacketsNeeded(len) \in Nat
  <1>1. PICK l \in Nat \ {0} : l = Limit
    BY StreamsAssumption
  <1>2. (len + l - 1) \div l \in Nat \ {0}
    <2>1. (len + l - 1) \div l \in Int /\ len + l - 1 >= l
      BY <1>1
    <2>2. len + l - 1 < l * ((len + l - 1) \div l) + l
      BY <1>1
    <2>3. ASSUME (len + l - 1) \div l <= 0  PROVE FALSE
      <3>1. l * ((len + l - 1) \div l) <= 0
        BY <2>1, <2>3, <1>1
      <3> QED  BY <2>1, <2>2, <3>1, <1>1
    <2> QED  BY <2>1, <2>3
  <1>3. ASSUME NEW d \in Nat \ {0}  PROVE len \div d \in Nat
    <2>1. len \div d \in Int /\ len < d * (len \div d) + d
      OBVIOUS
    <2>2. ASSUME len \div d < 0  PROVE FALSE
      <3>1. d * (len \div d) <= -d
        BY <2>1, <2>2
      <3> QED  BY <2>1, <3>1
    <2> QED  BY <2>1, <2>2
  <1> QED  BY <1>1, <1>2, <1>3 DEF PacketsNeeded

\* limit_chunks returns two parts of the data, the right one with its true offset.
LEMMA LimitChunksTrue ==
    ASSUME NEW mid \in Nat, NEW len \in Nat, mid <= len, NEW limit \in Nat, NEW c,
           c = LimitChunks(mid, len, limit)
    PROVE  /\ c.left \in Nat /\ c.left <= mid
           /\ c.at \in Nat /\ c.from = c.at /\ c.to \in Nat /\ c.from <= c.to /\ c.to <= len
  <1>1. limit \div 2 \in Nat /\ limit \div 2 <= limit
    OBVIOUS
  <1>2. CASE len <= limit
    BY <1>2 DEF LimitChunks
  <1>3. CASE len > limit /\ mid <= limit
    BY <1>3 DEF LimitChunks
  <1>4. CASE len > limit /\ mid > limit /\ len - mid <= limit
    BY <1>4 DEF LimitChunks
  <1>5. CASE len > limit /\ mid > limit /\ len - mid > limit
    BY <1>1, <1>5 DEF LimitChunks
  <1> QED  BY <1>2, <1>3, <1>4, <1>5

\* A tail of true frames.
LEMMA TrueFrameBelow ==
    ASSUME NEW f \in Frame, NEW a \in Nat, NEW b \in Nat, a <= b, TrueFrame(f, a)
    PROVE  TrueFrame(f, b)
  BY DEF TrueFrame, Frame

\* Frames of two turns, one after the other.
LEMMA Joined ==
    ASSUME NEW a \in Seq(Frame), NEW b \in Seq(Frame)
    PROVE  /\ a \o b \in Seq(Frame)
           /\ \A end : TrueFrames(a, end) /\ TrueFrames(b, end) => TrueFrames(a \o b, end)
           /\ \A o \in Nat : Covered(a \o b, o) <=> Covered(a, o) \/ Covered(b, o)
  <1>1. /\ a \o b \in Seq(Frame) /\ Len(a \o b) = Len(a) + Len(b)
        /\ \A i \in 1 .. Len(a) + Len(b) : (a \o b)[i] = IF i <= Len(a) THEN a[i] ELSE b[i - Len(a)]
        /\ Len(a) \in Nat /\ Len(b) \in Nat
    BY ConcatProperties
  <1>2. /\ DOMAIN (a \o b) = 1 .. Len(a) + Len(b)
        /\ DOMAIN a = 1 .. Len(a) /\ DOMAIN b = 1 .. Len(b)
    BY <1>1
  <1>3. ASSUME NEW i \in DOMAIN (a \o b)
        PROVE  \/ i \in DOMAIN a /\ (a \o b)[i] = a[i]
               \/ i - Len(a) \in DOMAIN b /\ (a \o b)[i] = b[i - Len(a)]
    BY <1>1, <1>2
  <1>4. ASSUME NEW i \in DOMAIN a  PROVE i \in DOMAIN (a \o b) /\ (a \o b)[i] = a[i]
    BY <1>1, <1>2
  <1>5. ASSUME NEW i \in DOMAIN b
        PROVE  Len(a) + i \in DOMAIN (a \o b) /\ (a \o b)[Len(a) + i] = b[i]
    BY <1>1, <1>2
  <1>6. ASSUME NEW end, TrueFrames(a, end), TrueFrames(b, end)  PROVE TrueFrames(a \o b, end)
    BY <1>3, <1>6 DEF TrueFrames
  <1>7. ASSUME NEW o \in Nat  PROVE Covered(a \o b, o) <=> Covered(a, o) \/ Covered(b, o)
    <2>1. ASSUME Covered(a \o b, o)  PROVE Covered(a, o) \/ Covered(b, o)
      <3>1. PICK i \in DOMAIN (a \o b) :
              (a \o b)[i].offset <= o /\ o < (a \o b)[i].offset + (a \o b)[i].token
        BY <2>1 DEF Covered
      <3> QED  BY <1>3, <3>1, Zenon DEF Covered
    <2>2. ASSUME Covered(a, o)  PROVE Covered(a \o b, o)
      BY <1>4, <2>2, Zenon DEF Covered
    <2>3. ASSUME Covered(b, o)  PROVE Covered(a \o b, o)
      BY <1>5, <2>3, Zenon DEF Covered
    <2> QED  BY <2>1, <2>2, <2>3
  <1> QED  BY <1>1, <1>6, <1>7

\* One turn of write_frame's loop writes true frames; a single one fits.
LEMMA ChunksTrue ==
    ASSUME NEW s \in Spaces, NEW lo \in Nat, NEW hi \in Nat, lo < hi, NEW room \in Nat,
           NEW fs, fs = Chunks(s, lo, hi, room)
    PROVE  /\ fs \in Seq(Frame) /\ TrueFrames(fs, hi)
           /\ Len(fs) = 1 => room - Size(fs) \in Nat
  <1>1. CASE fs = <<>>
    BY <1>1 DEF TrueFrames
  <1>2. ASSUME NEW f \in Frame, fs = <<f>>, TrueFrame(f, hi), FrameSize(f) \in Nat,
               FrameSize(f) <= room
        PROVE  /\ fs \in Seq(Frame) /\ TrueFrames(fs, hi)
               /\ Len(fs) = 1 => room - Size(fs) \in Nat
    <2>1. Size(fs) = FrameSize(f)
      BY <1>2 DEF Size
    <2> QED  BY <1>2, <2>1 DEF TrueFrames
  <1>4. CASE SniSlicing /\ lo = 0 /\ FindSni(s, hi)
    <2>0. PICK c : c = LimitChunks(Middle, hi, hi \div PacketsNeeded(hi))
      OBVIOUS
    <2> DEFINE right == WriteChunk(c.at, c.from, c.to - c.from, room)
               left == WriteChunk(0, 0, c.left, room - Size(right))
    <2>1. fs = right \o left
      BY <1>4, <2>0 DEF Chunks, Sliced
    <2>2. Middle \in Nat /\ Middle <= hi
      BY <1>4, StreamsAssumption DEF Middle, FindSni
    <2>3. PICK q \in Nat : q = hi \div PacketsNeeded(hi)
      BY ShareNat
    <2>31. PICK mid \in Nat : mid = Middle /\ mid <= hi
      BY <2>2
    <2>32. c = LimitChunks(mid, hi, q)
      BY <2>0, <2>3, <2>31
    <2>4. /\ c.left \in Nat /\ c.left <= Middle
          /\ c.at \in Nat /\ c.from = c.at /\ c.to \in Nat /\ c.from <= c.to /\ c.to <= hi
      <3>1. /\ c.left \in Nat /\ c.left <= mid
            /\ c.at \in Nat /\ c.from = c.at /\ c.to \in Nat /\ c.from <= c.to /\ c.to <= hi
        BY <2>31, <2>32, LimitChunksTrue
      <3> QED  BY <2>31, <3>1
    <2>41. c.to - c.from \in Nat
      BY <2>4
    <2>5. \/ right = <<>>
          \/ \E f \in Frame : /\ right = <<f>> /\ TrueFrame(f, c.at + (c.to - c.from))
                              /\ FrameSize(f) \in Nat /\ FrameSize(f) <= room
      BY <2>4, <2>41, WriteChunkTrue
    <2> HIDE DEF right
    <2>6. Size(right) \in Nat
      BY <2>5 DEF Size
    <2>7. \/ left = <<>>
          \/ \E f \in Frame : /\ left = <<f>> /\ TrueFrame(f, 0 + c.left)
                              /\ FrameSize(f) \in Nat /\ FrameSize(f) <= room - Size(right)
      BY <2>4, <2>6, WriteChunkTrue
    <2> HIDE DEF left
    <2>8. \/ right = <<>>
          \/ \E f \in Frame : /\ right = <<f>> /\ TrueFrame(f, hi)
                              /\ FrameSize(f) \in Nat /\ FrameSize(f) <= room
      <3>1. c.at + (c.to - c.from) = c.to
        BY <2>4
      <3> QED  BY <2>4, <2>5, <3>1, TrueFrameBelow
    <2>9. \/ left = <<>>
          \/ \E f \in Frame : /\ left = <<f>> /\ TrueFrame(f, hi)
                              /\ FrameSize(f) \in Nat /\ FrameSize(f) <= room
      <3>1. c.left <= hi /\ 0 + c.left = c.left
        BY <2>2, <2>4
      <3> QED  BY <2>4, <2>6, <2>7, <3>1, TrueFrameBelow
    <2>10. CASE right = <<>>
      <3>1. fs = left
        BY <2>1, <2>9, <2>10
      <3> QED  BY <1>1, <1>2, <2>9, <3>1
    <2>11. CASE left = <<>>
      <3>1. fs = right
        BY <2>1, <2>8, <2>11
      <3> QED  BY <1>1, <1>2, <2>8, <3>1
    <2>12. CASE right # <<>> /\ left # <<>>
      <3>1. PICK f \in Frame : right = <<f>> /\ TrueFrame(f, hi)
        BY <2>8, <2>12
      <3>2. PICK g \in Frame : left = <<g>> /\ TrueFrame(g, hi)
        BY <2>9, <2>12
      <3>3. /\ right \in Seq(Frame) /\ left \in Seq(Frame) /\ Len(right) = 1 /\ Len(left) = 1
            /\ TrueFrames(right, hi) /\ TrueFrames(left, hi)
        BY <3>1, <3>2 DEF TrueFrames
      <3>4. fs \in Seq(Frame) /\ TrueFrames(fs, hi)
        BY <2>1, <3>3, Joined
      <3>5. Len(fs) = Len(right) + Len(left)
        BY <2>1, <3>3, ConcatProperties
      <3> QED  BY <3>3, <3>4, <3>5
    <2> QED  BY <2>10, <2>11, <2>12
  <1>5. CASE ~(SniSlicing /\ lo = 0 /\ FindSni(s, hi))
    <2>1. fs = WriteChunk(lo, lo, hi - lo, room)
      BY <1>5 DEF Chunks
    <2>2. hi - lo \in Nat /\ lo + (hi - lo) = hi
      OBVIOUS
    <2>3. \/ fs = <<>>
          \/ \E f \in Frame : /\ fs = <<f>> /\ TrueFrame(f, hi)
                              /\ FrameSize(f) \in Nat /\ FrameSize(f) <= room
      BY <2>1, <2>2, WriteChunkTrue
    <2> QED  BY <1>1, <1>2, <2>3
  <1> QED  BY <1>4, <1>5

\* A change of status, byte by byte.
LEMMA Marked ==
    ASSUME DOMAIN tx = Spaces, NEW s \in Spaces, NEW fs, NEW from, NEW to, Mark(s, fs, from, to)
    PROVE  /\ DOMAIN tx' = Spaces
           /\ tx'[s] = [o \in Offsets(s) |-> IF Covered(fs, o) /\ tx[s][o] \in from THEN to ELSE tx[s][o]]
           /\ \A r \in Spaces \ {s} : tx'[r] = tx[r]
  BY DEF Mark

-----------------------------------------------------------------------------
(***************************************************************************)
(* Each action keeps the invariant.                                        *)
(***************************************************************************)

\* NotStranded, said of packets and not of their frames.
Held(s, o) ==
    \/ \E k \in Slots : /\ flight[k] # None /\ flight[k].space = s /\ ~flight[k].lost
                        /\ Covered(flight[k].frames, o)
    \/ pkt # None /\ pkt.space = s /\ Covered(pkt.frames, o)

AllHeld ==
    \A s \in Spaces : \A o \in Offsets(s) : s >= stage /\ tx[s][o] = "sent" => Held(s, o)

\* The two ways of saying it agree.
LEMMA HeldIs == (NotStranded <=> AllHeld) /\ (NotStranded' <=> AllHeld')
  <1>1. ASSUME NEW s, NEW o  PROVE (\E fs \in Pending(s) : Covered(fs, o)) <=> Held(s, o)
    BY DEF Pending, Held
  <1>2. ASSUME NEW s, NEW o  PROVE (\E fs \in Pending(s) : Covered(fs, o))' <=> Held(s, o)'
    BY DEF Pending, Held, Covered
  <1> QED  BY <1>1, <1>2 DEF NotStranded, AllHeld

\* The constants' types, and the offsets of a space.
LEMMA OffsetsNat ==
    ASSUME NEW s \in Spaces
    PROVE  s \in Nat /\ MaxLen[s] \in Nat /\ Offsets(s) = 0 .. MaxLen[s] - 1 /\ Offsets(s) \subseteq Nat
  BY StreamsAssumption DEF Spaces, Initial, Handshake, ApplicationData, Offsets

\* True frames stay true when more is written.
LEMMA FramesGrow ==
    ASSUME NEW fs \in Seq(Frame), NEW a \in Nat, NEW b \in Nat, a <= b, TrueFrames(fs, a)
    PROVE  TrueFrames(fs, b)
  <1>1. ASSUME NEW i \in DOMAIN fs  PROVE TrueFrame(fs[i], b)
    <2>1. fs[i] \in Frame /\ TrueFrame(fs[i], a)
      BY DEF TrueFrames
    <2> QED  BY <2>1, TrueFrameBelow
  <1> QED  BY <1>1 DEF TrueFrames

\* send.
LEMMA SendKeeps ==
    ASSUME StreamInv, NEW s \in Spaces, NEW n \in Records[s], Send(s, n)  PROVE StreamInv'
  <1>1. /\ TypeOK /\ WrittenInv /\ FramesInv /\ GotInv /\ ArrivedInv /\ NotStranded /\ AckedArrived
        /\ n \in Nat \ {0} /\ pkt = None
    BY StreamsAssumption DEF StreamInv, Send, Live
  <1>2. /\ written \in [Spaces -> Nat] /\ DOMAIN tx = Spaces
        /\ \A r \in Spaces : written[r] <= MaxLen[r]
    BY <1>1 DEF TypeOK
  <1>3. /\ written' \in [Spaces -> Nat] /\ written'[s] = written[s] + n
        /\ \A r \in Spaces \ {s} : written'[r] = written[r]
        /\ \A r \in Spaces : written[r] <= written'[r] /\ written'[r] <= MaxLen[r]
    BY <1>1, <1>2 DEF Send, Live
  <1>4. /\ DOMAIN tx' = Spaces /\ \A r \in Spaces \ {s} : tx'[r] = tx[r]
        /\ tx'[s] = [o \in Offsets(s) |-> IF written[s] <= o /\ o < written[s] + n THEN "unsent" ELSE tx[s][o]]
    BY <1>2 DEF Send, Live
  <1>5. UNCHANGED <<stage, pkt, flight, rx, peerStage, got, exceeded, faults>>
    BY DEF Send, Live
  <1>6. \A r \in Spaces : /\ tx'[r] \in [Offsets(r) -> {"none", "unsent", "sent", "acked"}]
                          /\ \A o \in Offsets(r) : tx'[r][o] # "unsent" => tx'[r][o] = tx[r][o]
    <2>1. \A r \in Spaces : tx[r] \in [Offsets(r) -> {"none", "unsent", "sent", "acked"}]
      BY <1>1 DEF TypeOK
    <2>2. \A o \in Offsets(s) : tx'[s][o] \in {"unsent", tx[s][o]}
      BY <1>4
    <2>3. tx'[s] \in [Offsets(s) -> {"none", "unsent", "sent", "acked"}]
      BY <1>4, <2>1
    <2> QED  BY <1>4, <2>1, <2>2, <2>3
  <1>7. TypeOK'
    BY <1>1, <1>3, <1>4, <1>5, <1>6 DEF TypeOK
  <1>8. WrittenInv'
    <2> SUFFICES ASSUME NEW r \in Spaces, NEW o \in Offsets(r)
                 PROVE  /\ tx'[r][o] # "none" => o < written'[r]
                        /\ rx'[r][o] # None => rx'[r][o] = o /\ o < written'[r]
      BY DEF WrittenInv, Offsets
    <2>1. o \in Nat
      BY OffsetsNat
    <2> QED  BY <1>1, <1>2, <1>3, <1>4, <1>5, <2>1 DEF WrittenInv
  <1>9. FramesInv'
    <2>1. ASSUME NEW k \in Slots, flight[k] # None
          PROVE  TrueFrames(flight[k].frames, written'[flight[k].space])
      <3>1. flight[k].frames \in Seq(Frame) /\ flight[k].space \in Spaces
        BY <1>1, <2>1 DEF TypeOK, Packet
      <3>2. TrueFrames(flight[k].frames, written[flight[k].space])
        BY <1>1, <2>1 DEF FramesInv
      <3> QED  BY <1>2, <1>3, <3>1, <3>2, FramesGrow
    <2> QED  BY <1>1, <1>5, <2>1 DEF FramesInv
  <1>10. GotInv'
    <2>1. \A r \in Spaces : Len(got[r]) \in Nat
      BY <1>1 DEF TypeOK
    <2> QED  BY <1>1, <1>2, <1>3, <1>5, <2>1 DEF GotInv
  <1>11. ArrivedInv'
    BY <1>1, <1>5 DEF ArrivedInv, Covered
  <1>12. AllHeld'
    BY <1>1, <1>5, <1>6, HeldIs DEF AllHeld, Held, Covered, Offsets
  <1>13. AckedArrived'
    BY <1>1, <1>5, <1>6 DEF AckedArrived, Offsets
  <1> QED  BY <1>7, <1>8, <1>9, <1>10, <1>11, <1>12, <1>13, HeldIs DEF StreamInv

\* A packet that leaves takes a free place.
LEMMA Dispatched ==
    ASSUME TypeOK, pkt # None, NEW fs \in Seq(Frame), Dispatch(fs)
    PROVE  /\ pkt' = None /\ flight' \in [Slots -> Packet \cup {None}]
           /\ \A k \in Slots : flight[k] # None => flight'[k] = flight[k]
           /\ \A k \in Slots : flight'[k] # None =>
                \/ flight[k] # None /\ flight'[k] = flight[k]
                \/ flight'[k].space = pkt.space /\ flight'[k].frames = fs /\ ~flight'[k].arrived
           /\ fs # <<>> => \E k \in Slots : /\ flight'[k] # None /\ flight'[k].space = pkt.space
                                            /\ flight'[k].frames = fs /\ ~flight'[k].lost
  <1>1. flight \in [Slots -> Packet \cup {None}] /\ pkt \in Filling /\ pkt' = None
    BY DEF TypeOK, Dispatch
  <1>2. CASE fs = <<>>
    BY <1>1, <1>2 DEF Dispatch
  <1>3. CASE fs # <<>>
    <2> DEFINE p == [space |-> pkt.space, frames |-> fs, span |-> pkt.span,
                     lost |-> FALSE, arrived |-> FALSE]
    <2>1. PICK k \in Slots : flight[k] = None /\ flight' = [flight EXCEPT ![k] = p]
      BY <1>3 DEF Dispatch
    <2>2. p \in Packet /\ p # None
      <3>1. pkt.space \in Spaces /\ pkt.span \in Nat
        BY <1>1 DEF Filling
      <3>2. p \in Packet
        BY <3>1 DEF Packet
      <3> QED  BY <3>2, NoneAssumption
    <2>3. p.space = pkt.space /\ p.frames = fs /\ p.lost = FALSE /\ p.arrived = FALSE
      OBVIOUS
    <2> HIDE DEF p
    <2>4. flight'[k] = p /\ \A j \in Slots \ {k} : flight'[j] = flight[j]
      BY <1>1, <2>1
    <2>5. flight' \in [Slots -> Packet \cup {None}]
      BY <1>1, <2>1, <2>2
    <2> QED  BY <1>1, <2>1, <2>2, <2>3, <2>4, <2>5
  <1> QED  BY <1>2, <1>3

\* What a step of the sender leaves as it was, when it acknowledges nothing.
LEMMA SenderSteps ==
    ASSUME StreamInv, UNCHANGED <<written, stage, rx, peerStage, got, exceeded>>,
           faults' \in {faults, faults + 1},
           pkt' \in Filling \cup {None}, flight' \in [Slots -> Packet \cup {None}],
           DOMAIN tx' = Spaces, FramesInv', ArrivedInv', AllHeld',
           \A s \in Spaces : tx'[s] \in [Offsets(s) -> {"none", "unsent", "sent", "acked"}],
           \A s \in Spaces : \A o \in Offsets(s) : tx'[s][o] # "none" => tx[s][o] # "none",
           \A s \in Spaces : \A o \in Offsets(s) : tx'[s][o] = "acked" => tx[s][o] = "acked"
    PROVE  StreamInv'
  <1>1. TypeOK'
    BY DEF StreamInv, TypeOK
  <1>2. WrittenInv' /\ GotInv' /\ AckedArrived'
    BY DEF StreamInv, WrittenInv, GotInv, AckedArrived, Offsets
  <1> QED  BY <1>1, <1>2, HeldIs DEF StreamInv

\* write_frame is entered.
LEMMA BeginFramesKeeps ==
    ASSUME StreamInv, NEW s \in Spaces, NEW room \in Rooms, BeginFrames(s, room)  PROVE StreamInv'
  <1>1. /\ TypeOK /\ FramesInv /\ ArrivedInv /\ NotStranded /\ pkt = None /\ room \in Nat
    BY StreamsAssumption DEF StreamInv, BeginFrames, Live
  <1>2. UNCHANGED <<written, tx, stage, flight, rx, peerStage, got, exceeded, faults>>
    BY DEF BeginFrames, Live
  <1>3. \E n \in Nat : pkt' = [space |-> s, room |-> room, frames |-> <<>>, span |-> n]
    <2>1. PICK lo, hi \in 0 .. MaxLen[s] :
            pkt' = [space |-> s, room |-> room, frames |-> <<>>,
                    span |-> IF SniSlicing /\ lo = 0 /\ FindSni(s, hi) THEN hi ELSE 0]
      BY DEF BeginFrames, Live
    <2>2. PICK n \in Nat : n = IF SniSlicing /\ lo = 0 /\ FindSni(s, hi) THEN hi ELSE 0
      BY OffsetsNat
    <2> QED  BY <2>1, <2>2
  <1>4. pkt' \in Filling /\ pkt'.frames = <<>>
    BY <1>1, <1>3 DEF Filling
  <1>5. FramesInv'
    BY <1>1, <1>2, <1>4 DEF FramesInv, TrueFrames
  <1>6. ArrivedInv'
    BY <1>1, <1>2 DEF ArrivedInv, Covered
  <1>7. AllHeld'
    BY <1>1, <1>2, HeldIs DEF AllHeld, Held, Covered, Offsets
  <1> QED  BY <1>1, <1>2, <1>4, <1>5, <1>6, <1>7, SenderSteps DEF TypeOK

\* What is held by packets on their way stays held when one more leaves.
LEMMA DispatchKeeps ==
    ASSUME StreamInv, pkt # None, NEW fs \in Seq(Frame), Dispatch(fs),
           TrueFrames(fs, written[pkt.space]),
           UNCHANGED <<written, stage, rx, peerStage, got, exceeded, faults>>
    PROVE  /\ pkt' \in Filling \cup {None} /\ flight' \in [Slots -> Packet \cup {None}]
           /\ FramesInv' /\ ArrivedInv'
           /\ \A s \in Spaces : \A o \in Offsets(s) :
                \/ \E k \in Slots : /\ flight[k] # None /\ flight[k].space = s /\ ~flight[k].lost
                                    /\ Covered(flight[k].frames, o)
                \/ s = pkt.space /\ Covered(fs, o)
                => Held(s, o)'
  <1>1. TypeOK /\ FramesInv /\ ArrivedInv /\ flight \in [Slots -> Packet \cup {None}]
    BY DEF StreamInv, TypeOK
  <1>2. /\ pkt' = None /\ flight' \in [Slots -> Packet \cup {None}]
        /\ \A k \in Slots : flight[k] # None => flight'[k] = flight[k]
        /\ \A k \in Slots : flight'[k] # None =>
                \/ flight[k] # None /\ flight'[k] = flight[k]
                \/ flight'[k].space = pkt.space /\ flight'[k].frames = fs /\ ~flight'[k].arrived
        /\ fs # <<>> => \E k \in Slots : /\ flight'[k] # None /\ flight'[k].space = pkt.space
                                         /\ flight'[k].frames = fs /\ ~flight'[k].lost
    BY <1>1, Dispatched
  <1>3. FramesInv'
    BY <1>1, <1>2 DEF FramesInv
  <1>4. ArrivedInv'
    <2> SUFFICES ASSUME NEW k \in Slots, flight'[k] # None, flight'[k].arrived,
                        flight'[k].space >= peerStage
                 PROVE  \A o \in Offsets(flight'[k].space) :
                          Covered(flight'[k].frames, o) => rx[flight'[k].space][o] = o
      BY DEF ArrivedInv, Covered, Offsets
    <2>1. flight[k] # None /\ flight'[k] = flight[k]
      BY <1>2
    <2> QED  BY <1>1, <2>1 DEF ArrivedInv
  <1>5. ASSUME NEW s \in Spaces, NEW o \in Offsets(s),
               \E k \in Slots : /\ flight[k] # None /\ flight[k].space = s /\ ~flight[k].lost
                                /\ Covered(flight[k].frames, o)
        PROVE  Held(s, o)'
    BY <1>2, <1>5 DEF Held, Covered
  <1>6. ASSUME NEW s \in Spaces, NEW o \in Offsets(s), s = pkt.space, Covered(fs, o)
        PROVE  Held(s, o)'
    <2>1. fs # <<>>
      BY <1>6 DEF Covered
    <2> QED  BY <1>2, <1>6, <2>1 DEF Held, Covered
  <1> QED  BY <1>2, <1>3, <1>4, <1>5, <1>6

\* One turn of write_frame's loop.
LEMMA WriteFrameKeeps ==
    ASSUME StreamInv, WriteFrame  PROVE StreamInv'
  <1>1. /\ TypeOK /\ WrittenInv /\ FramesInv /\ ArrivedInv /\ NotStranded
        /\ pkt # None /\ pkt \in Filling /\ DOMAIN tx = Spaces /\ written \in [Spaces -> Nat]
    BY DEF StreamInv, WriteFrame, TypeOK
  <1>2. PICK s \in Spaces : s = pkt.space
    BY <1>1 DEF Filling
  <1>3. UNCHANGED <<written, stage, rx, peerStage, got, exceeded, faults>>
    BY DEF WriteFrame
  <1>4. PICK lo \in 0 .. MaxLen[s], hi \in 0 .. MaxLen[s] :
          /\ NextBytes(s, lo, hi)
          /\ \E fs \in {Chunks(s, lo, hi, pkt.room)} :
               /\ Mark(s, fs, {"unsent"}, "sent")
               /\ \/ /\ Len(fs) = 1
                     /\ pkt' = [pkt EXCEPT !.frames = @ \o fs, !.room = @ - Size(fs)]
                     /\ UNCHANGED flight
                  \/ Len(fs) # 1 /\ Dispatch(pkt.frames \o fs)
    BY <1>2 DEF WriteFrame
  <1>5. PICK fs : /\ fs = Chunks(s, lo, hi, pkt.room) /\ Mark(s, fs, {"unsent"}, "sent")
                  /\ \/ /\ Len(fs) = 1
                        /\ pkt' = [pkt EXCEPT !.frames = @ \o fs, !.room = @ - Size(fs)]
                        /\ UNCHANGED flight
                     \/ Len(fs) # 1 /\ Dispatch(pkt.frames \o fs)
    BY <1>4
  <1>6. lo \in Nat /\ hi \in Nat /\ lo < hi /\ hi <= MaxLen[s] /\ hi <= written[s]
    <2>1. lo \in Nat /\ hi \in Nat /\ lo < hi /\ hi <= MaxLen[s] /\ MaxLen[s] \in Nat
      BY <1>4, OffsetsNat DEF NextBytes
    <2>2. hi - 1 \in Offsets(s) /\ tx[s][hi - 1] = "unsent"
      BY <1>4, <2>1 DEF NextBytes, Offsets
    <2>3. hi - 1 < written[s] /\ written[s] \in Nat
      BY <1>1, <2>2 DEF WrittenInv
    <2> QED  BY <2>1, <2>3
  <1>7. pkt.room \in Nat /\ pkt.frames \in Seq(Frame) /\ pkt.span \in Nat
    BY <1>1 DEF Filling
  <1>8. /\ fs \in Seq(Frame) /\ TrueFrames(fs, written[s])
        /\ Len(fs) = 1 => pkt.room - Size(fs) \in Nat
    <2>1. /\ fs \in Seq(Frame) /\ TrueFrames(fs, hi)
          /\ Len(fs) = 1 => pkt.room - Size(fs) \in Nat
      BY <1>5, <1>6, <1>7, ChunksTrue
    <2>2. written[s] \in Nat
      BY <1>1
    <2> QED  BY <1>6, <2>1, <2>2, FramesGrow
  <1>9. PICK all \in Seq(Frame) :
          /\ all = pkt.frames \o fs /\ TrueFrames(all, written[s])
          /\ \A o \in Nat : Covered(all, o) <=> Covered(pkt.frames, o) \/ Covered(fs, o)
    <2>1. TrueFrames(pkt.frames, written[s])
      BY <1>1, <1>2 DEF FramesInv
    <2> QED  BY <1>7, <1>8, <2>1, Joined
  <1>10. /\ DOMAIN tx' = Spaces /\ \A r \in Spaces \ {s} : tx'[r] = tx[r]
         /\ tx'[s] = [o \in Offsets(s) |-> IF Covered(fs, o) /\ tx[s][o] \in {"unsent"} THEN "sent" ELSE tx[s][o]]
    BY <1>1, <1>5, Marked
  <1>11. /\ \A r \in Spaces : tx'[r] \in [Offsets(r) -> {"none", "unsent", "sent", "acked"}]
         /\ \A r \in Spaces : \A o \in Offsets(r) :
              /\ tx'[r][o] # "none" => tx[r][o] # "none"
              /\ tx'[r][o] = "acked" => tx[r][o] = "acked"
              /\ tx'[r][o] = "sent" => tx[r][o] = "sent" \/ (r = s /\ Covered(fs, o))
    <2>1. \A r \in Spaces : tx[r] \in [Offsets(r) -> {"none", "unsent", "sent", "acked"}]
      BY <1>1 DEF TypeOK
    <2>2. tx'[s] \in [Offsets(s) -> {"none", "unsent", "sent", "acked"}]
      BY <1>10, <2>1
    <2>3. \A o \in Offsets(s) :
              /\ tx'[s][o] # "none" => tx[s][o] # "none"
              /\ tx'[s][o] = "acked" => tx[s][o] = "acked"
              /\ tx'[s][o] = "sent" => tx[s][o] = "sent" \/ Covered(fs, o)
      BY <1>10
    <2> QED  BY <1>10, <2>1, <2>2, <2>3
  <1>12. ASSUME NEW r \in Spaces, NEW o \in Offsets(r), r >= stage, tx'[r][o] = "sent"
         PROVE  \/ \E k \in Slots : /\ flight[k] # None /\ flight[k].space = r /\ ~flight[k].lost
                                    /\ Covered(flight[k].frames, o)
                \/ r = pkt.space /\ Covered(all, o)
    <2>1. o \in Nat
      BY OffsetsNat
    <2>2. tx[r][o] = "sent" => Held(r, o)
      BY <1>1, <1>12, HeldIs DEF AllHeld
    <2> QED  BY <1>2, <1>9, <1>11, <1>12, <2>1, <2>2 DEF Held
  <1>13. CASE Len(fs) = 1 /\ pkt' = [pkt EXCEPT !.frames = @ \o fs, !.room = @ - Size(fs)] /\ UNCHANGED flight
    <2>1. PICK room \in Nat : room = pkt.room - Size(fs)
      BY <1>8, <1>13
    <2>2. pkt' = [pkt EXCEPT !.frames = all, !.room = room]
      BY <1>9, <1>13, <2>1, Zenon
    <2>3. pkt' \in Filling /\ pkt'.space = s /\ pkt'.frames = all
      BY <1>1, <1>2, <2>2 DEF Filling
    <2>4. pkt' # None
      BY <2>3, NoneAssumption
    <2>5. FramesInv'
      BY <1>1, <1>3, <1>9, <1>13, <2>3 DEF FramesInv
    <2>6. ArrivedInv'
      BY <1>1, <1>3, <1>13 DEF ArrivedInv, Covered
    <2>7. AllHeld'
      <3>1. SUFFICES ASSUME NEW r \in Spaces, NEW o \in Offsets(r), r >= stage', tx'[r][o] = "sent"
                     PROVE  Held(r, o)'
        BY DEF AllHeld, Offsets
      <3>2. CASE r = pkt.space /\ Covered(all, o)
        BY <1>2, <2>3, <2>4, <3>2 DEF Held, Covered
      <3>3. CASE \E k \in Slots : /\ flight[k] # None /\ flight[k].space = r /\ ~flight[k].lost
                                  /\ Covered(flight[k].frames, o)
        BY <1>13, <3>3 DEF Held, Covered
      <3> QED  BY <1>3, <1>12, <3>1, <3>2, <3>3
    <2> QED  BY <1>1, <1>3, <1>10, <1>11, <1>13, <2>3, <2>5, <2>6, <2>7, SenderSteps DEF TypeOK
  <1>14. CASE Len(fs) # 1 /\ Dispatch(pkt.frames \o fs)
    <2>1. Dispatch(all)
      BY <1>9, <1>14
    <2>2. /\ pkt' \in Filling \cup {None} /\ flight' \in [Slots -> Packet \cup {None}]
          /\ FramesInv' /\ ArrivedInv'
          /\ \A r \in Spaces : \A o \in Offsets(r) :
                \/ \E k \in Slots : /\ flight[k] # None /\ flight[k].space = r /\ ~flight[k].lost
                                    /\ Covered(flight[k].frames, o)
                \/ r = pkt.space /\ Covered(all, o)
                => Held(r, o)'
      BY <1>1, <1>2, <1>3, <1>9, <2>1, DispatchKeeps
    <2>3. AllHeld'
      <3> SUFFICES ASSUME NEW r \in Spaces, NEW o \in Offsets(r), r >= stage, tx'[r][o] = "sent"
                   PROVE  Held(r, o)'
        BY <1>3 DEF AllHeld, Offsets
      <3> QED  BY <1>12, <2>2
    <2> QED  BY <1>3, <1>10, <1>11, <2>2, <2>3, SenderSteps
  <1> QED  BY <1>5, <1>13, <1>14

\* The end of the loop.
LEMMA EndFramesKeeps ==
    ASSUME StreamInv, EndFrames  PROVE StreamInv'
  <1>1. /\ TypeOK /\ FramesInv /\ NotStranded /\ pkt # None /\ pkt \in Filling /\ Dispatch(pkt.frames)
        /\ UNCHANGED <<written, tx, stage, rx, peerStage, got, exceeded, faults>>
    BY DEF StreamInv, EndFrames, TypeOK
  <1>2. PICK fs \in Seq(Frame) : fs = pkt.frames /\ TrueFrames(fs, written[pkt.space])
    BY <1>1 DEF Filling, FramesInv
  <1>3. /\ pkt' \in Filling \cup {None} /\ flight' \in [Slots -> Packet \cup {None}]
        /\ FramesInv' /\ ArrivedInv'
        /\ \A r \in Spaces : \A o \in Offsets(r) :
                \/ \E k \in Slots : /\ flight[k] # None /\ flight[k].space = r /\ ~flight[k].lost
                                    /\ Covered(flight[k].frames, o)
                \/ r = pkt.space /\ Covered(fs, o)
                => Held(r, o)'
    BY <1>1, <1>2, DispatchKeeps
  <1>4. AllHeld'
    <2> SUFFICES ASSUME NEW r \in Spaces, NEW o \in Offsets(r), r >= stage, tx[r][o] = "sent"
                 PROVE  Held(r, o)'
      BY <1>1 DEF AllHeld, Offsets
    <2>1. Held(r, o)
      BY <1>1, HeldIs DEF AllHeld
    <2> QED  BY <1>2, <1>3, <2>1 DEF Held
  <1> QED  BY <1>1, <1>3, <1>4, SenderSteps DEF TypeOK

\* A packet that is in flight.
LEMMA InFlight ==
    ASSUME StreamInv, NEW k \in Slots, flight[k] # None
    PROVE  /\ flight \in [Slots -> Packet \cup {None}] /\ flight[k] \in Packet
           /\ flight[k].space \in Spaces /\ flight[k].frames \in Seq(Frame)
           /\ TrueFrames(flight[k].frames, written[flight[k].space])
           /\ flight[k].lost \in BOOLEAN /\ flight[k].arrived \in BOOLEAN
  <1>1. flight \in [Slots -> Packet \cup {None}] /\ flight[k] \in Packet
    BY DEF StreamInv, TypeOK
  <1>2. TrueFrames(flight[k].frames, written[flight[k].space])
    BY DEF StreamInv, FramesInv
  <1> QED  BY <1>1, <1>2 DEF Packet

\* A change of status that makes nothing of none, and only what tokens name acked.
LEMMA MarkedTypes ==
    ASSUME TypeOK, NEW s \in Spaces, NEW fs, NEW from \in SUBSET {"unsent", "sent"},
           NEW to \in {"unsent", "sent", "acked"}, Mark(s, fs, from, to)
    PROVE  /\ DOMAIN tx' = Spaces
           /\ \A r \in Spaces : tx'[r] \in [Offsets(r) -> {"none", "unsent", "sent", "acked"}]
           /\ \A r \in Spaces : \A o \in Offsets(r) :
                /\ tx'[r][o] # "none" => tx[r][o] # "none"
                /\ tx'[r][o] = tx[r][o] \/ (r = s /\ Covered(fs, o) /\ tx'[r][o] = to)
                /\ r = s /\ Covered(fs, o) => tx'[r][o] \notin from \/ to \in from
  <1>1. /\ DOMAIN tx = Spaces
        /\ \A r \in Spaces : tx[r] \in [Offsets(r) -> {"none", "unsent", "sent", "acked"}]
    BY DEF TypeOK
  <1>2. /\ DOMAIN tx' = Spaces
        /\ tx'[s] = [o \in Offsets(s) |-> IF Covered(fs, o) /\ tx[s][o] \in from THEN to ELSE tx[s][o]]
        /\ \A r \in Spaces \ {s} : tx'[r] = tx[r]
    BY <1>1, Marked
  <1>3. tx'[s] \in [Offsets(s) -> {"none", "unsent", "sent", "acked"}]
    BY <1>1, <1>2
  <1>4. \A o \in Offsets(s) :
                /\ tx'[s][o] # "none" => tx[s][o] # "none"
                /\ tx'[s][o] = tx[s][o] \/ (Covered(fs, o) /\ tx'[s][o] = to)
                /\ Covered(fs, o) => tx'[s][o] \notin from \/ to \in from
    BY <1>2
  <1> QED  BY <1>1, <1>2, <1>3, <1>4

\* acked.
LEMMA AckedKeeps ==
    ASSUME StreamInv, NEW k \in Slots, Acked(k)  PROVE StreamInv'
  <1>1. /\ TypeOK /\ WrittenInv /\ FramesInv /\ GotInv /\ ArrivedInv /\ NotStranded /\ AckedArrived
        /\ pkt = None /\ flight[k] # None /\ flight[k].arrived
    BY DEF StreamInv, Acked, Live
  <1>2. /\ flight' = [flight EXCEPT ![k] = None]
        /\ UNCHANGED <<written, stage, pkt, rx, peerStage, got, exceeded, faults>>
    BY DEF Acked, Live
  <1>3. /\ flight \in [Slots -> Packet \cup {None}] /\ flight[k].space \in Spaces
    BY <1>1, InFlight
  <1>4. /\ flight'[k] = None /\ \A j \in Slots \ {k} : flight'[j] = flight[j]
        /\ flight' \in [Slots -> Packet \cup {None}]
    BY <1>2, <1>3
  <1>5. /\ DOMAIN tx' = Spaces
        /\ \A r \in Spaces : tx'[r] \in [Offsets(r) -> {"none", "unsent", "sent", "acked"}]
        /\ \A r \in Spaces : \A o \in Offsets(r) :
             /\ tx'[r][o] # "none" => tx[r][o] # "none"
             /\ tx'[r][o] = tx[r][o]
                  \/ (r = flight[k].space /\ Covered(flight[k].frames, o) /\ tx'[r][o] = "acked")
             /\ r >= stage /\ r = flight[k].space /\ Covered(flight[k].frames, o)
                  => tx'[r][o] \notin {"unsent", "sent"}
    <2>1. CASE flight[k].space >= stage
      <3>1. Mark(flight[k].space, flight[k].frames, {"unsent", "sent"}, "acked")
        BY <2>1 DEF Acked, Live
      <3> QED  BY <1>1, <1>3, <3>1, MarkedTypes
    <2>2. CASE ~(flight[k].space >= stage)
      <3>1. tx' = tx
        BY <2>2 DEF Acked, Live
      <3> QED  BY <1>1, <2>2, <3>1 DEF TypeOK
    <2> QED  BY <2>1, <2>2
  <1>6. TypeOK'
    BY <1>1, <1>2, <1>4, <1>5 DEF TypeOK
  <1>7. WrittenInv' /\ GotInv'
    BY <1>1, <1>2, <1>5 DEF WrittenInv, GotInv, Offsets
  <1>8. FramesInv'
    BY <1>1, <1>2, <1>4 DEF FramesInv
  <1>9. ArrivedInv'
    <2> SUFFICES ASSUME NEW j \in Slots, flight'[j] # None, flight'[j].arrived,
                        flight'[j].space >= peerStage
                 PROVE  \A o \in Offsets(flight'[j].space) :
                          Covered(flight'[j].frames, o) => rx[flight'[j].space][o] = o
      BY <1>2 DEF ArrivedInv, Covered, Offsets
    <2>1. flight'[j] = flight[j]
      BY <1>4
    <2> QED  BY <1>1, <2>1 DEF ArrivedInv
  <1>10. AllHeld'
    <2> SUFFICES ASSUME NEW r \in Spaces, NEW o \in Offsets(r), r >= stage, tx'[r][o] = "sent"
                 PROVE  Held(r, o)'
      BY <1>2 DEF AllHeld, Offsets
    <2>1. tx[r][o] = "sent" /\ ~(r = flight[k].space /\ Covered(flight[k].frames, o))
      BY <1>5
    <2>2. Held(r, o)
      BY <1>1, <2>1, HeldIs DEF AllHeld
    <2>3. PICK j \in Slots : /\ flight[j] # None /\ flight[j].space = r /\ ~flight[j].lost
                             /\ Covered(flight[j].frames, o)
      BY <1>1, <2>2 DEF Held
    <2>4. flight'[j] = flight[j]
      BY <1>4, <2>1, <2>3
    <2> QED  BY <2>3, <2>4 DEF Held, Covered
  <1>11. AckedArrived'
    <2> SUFFICES ASSUME NEW r \in Spaces, r >= stage, r >= peerStage, NEW o \in Offsets(r),
                        tx'[r][o] = "acked"
                 PROVE  rx[r][o] = o
      BY <1>2 DEF AckedArrived, Offsets
    <2>1. CASE tx[r][o] = "acked"
      BY <1>1, <2>1 DEF AckedArrived
    <2>2. CASE tx[r][o] # "acked"
      BY <1>1, <1>5, <2>2 DEF ArrivedInv
    <2> QED  BY <2>1, <2>2
  <1> QED  BY <1>6, <1>7, <1>8, <1>9, <1>10, <1>11, HeldIs DEF StreamInv

\* lost.
LEMMA LostKeeps ==
    ASSUME StreamInv, NEW k \in Slots, Lost(k)  PROVE StreamInv'
  <1>1. /\ TypeOK /\ FramesInv /\ ArrivedInv /\ NotStranded
        /\ pkt = None /\ flight[k] # None
    BY DEF StreamInv, Lost, Live
  <1>2. /\ flight' = [flight EXCEPT ![k].lost = TRUE] /\ faults' = faults + 1
        /\ UNCHANGED <<written, stage, pkt, rx, peerStage, got, exceeded>>
    BY DEF Lost, Live
  <1>3. /\ flight \in [Slots -> Packet \cup {None}] /\ flight[k] \in Packet
        /\ flight[k].space \in Spaces
    BY <1>1, InFlight
  <1>4. /\ flight'[k] = [flight[k] EXCEPT !.lost = TRUE]
        /\ \A j \in Slots \ {k} : flight'[j] = flight[j]
    BY <1>2, <1>3
  <1>5. /\ flight'[k] \in Packet /\ flight'[k].space = flight[k].space
        /\ flight'[k].frames = flight[k].frames /\ flight'[k].arrived = flight[k].arrived
    BY <1>3, <1>4 DEF Packet
  <1>6. flight' \in [Slots -> Packet \cup {None}]
    <2>1. flight' = [j \in Slots |-> flight'[j]]
      BY <1>2, <1>3
    <2> QED  BY <1>3, <1>4, <1>5, <2>1
  <1>7. /\ DOMAIN tx' = Spaces
        /\ \A r \in Spaces : tx'[r] \in [Offsets(r) -> {"none", "unsent", "sent", "acked"}]
        /\ \A r \in Spaces : \A o \in Offsets(r) :
             /\ tx'[r][o] # "none" => tx[r][o] # "none"
             /\ tx'[r][o] \in {tx[r][o], "unsent"}
             /\ r >= stage /\ r = flight[k].space /\ Covered(flight[k].frames, o)
                  => tx'[r][o] # "sent"
    <2>1. CASE flight[k].space >= stage
      <3>1. Mark(flight[k].space, flight[k].frames, {"sent"}, "unsent")
        BY <2>1 DEF Lost, Live
      <3> QED  BY <1>1, <1>3, <3>1, MarkedTypes
    <2>2. CASE ~(flight[k].space >= stage)
      <3>1. tx' = tx
        BY <2>2 DEF Lost, Live
      <3> QED  BY <1>1, <2>2, <3>1 DEF TypeOK
    <2> QED  BY <2>1, <2>2
  <1>8. FramesInv'
    BY <1>1, <1>2, <1>4, <1>5 DEF FramesInv
  <1>9. ArrivedInv'
    <2> SUFFICES ASSUME NEW j \in Slots, flight'[j] # None, flight'[j].arrived,
                        flight'[j].space >= peerStage
                 PROVE  \A o \in Offsets(flight'[j].space) :
                          Covered(flight'[j].frames, o) => rx[flight'[j].space][o] = o
      BY <1>2 DEF ArrivedInv, Covered, Offsets
    <2>1. /\ flight[j] # None /\ flight'[j].frames = flight[j].frames
          /\ flight'[j].space = flight[j].space /\ flight'[j].arrived = flight[j].arrived
      BY <1>1, <1>4, <1>5
    <2> QED  BY <1>1, <2>1 DEF ArrivedInv
  <1>10. AllHeld'
    <2> SUFFICES ASSUME NEW r \in Spaces, NEW o \in Offsets(r), r >= stage, tx'[r][o] = "sent"
                 PROVE  Held(r, o)'
      BY <1>2 DEF AllHeld, Offsets
    <2>1. tx[r][o] = "sent" /\ ~(r = flight[k].space /\ Covered(flight[k].frames, o))
      BY <1>7
    <2>2. Held(r, o)
      BY <1>1, <2>1, HeldIs DEF AllHeld
    <2>3. PICK j \in Slots : /\ flight[j] # None /\ flight[j].space = r /\ ~flight[j].lost
                             /\ Covered(flight[j].frames, o)
      BY <1>1, <2>2 DEF Held
    <2>4. flight'[j] = flight[j]
      BY <1>4, <2>1, <2>3
    <2> QED  BY <2>3, <2>4 DEF Held, Covered
  <1> QED  BY <1>1, <1>2, <1>6, <1>7, <1>8, <1>9, <1>10, SenderSteps DEF TypeOK

\* Loss recovery forgets a packet.
LEMMA ForgetKeeps ==
    ASSUME StreamInv, NEW k \in Slots, Forget(k)  PROVE StreamInv'
  <1>1. /\ TypeOK /\ FramesInv /\ ArrivedInv /\ NotStranded
        /\ flight[k] # None /\ (flight[k].lost \/ flight[k].space < stage)
    BY DEF StreamInv, Forget
  <1>2. /\ flight' = [flight EXCEPT ![k] = None]
        /\ UNCHANGED <<written, tx, stage, pkt, rx, peerStage, got, exceeded, faults>>
    BY DEF Forget
  <1>3. flight \in [Slots -> Packet \cup {None}] /\ flight[k].space \in Spaces /\ stage \in Nat
    BY <1>1, InFlight, OffsetsNat DEF TypeOK
  <1>4. /\ flight'[k] = None /\ \A j \in Slots \ {k} : flight'[j] = flight[j]
        /\ flight' \in [Slots -> Packet \cup {None}]
    BY <1>2, <1>3
  <1>5. FramesInv'
    BY <1>1, <1>2, <1>4 DEF FramesInv
  <1>6. ArrivedInv'
    <2> SUFFICES ASSUME NEW j \in Slots, flight'[j] # None, flight'[j].arrived,
                        flight'[j].space >= peerStage
                 PROVE  \A o \in Offsets(flight'[j].space) :
                          Covered(flight'[j].frames, o) => rx[flight'[j].space][o] = o
      BY <1>2 DEF ArrivedInv, Covered, Offsets
    <2>1. flight'[j] = flight[j]
      BY <1>4
    <2> QED  BY <1>1, <2>1 DEF ArrivedInv
  <1>7. AllHeld'
    <2> SUFFICES ASSUME NEW r \in Spaces, NEW o \in Offsets(r), r >= stage, tx[r][o] = "sent"
                 PROVE  Held(r, o)'
      BY <1>2 DEF AllHeld, Offsets
    <2>1. Held(r, o) /\ r \in Nat
      BY <1>1, HeldIs, OffsetsNat DEF AllHeld
    <2>2. ASSUME NEW j \in Slots, flight[j] # None, flight[j].space = r, ~flight[j].lost
          PROVE  flight'[j] = flight[j]
      BY <1>1, <1>3, <1>4, <2>1, <2>2
    <2> QED  BY <1>2, <2>1, <2>2 DEF Held, Covered
  <1> QED  BY <1>1, <1>2, <1>4, <1>5, <1>6, <1>7, SenderSteps DEF TypeOK

\* resend_unacked.
LEMMA ResendKeeps ==
    ASSUME StreamInv, NEW s \in Spaces, ResendUnacked(s)  PROVE StreamInv'
  <1>1. /\ TypeOK /\ FramesInv /\ ArrivedInv /\ NotStranded /\ DOMAIN tx = Spaces
        /\ \A r \in Spaces : tx[r] \in [Offsets(r) -> {"none", "unsent", "sent", "acked"}]
    BY DEF StreamInv, TypeOK
  <1>2. /\ tx' = [tx EXCEPT ![s] = [o \in Offsets(s) |-> IF @[o] = "sent" THEN "unsent" ELSE @[o]]]
        /\ faults' = faults + 1
        /\ UNCHANGED <<written, stage, pkt, flight, rx, peerStage, got, exceeded>>
    BY DEF ResendUnacked, Live
  <1>3. /\ DOMAIN tx' = Spaces /\ \A r \in Spaces \ {s} : tx'[r] = tx[r]
        /\ tx'[s] = [o \in Offsets(s) |-> IF tx[s][o] = "sent" THEN "unsent" ELSE tx[s][o]]
    BY <1>1, <1>2
  <1>4. tx'[s] \in [Offsets(s) -> {"none", "unsent", "sent", "acked"}]
    BY <1>1, <1>3
  <1>5. \A r \in Spaces : \A o \in Offsets(r) : /\ tx'[r][o] # "none" => tx[r][o] # "none"
                                                /\ tx'[r][o] \in {tx[r][o], "unsent"}
    BY <1>3
  <1>6. FramesInv' /\ ArrivedInv'
    BY <1>1, <1>2 DEF FramesInv, ArrivedInv, Covered
  <1>7. AllHeld'
    BY <1>1, <1>2, <1>5, HeldIs DEF AllHeld, Held, Covered, Offsets
  <1>8. \A r \in Spaces : tx'[r] \in [Offsets(r) -> {"none", "unsent", "sent", "acked"}]
    BY <1>1, <1>3, <1>4
  <1> QED  BY <1>1, <1>2, <1>3, <1>5, <1>6, <1>7, <1>8, SenderSteps DEF TypeOK

\* discard, at the sender.
LEMMA DiscardKeeps ==
    ASSUME StreamInv, NEW s \in Spaces, Discard(s)  PROVE StreamInv'
  <1>1. /\ TypeOK /\ WrittenInv /\ FramesInv /\ GotInv /\ ArrivedInv /\ NotStranded /\ AckedArrived
        /\ DOMAIN tx = Spaces
        /\ \A r \in Spaces : tx[r] \in [Offsets(r) -> {"none", "unsent", "sent", "acked"}]
    BY DEF StreamInv, TypeOK
  <1>2. /\ stage = s /\ s # ApplicationData /\ stage' = s + 1
        /\ tx' = [tx EXCEPT ![s] = [o \in Offsets(s) |-> "none"]]
        /\ UNCHANGED <<written, pkt, flight, rx, peerStage, got, exceeded, faults>>
    BY DEF Discard
  <1>3. stage' \in Spaces
    BY <1>2 DEF Spaces, Initial, Handshake, ApplicationData
  <1>4. /\ DOMAIN tx' = Spaces /\ \A r \in Spaces \ {s} : tx'[r] = tx[r]
        /\ tx'[s] = [o \in Offsets(s) |-> "none"]
    BY <1>1, <1>2
  <1>5. TypeOK'
    BY <1>1, <1>2, <1>3, <1>4 DEF TypeOK
  <1>6. WrittenInv' /\ GotInv' /\ FramesInv' /\ ArrivedInv'
    <2>1. WrittenInv'
      BY <1>1, <1>2, <1>4 DEF WrittenInv, Offsets
    <2> QED  BY <1>1, <1>2, <2>1 DEF GotInv, FramesInv, ArrivedInv, Covered
  <1>7. \A r \in Spaces : r >= stage' => r >= stage /\ r # s
    BY <1>2, OffsetsNat
  <1>8. AllHeld' /\ AckedArrived'
    BY <1>1, <1>2, <1>4, <1>7, HeldIs DEF AllHeld, Held, AckedArrived, Covered, Offsets
  <1> QED  BY <1>5, <1>6, <1>8, HeldIs DEF StreamInv

\* What true frames bring for an offset is the byte of that offset.
LEMMA BringsTrue ==
    ASSUME NEW fs \in Seq(Frame), NEW end \in Nat, TrueFrames(fs, end), NEW o \in Nat
    PROVE  /\ Carried(fs, o) <=> Covered(fs, o)
           /\ Carried(fs, o) => Brings(fs, o) = o /\ o < end
  <1>1. ASSUME NEW i \in DOMAIN fs
        PROVE  /\ fs[i].offset \in Nat /\ fs[i].len \in Nat /\ fs[i].from = fs[i].offset
               /\ fs[i].token = fs[i].len /\ fs[i].offset + fs[i].len <= end
    <2>1. fs[i] \in Frame /\ TrueFrame(fs[i], end)
      BY DEF TrueFrames
    <2> QED  BY <2>1 DEF TrueFrame, Frame
  <1>2. Carried(fs, o) <=> Covered(fs, o)
    BY <1>1 DEF Carried, Covered, At
  <1>3. ASSUME Carried(fs, o)  PROVE Brings(fs, o) = o /\ o < end
    <2>1. PICK i \in DOMAIN fs : i = CHOOSE j \in DOMAIN fs : At(fs[j], o)
      BY <1>3 DEF Carried
    <2>2. At(fs[i], o)
      BY <1>3, <2>1 DEF Carried
    <2>3. Brings(fs, o) = fs[i].from + (o - fs[i].offset)
      BY <2>1 DEF Brings
    <2> QED  BY <1>1, <2>2, <2>3 DEF At
  <1> QED  BY <1>2, <1>3

\* inbound_frame.
LEMMA InboundKeeps ==
    ASSUME StreamInv, NEW k \in Slots, InboundFrames(k)  PROVE StreamInv'
  <1>1. /\ TypeOK /\ WrittenInv /\ FramesInv /\ GotInv /\ ArrivedInv /\ NotStranded /\ AckedArrived
        /\ flight[k] # None /\ written \in [Spaces -> Nat] /\ DOMAIN rx = Spaces
        /\ \A r \in Spaces : rx[r] \in [Offsets(r) -> Nat \cup {None}]
    BY DEF StreamInv, TypeOK, InboundFrames
  <1>2. PICK s \in Spaces, fs \in Seq(Frame) :
          /\ s = flight[k].space /\ fs = flight[k].frames /\ TrueFrames(fs, written[s])
    BY <1>1, InFlight
  <1>3. PICK q : /\ q = [o \in Offsets(s) |-> IF rx[s][o] = None /\ Carried(fs, o)
                                               THEN Brings(fs, o) ELSE rx[s][o]]
                 /\ rx' = [rx EXCEPT ![s] = q]
                 /\ exceeded' = (Cardinality(Buffered(q, Len(got[s]))) > BufferLimit)
    BY <1>2 DEF InboundFrames
  <1>4. PICK b \in BOOLEAN :
          /\ flight' = [flight EXCEPT ![k].arrived = b]
          /\ UNCHANGED <<written, tx, stage, pkt, peerStage, got, faults>>
    <2>1. (flight[k].arrived \/ ~exceeded') \in BOOLEAN
      OBVIOUS
    <2> QED  BY <2>1 DEF InboundFrames
  <1>5. ASSUME NEW o \in Offsets(s)
        PROVE  /\ q[o] # None => q[o] = o /\ o < written[s]
               /\ rx[s][o] = o => q[o] = o
               /\ Covered(fs, o) => q[o] = o
               /\ q[o] \in Nat \cup {None}
    <2>1. o \in Nat /\ written[s] \in Nat
      BY <1>1, OffsetsNat
    <2>2. /\ Carried(fs, o) <=> Covered(fs, o)
          /\ Carried(fs, o) => Brings(fs, o) = o /\ o < written[s]
      BY <1>2, <2>1, BringsTrue
    <2>3. rx[s][o] # None => rx[s][o] = o /\ o < written[s]
      BY <1>1 DEF WrittenInv
    <2>4. q[o] = IF rx[s][o] = None /\ Carried(fs, o) THEN Brings(fs, o) ELSE rx[s][o]
      BY <1>3
    <2> QED  BY <2>1, <2>2, <2>3, <2>4
  <1>6. /\ DOMAIN rx' = Spaces /\ rx'[s] = q /\ \A r \in Spaces \ {s} : rx'[r] = rx[r]
    BY <1>1, <1>3
  <1>7. q \in [Offsets(s) -> Nat \cup {None}]
    BY <1>3, <1>5
  <1>8. /\ flight \in [Slots -> Packet \cup {None}] /\ flight[k] \in Packet
    BY <1>1, InFlight
  <1>9. /\ flight'[k] = [flight[k] EXCEPT !.arrived = b]
        /\ \A j \in Slots \ {k} : flight'[j] = flight[j]
    BY <1>4, <1>8
  <1>10. /\ flight'[k] \in Packet /\ flight'[k].space = s /\ flight'[k].frames = fs
         /\ flight'[k].lost = flight[k].lost /\ flight'[k] # None
    BY <1>2, <1>8, <1>9, NoneAssumption DEF Packet
  <1>11. flight' \in [Slots -> Packet \cup {None}]
    <2>1. flight' = [j \in Slots |-> flight'[j]]
      BY <1>4, <1>8
    <2> QED  BY <1>8, <1>9, <1>10, <2>1
  <1>12. TypeOK'
    <2>1. exceeded' \in BOOLEAN
      BY <1>3
    <2> QED  BY <1>1, <1>4, <1>6, <1>7, <1>11, <2>1 DEF TypeOK
  <1>13. WrittenInv'
    BY <1>1, <1>4, <1>5, <1>6 DEF WrittenInv, Offsets
  <1>14. FramesInv' /\ GotInv'
    BY <1>1, <1>2, <1>4, <1>9, <1>10 DEF FramesInv, GotInv
  <1>15. \A r \in Spaces : \A o \in Offsets(r) : rx[r][o] = o => rx'[r][o] = o
    BY <1>5, <1>6
  <1>16. ArrivedInv'
    <2> SUFFICES ASSUME NEW j \in Slots, flight'[j] # None, flight'[j].arrived,
                        flight'[j].space >= peerStage,
                        NEW o \in Offsets(flight'[j].space), Covered(flight'[j].frames, o)
                 PROVE  rx'[flight'[j].space][o] = o
      BY <1>4 DEF ArrivedInv, Covered, Offsets
    <2>1. CASE j = k
      BY <1>5, <1>6, <1>10, <2>1
    <2>2. CASE j # k
      <3>1. flight'[j] = flight[j] /\ flight[j].space \in Spaces
        BY <1>8, <1>9, <2>2 DEF Packet
      <3> QED  BY <1>1, <1>15, <3>1 DEF ArrivedInv
    <2> QED  BY <2>1, <2>2
  <1>17. AllHeld'
    <2> SUFFICES ASSUME NEW r \in Spaces, NEW o \in Offsets(r), r >= stage, tx[r][o] = "sent"
                 PROVE  Held(r, o)'
      BY <1>4 DEF AllHeld, Offsets
    <2>1. Held(r, o)
      BY <1>1, HeldIs DEF AllHeld
    <2>2. ASSUME NEW j \in Slots, flight[j] # None
          PROVE  /\ flight'[j] # None /\ flight'[j].space = flight[j].space
                 /\ flight'[j].lost = flight[j].lost /\ flight'[j].frames = flight[j].frames
      BY <1>2, <1>9, <1>10, <2>2
    <2> QED  BY <1>4, <2>1, <2>2 DEF Held, Covered
  <1>18. AckedArrived'
    BY <1>1, <1>4, <1>15 DEF AckedArrived, Offsets
  <1> QED  BY <1>12, <1>13, <1>14, <1>16, <1>17, <1>18, HeldIs DEF StreamInv

\* read_to_end: n more bytes, in their order.
LEMMA ReadIs ==
    ASSUME StreamInv, NEW s \in Spaces, ReadToEnd(s)
    PROVE  /\ got' = [got EXCEPT ![s] = got'[s]] /\ got'[s] \in Seq(Nat)
           /\ Len(got[s]) < Len(got'[s]) /\ Len(got'[s]) <= written[s]
           /\ \A i \in 1 .. Len(got'[s]) : got'[s][i] = i - 1
  <1>1. /\ written \in [Spaces -> Nat] /\ got \in [Spaces -> Seq(Nat)]
        /\ WrittenInv /\ Len(got[s]) \in Nat
        /\ \A i \in 1 .. Len(got[s]) : got[s][i] = i - 1
    BY DEF StreamInv, TypeOK, GotInv
  <1>2. PICK n \in 1 .. MaxLen[s] - Len(got[s]) :
          /\ \A o \in Len(got[s]) .. Len(got[s]) + n - 1 : rx[s][o] # None
          /\ got' = [got EXCEPT ![s] = @ \o [i \in 1 .. n |-> rx[s][Len(got[s]) + i - 1]]]
    BY DEF ReadToEnd
  <1>3. PICK at \in Nat : at = Len(got[s])
    BY <1>1
  <1>4. n \in Nat \ {0} /\ at + n <= MaxLen[s] /\ MaxLen[s] \in Nat
    BY <1>3, OffsetsNat
  <1>5. ASSUME NEW i \in 1 .. n
        PROVE  rx[s][at + i - 1] = at + i - 1 /\ at + i - 1 < written[s]
    <2>1. at + i - 1 \in Offsets(s) /\ at + i - 1 \in at .. at + n - 1
      BY <1>4 DEF Offsets
    <2> QED  BY <1>1, <1>2, <1>3, <2>1 DEF WrittenInv
  <1>6. PICK q : q = [i \in 1 .. n |-> rx[s][at + i - 1]]
    OBVIOUS
  <1>7. \A i \in 1 .. n : q[i] = at + i - 1
    BY <1>5, <1>6
  <1>8. q \in Seq(Nat) /\ Len(q) = n
    <2>1. \A i \in 1 .. n : at + i - 1 \in Nat
      BY <1>4
    <2>2. q \in [1 .. n -> Nat]
      BY <1>6, <1>7, <2>1
    <2>3. q \in Seq(Nat)
      BY <1>4, <2>2, SeqDef
    <2>4. Len(q) \in Nat /\ 1 .. Len(q) = 1 .. n
      BY <2>2, <2>3, LenProperties
    <2> QED  BY <1>4, <2>3, <2>4
  <1>9. got'[s] = got[s] \o q /\ got' = [got EXCEPT ![s] = got'[s]]
    BY <1>1, <1>2, <1>3, <1>6
  <1>10. /\ got'[s] \in Seq(Nat) /\ Len(got'[s]) = at + n
         /\ \A i \in 1 .. at + n : got'[s][i] = IF i <= at THEN got[s][i] ELSE q[i - at]
    <2>1. got[s] \in Seq(Nat)
      BY <1>1
    <2>2. /\ got[s] \o q \in Seq(Nat) /\ Len(got[s] \o q) = Len(got[s]) + Len(q)
          /\ \A i \in 1 .. Len(got[s]) + Len(q) :
               (got[s] \o q)[i] = IF i <= Len(got[s]) THEN got[s][i] ELSE q[i - Len(got[s])]
      BY <1>8, <2>1, ConcatProperties
    <2> QED  BY <1>3, <1>8, <1>9, <2>2
  <1>11. ASSUME NEW i \in 1 .. at + n  PROVE got'[s][i] = i - 1
    <2>1. CASE i <= at
      BY <1>1, <1>3, <1>10, <2>1
    <2>2. CASE ~(i <= at)
      <3>1. i - at \in 1 .. n /\ at + (i - at) - 1 = i - 1
        BY <1>4, <2>2
      <3> QED  BY <1>7, <1>10, <2>2, <3>1
    <2> QED  BY <2>1, <2>2
  <1>12. at + n <= written[s]
    <2>1. at + n - 1 < written[s] /\ written[s] \in Nat
      <3>1. n \in 1 .. n
        BY <1>4
      <3> QED  BY <1>1, <1>5, <3>1
    <2> QED  BY <1>4, <2>1
  <1> QED  BY <1>3, <1>4, <1>9, <1>10, <1>11, <1>12

\* read_to_end.
LEMMA ReadKeeps ==
    ASSUME StreamInv, NEW s \in Spaces, ReadToEnd(s)  PROVE StreamInv'
  <1>1. /\ TypeOK /\ WrittenInv /\ FramesInv /\ GotInv /\ ArrivedInv /\ NotStranded /\ AckedArrived
        /\ got \in [Spaces -> Seq(Nat)]
    BY DEF StreamInv, TypeOK
  <1>2. UNCHANGED <<written, tx, stage, pkt, flight, rx, peerStage, exceeded, faults>>
    BY DEF ReadToEnd
  <1>3. /\ got' = [got EXCEPT ![s] = got'[s]] /\ got'[s] \in Seq(Nat)
        /\ Len(got'[s]) <= written[s] /\ \A i \in 1 .. Len(got'[s]) : got'[s][i] = i - 1
    BY ReadIs
  <1>4. got' \in [Spaces -> Seq(Nat)] /\ \A r \in Spaces \ {s} : got'[r] = got[r]
    BY <1>1, <1>3
  <1>5. TypeOK' /\ GotInv'
    <2>1. TypeOK'
      BY <1>1, <1>2, <1>4 DEF TypeOK
    <2>2. ASSUME NEW r \in Spaces
          PROVE  Len(got'[r]) <= written[r] /\ \A i \in 1 .. Len(got'[r]) : got'[r][i] = i - 1
      <3>1. CASE r = s
        BY <1>3, <3>1
      <3>2. CASE r # s
        BY <1>1, <1>4, <3>2 DEF GotInv
      <3> QED  BY <3>1, <3>2
    <2> QED  BY <1>2, <2>1, <2>2 DEF GotInv
  <1>6. WrittenInv' /\ FramesInv' /\ ArrivedInv' /\ AckedArrived'
    BY <1>1, <1>2 DEF WrittenInv, FramesInv, ArrivedInv, AckedArrived, Covered, Offsets
  <1>7. AllHeld'
    BY <1>1, <1>2, HeldIs DEF AllHeld, Held, Covered, Offsets
  <1> QED  BY <1>5, <1>6, <1>7, HeldIs DEF StreamInv

\* discard, at the receiver.
LEMMA PeerDiscardKeeps ==
    ASSUME StreamInv, NEW s \in Spaces, PeerDiscard(s)  PROVE StreamInv'
  <1>1. /\ TypeOK /\ WrittenInv /\ FramesInv /\ GotInv /\ ArrivedInv /\ NotStranded /\ AckedArrived
        /\ DOMAIN rx = Spaces /\ flight \in [Slots -> Packet \cup {None}]
    BY DEF StreamInv, TypeOK
  <1>2. /\ peerStage = s /\ s \in {Initial, Handshake} /\ peerStage' = s + 1
        /\ rx' = [rx EXCEPT ![s] = [o \in Offsets(s) |-> None]]
        /\ UNCHANGED <<written, tx, stage, pkt, flight, got, exceeded, faults>>
    BY DEF PeerDiscard
  <1>3. peerStage' \in Spaces
    BY <1>2 DEF Spaces, Initial, Handshake, ApplicationData
  <1>4. /\ DOMAIN rx' = Spaces /\ \A r \in Spaces \ {s} : rx'[r] = rx[r]
        /\ rx'[s] = [o \in Offsets(s) |-> None]
    BY <1>1, <1>2
  <1>5. TypeOK'
    BY <1>1, <1>2, <1>3, <1>4 DEF TypeOK
  <1>6. WrittenInv'
    BY <1>1, <1>2, <1>4 DEF WrittenInv, Offsets
  <1>7. GotInv' /\ FramesInv'
    BY <1>1, <1>2 DEF GotInv, FramesInv
  <1>8. \A r \in Spaces : r >= peerStage' => r >= peerStage /\ r # s
    BY <1>2, OffsetsNat
  <1>9. ArrivedInv'
    <2> SUFFICES ASSUME NEW j \in Slots, flight[j] # None, flight[j].arrived,
                        flight[j].space >= peerStage',
                        NEW o \in Offsets(flight[j].space), Covered(flight[j].frames, o)
                 PROVE  rx'[flight[j].space][o] = o
      BY <1>2 DEF ArrivedInv, Covered, Offsets
    <2>1. flight[j].space \in Spaces
      BY <1>1 DEF Packet
    <2> QED  BY <1>1, <1>4, <1>8, <2>1 DEF ArrivedInv
  <1>10. AllHeld'
    BY <1>1, <1>2, HeldIs DEF AllHeld, Held, Covered, Offsets
  <1>11. AckedArrived'
    BY <1>1, <1>2, <1>4, <1>8 DEF AckedArrived, Offsets
  <1> QED  BY <1>5, <1>6, <1>7, <1>9, <1>10, <1>11, HeldIs DEF StreamInv

-----------------------------------------------------------------------------
(***************************************************************************)
(* The theorems.                                                           *)
(***************************************************************************)

\* The invariant holds at first, and every step keeps it.
LEMMA StreamInvInductive == (Init => StreamInv) /\ (StreamInv /\ [Next]_vars => StreamInv')
  <1>1. ASSUME Init PROVE StreamInv
    <2> USE <1>1 DEF Init
    <2>1. TypeOK
      <3>1. /\ written \in [Spaces -> Nat] /\ got \in [Spaces -> Seq(Nat)]
            /\ \A s \in Spaces : written[s] <= MaxLen[s]
        BY OffsetsNat
      <3>2. /\ DOMAIN tx = Spaces
            /\ \A s \in Spaces : tx[s] \in [Offsets(s) -> {"none", "unsent", "sent", "acked"}]
        OBVIOUS
      <3>3. DOMAIN rx = Spaces /\ \A s \in Spaces : rx[s] \in [Offsets(s) -> Nat \cup {None}]
        OBVIOUS
      <3>4. stage \in Spaces /\ peerStage \in Spaces /\ exceeded \in BOOLEAN /\ faults \in Nat
        BY DEF Spaces
      <3>5. pkt \in Filling \cup {None} /\ flight \in [Slots -> Packet \cup {None}]
        OBVIOUS
      <3> QED  BY <3>1, <3>2, <3>3, <3>4, <3>5 DEF TypeOK
    <2>2. WrittenInv /\ FramesInv /\ ArrivedInv /\ AckedArrived /\ NotStranded
      BY DEF WrittenInv, FramesInv, ArrivedInv, AckedArrived, NotStranded
    <2>3. GotInv
      BY DEF GotInv
    <2> QED  BY <2>1, <2>2, <2>3 DEF StreamInv
  <1>2. ASSUME StreamInv, UNCHANGED vars  PROVE StreamInv'
    <2> USE <1>2 DEF vars
    <2>1. TypeOK' /\ WrittenInv' /\ FramesInv' /\ GotInv' /\ ArrivedInv' /\ AckedArrived'
      BY DEF StreamInv, TypeOK, WrittenInv, FramesInv, GotInv, ArrivedInv, AckedArrived, Covered, Offsets
    <2>2. AllHeld'
      BY HeldIs DEF StreamInv, AllHeld, Held, Covered, Offsets
    <2> QED  BY <2>1, <2>2, HeldIs DEF StreamInv
  <1>3. ASSUME StreamInv, Next  PROVE StreamInv'
    BY <1>3, SendKeeps, BeginFramesKeeps, WriteFrameKeeps, EndFramesKeeps, AckedKeeps, LostKeeps,
       ForgetKeeps, ResendKeeps, DiscardKeeps, InboundKeeps, ReadKeeps, PeerDiscardKeeps DEF Next
  <1> QED  BY <1>1, <1>2, <1>3

\* The invariant holds in every state.
THEOREM StreamsInvariant == Spec => []StreamInv
  BY StreamInvInductive, PTL DEF Spec

\* Every variable has its type; the room left in a packet never goes below zero.
THEOREM StreamTypes == Spec => []TypeOK
  <1>1. StreamInv => TypeOK
    BY DEF StreamInv
  <1> QED  BY <1>1, StreamsInvariant, PTL

\* What a live space counts as sent is named by a token that loss recovery holds.
THEOREM NoByteStranded == Spec => []NotStranded
  <1>1. StreamInv => NotStranded
    BY DEF StreamInv
  <1> QED  BY <1>1, StreamsInvariant, PTL

\* What is acknowledged has arrived.
THEOREM AckedHasArrived == Spec => []AckedArrived
  <1>1. StreamInv => AckedArrived
    BY DEF StreamInv
  <1> QED  BY <1>1, StreamsInvariant, PTL

-----------------------------------------------------------------------------
(***************************************************************************)
(* The server name.  A packet that begins with data to be sliced gets both *)
(* chunks, and leaves; or one of them, and then it has no room for another *)
(* frame; or none.  Between the two chunks limit_chunks leaves out a byte  *)
(* next to the middle of the name.                                         *)
(***************************************************************************)
Misses(fs) == \E o \in SniStart .. SniEnd - 1 : ~Carries(fs, o)

PktSplit ==
    pkt # None /\ pkt.span > Limit =>
        \/ /\ pkt.frames = <<>> /\ SniSlicing /\ FindSni(pkt.space, pkt.span)
           /\ NextBytes(pkt.space, 0, pkt.span)
        \/ pkt.room < Overhead + 2 /\ Misses(pkt.frames)

\* Data that one packet cannot hold is divided: a share is less than the whole.
LEMMA ShareShort ==
    ASSUME NEW len \in Nat, len > Limit
    PROVE  len \div PacketsNeeded(len) \in Nat /\ len \div PacketsNeeded(len) < len
  <1>1. PICK l \in Nat \ {0} : l = Limit /\ len > l
    BY StreamsAssumption
  <1>2. PICK p \in Int : p = (len + l - 1) \div l /\ len + l - 1 < l * p + l
    BY <1>1
  <1>3. p >= 2
    <2>1. ASSUME p <= 1  PROVE FALSE
      <3>1. l * p <= l
        BY <2>1, <1>1, <1>2
      <3> QED  BY <1>1, <1>2, <3>1
    <2> QED  BY <1>2, <2>1
  <1>4. PICK q \in Nat : q = len \div p
    BY <1>1, <1>2, ShareNat DEF PacketsNeeded
  <1>5. p * q <= len
    BY <1>3, <1>4
  <1>6. p * q >= q + q
    <2>1. PICK r \in Nat : p = r + 2
      BY <1>3
    <2>2. (r + 2) * q = r * q + 2 * q /\ r * q >= 0
      BY <1>4
    <2> QED  BY <1>4, <2>1, <2>2
  <1>7. q < len
    BY <1>1, <1>4, <1>5, <1>6
  <1> QED  BY <1>1, <1>2, <1>4, <1>7 DEF PacketsNeeded

\* limit_chunks, when the data exceeds the limit, leaves out the byte at the cut or the
\* one before it.
LEMMA LimitChunksGap ==
    ASSUME NEW mid \in Nat, NEW len \in Nat, mid <= len, NEW limit \in Nat, limit < len, NEW c,
           c = LimitChunks(mid, len, limit)
    PROVE  c.from >= mid /\ (c.from > mid \/ c.left < mid)
  <1>1. CASE mid <= limit
    BY <1>1 DEF LimitChunks
  <1>2. CASE mid > limit /\ len - mid <= limit
    BY <1>2 DEF LimitChunks
  <1>3. CASE mid > limit /\ len - mid > limit
    <2>1. limit \div 2 < mid
      BY <1>3
    <2> QED  BY <1>3, <2>1 DEF LimitChunks
  <1> QED  BY <1>1, <1>2, <1>3

\* write_chunk writes a frame whenever a byte fits; a frame has at least its two fields.
LEMMA WriteChunkRoom ==
    ASSUME NEW off \in Nat, NEW len \in Nat, NEW room \in Int
    PROVE  /\ Header(off) \in Nat /\ Overhead + 1 <= Header(off) /\ Header(off) <= Overhead + 2
           /\ off = 0 => Header(off) = Overhead + 1
           /\ room < Header(off) + 1 => WriteChunk(off, off, len, room) = <<>>
           /\ room >= Header(off) + 1 =>
                \E f \in Frame : /\ WriteChunk(off, off, len, room) = <<f>>
                                 /\ f.from = off /\ f.len <= len
                                 /\ FrameSize(f) \in Nat /\ FrameSize(f) >= Overhead + 1
  <1>1. /\ Header(off) \in Nat /\ Overhead + 1 <= Header(off) /\ Header(off) <= Overhead + 2
        /\ off = 0 => Header(off) = Overhead + 1
    BY StreamsAssumption DEF Header, Varint
  <1>2. ASSUME room < Header(off) + 1  PROVE WriteChunk(off, off, len, room) = <<>>
    BY <1>2 DEF WriteChunk
  <1>3. ASSUME room >= Header(off) + 1
        PROVE  \E f \in Frame : /\ WriteChunk(off, off, len, room) = <<f>>
                                /\ f.from = off /\ f.len <= len
                                /\ FrameSize(f) \in Nat /\ FrameSize(f) >= Overhead + 1
    <2> DEFINE n == Fitting(off, len, room)
               f == [offset |-> off, from |-> off, len |-> n, token |-> n]
    <2>1. n \in Nat /\ n <= len
      BY <1>3, StreamsAssumption DEF Fitting, Least, Header, Varint
    <2>2. WriteChunk(off, off, len, room) = <<f>>
      BY <1>1, <1>3 DEF WriteChunk
    <2> HIDE DEF n
    <2>3. f \in Frame /\ f.from = off /\ f.len = n
      BY <2>1 DEF Frame
    <2>4. FrameSize(f) = Header(off) + Varint(n) - 1 + n
      BY DEF FrameSize
    <2>5. Varint(n) \in {1, 2} /\ Overhead \in Nat
      BY StreamsAssumption DEF Varint
    <2>6. FrameSize(f) \in Nat /\ FrameSize(f) >= Overhead + 1
      BY <1>1, <2>1, <2>4, <2>5
    <2> QED  BY <2>1, <2>2, <2>3, <2>6
  <1> QED  BY <1>1, <1>2, <1>3

\* What does not reach a byte does not carry it.
LEMMA NotCarried ==
    ASSUME NEW fs, NEW b, \A i \in DOMAIN fs : ~(fs[i].from <= b /\ b < fs[i].from + fs[i].len)
    PROVE  ~Carries(fs, b)
  BY DEF Carries

\* Two chunks, one after the other.
LEMMA TwoFrames ==
    ASSUME NEW a \in Seq(Frame), NEW b \in Seq(Frame), Len(a) = 1, Len(b) = 1
    PROVE  /\ Len(a \o b) = 2 /\ DOMAIN (a \o b) = 1 .. 2
           /\ (a \o b)[1] = a[1] /\ (a \o b)[2] = b[1]
  <1>1. /\ a \o b \in Seq(Frame) /\ Len(a \o b) = Len(a) + Len(b)
        /\ \A i \in 1 .. Len(a) + Len(b) : (a \o b)[i] = IF i <= Len(a) THEN a[i] ELSE b[i - Len(a)]
    BY ConcatProperties
  <1>2. a \o b \in Seq(Frame) /\ Len(a \o b) = 2
    BY <1>1
  <1>3. (a \o b)[1] = a[1] /\ (a \o b)[2] = b[1]
    BY <1>1
  <1> QED  BY <1>2, <1>3

\* Sliced data misses a byte of the name; a single chunk of it leaves no room for a frame.
LEMMA SlicedMisses ==
    ASSUME NEW hi \in Nat, hi > Limit, SniEnd <= hi, NEW room \in Nat, NEW fs, fs = Sliced(hi, room)
    PROVE  Misses(fs) /\ (Len(fs) = 1 => room - Size(fs) < Overhead + 2)
  <1>1. PICK q \in Nat : q = hi \div PacketsNeeded(hi) /\ q < hi
    BY ShareShort
  <1>2. PICK mid \in Nat : mid = Middle /\ SniStart < mid /\ mid < SniEnd /\ mid <= hi
    BY StreamsAssumption DEF Middle
  <1>3. PICK c : c = LimitChunks(mid, hi, q)
    OBVIOUS
  <1>4. /\ c.left \in Nat /\ c.left <= mid
        /\ c.at \in Nat /\ c.from = c.at /\ c.to \in Nat /\ c.from <= c.to
    BY <1>2, <1>3, LimitChunksTrue
  <1>5. c.from >= mid /\ (c.from > mid \/ c.left < mid)
    BY <1>1, <1>2, <1>3, LimitChunksGap
  <1>6. PICK b \in SniStart .. SniEnd - 1 : b \in Nat /\ c.left <= b /\ b < c.from
    <2>1. CASE c.from > mid
      <3>1. mid \in SniStart .. SniEnd - 1
        BY <1>2, StreamsAssumption
      <3> QED  BY <1>2, <1>4, <2>1, <3>1
    <2>2. CASE c.left < mid
      <3>1. mid - 1 \in SniStart .. SniEnd - 1 /\ mid - 1 \in Nat
        BY <1>2, StreamsAssumption
      <3>2. c.left <= mid - 1 /\ mid - 1 < c.from
        BY <1>2, <1>4, <1>5, <2>2
      <3> QED  BY <3>1, <3>2
    <2> QED  BY <1>5, <2>1, <2>2
  <1>61. PICK a \in Nat, n \in Nat, m \in Nat : a = c.at /\ n = c.to - c.from /\ m = c.left
    BY <1>4
  <1> DEFINE right == WriteChunk(a, a, n, room)
             left == WriteChunk(0, 0, m, room - Size(right))
  <1>7. fs = right \o left
    BY <1>1, <1>2, <1>3, <1>4, <1>61 DEF Sliced
  <1>8. Overhead \in Nat
    BY StreamsAssumption
  <1>9. \/ right = <<>> /\ room < Overhead + 3
        \/ \E f \in Frame : right = <<f>> /\ f.from = a /\ FrameSize(f) \in Nat
    <2>1. PICK h \in Nat : h = Header(a) /\ h <= Overhead + 2
      BY <1>8, WriteChunkRoom
    <2>2. CASE room < h + 1
      <3>1. room \in Int /\ room < Header(a) + 1 /\ room < Overhead + 3
        BY <1>8, <2>1, <2>2
      <3>2. right = <<>>
        BY <3>1, WriteChunkRoom
      <3> QED  BY <3>1, <3>2
    <2>3. CASE room >= h + 1
      <3>1. room \in Int /\ room >= Header(a) + 1
        BY <2>1, <2>3
      <3>2. \E f \in Frame : /\ right = <<f>> /\ f.from = a /\ f.len <= n
                             /\ FrameSize(f) \in Nat /\ FrameSize(f) >= Overhead + 1
        BY <3>1, WriteChunkRoom
      <3> QED  BY <3>2
    <2> QED  BY <2>1, <2>2, <2>3
  <1> HIDE DEF right
  <1>10. Size(right) \in Nat /\ (right = <<>> => Size(right) = 0)
    BY <1>9 DEF Size
  <1>11. \/ left = <<>> /\ room - Size(right) < Overhead + 2
         \/ \E g \in Frame : /\ left = <<g>> /\ g.from = 0 /\ g.len <= m
                             /\ FrameSize(g) \in Nat /\ FrameSize(g) >= Overhead + 1
    <2>1. room - Size(right) \in Int /\ Header(0) = Overhead + 1
      BY <1>8, <1>10, WriteChunkRoom
    <2>2. CASE room - Size(right) < Header(0) + 1
      BY <1>8, <2>1, <2>2, WriteChunkRoom
    <2>3. CASE room - Size(right) >= Header(0) + 1
      BY <2>1, <2>3, WriteChunkRoom
    <2> QED  BY <1>8, <2>1, <2>2, <2>3
  <1> HIDE DEF left
  <1>12. \A f \in Frame : f.from = a => ~(f.from <= b /\ b < f.from + f.len)
    BY <1>4, <1>6, <1>61 DEF Frame
  <1>13. \A g \in Frame : g.from = 0 /\ g.len <= m => ~(g.from <= b /\ b < g.from + g.len)
    BY <1>4, <1>6, <1>61 DEF Frame
  <1>14. CASE right = <<>> /\ left = <<>>
    <2>1. fs = <<>>
      BY <1>7, <1>14
    <2> QED  BY <1>6, <2>1 DEF Misses, Carries
  <1>15. CASE right = <<>> /\ left # <<>>
    <2>1. PICK g \in Frame : /\ left = <<g>> /\ g.from = 0 /\ g.len <= m
                             /\ FrameSize(g) \in Nat /\ FrameSize(g) >= Overhead + 1
      BY <1>11, <1>15
    <2>2. fs = <<g>>
      BY <1>7, <1>15, <2>1
    <2>3. Size(fs) = FrameSize(g)
      BY <2>2 DEF Size
    <2>4. ~Carries(fs, b)
      BY <1>13, <2>1, <2>2, NotCarried
    <2>5. room - Size(fs) < Overhead + 2
      BY <1>8, <1>9, <1>15, <2>1, <2>3
    <2> QED  BY <1>6, <2>4, <2>5 DEF Misses
  <1>16. CASE right # <<>> /\ left = <<>>
    <2>1. PICK f \in Frame : right = <<f>> /\ f.from = a /\ FrameSize(f) \in Nat
      BY <1>9, <1>16
    <2>2. fs = right /\ fs = <<f>>
      BY <1>7, <1>16, <2>1
    <2>3. ~Carries(fs, b)
      BY <1>12, <2>1, <2>2, NotCarried
    <2>4. room - Size(fs) < Overhead + 2
      BY <1>11, <1>16, <2>2
    <2> QED  BY <1>6, <2>3, <2>4 DEF Misses
  <1>17. CASE right # <<>> /\ left # <<>>
    <2>1. PICK f \in Frame : right = <<f>> /\ f.from = a
      BY <1>9, <1>17
    <2>2. PICK g \in Frame : left = <<g>> /\ g.from = 0 /\ g.len <= m
      BY <1>11, <1>17
    <2>3. /\ Len(right) = 1 /\ Len(left) = 1 /\ right[1] = f /\ left[1] = g
          /\ right \in Seq(Frame) /\ left \in Seq(Frame)
      BY <2>1, <2>2
    <2>4. Len(fs) = 2 /\ DOMAIN fs = 1 .. 2 /\ fs[1] = f /\ fs[2] = g
      <3>1. PICK x \in Seq(Frame), y \in Seq(Frame) : x = right /\ y = left
        BY <2>3
      <3>2. Len(x) = 1 /\ Len(y) = 1 /\ x[1] = f /\ y[1] = g
        BY <2>3, <3>1
      <3>3. fs = x \o y
        BY <1>7, <3>1, Zenon
      <3>4. /\ Len(x \o y) = 2 /\ DOMAIN (x \o y) = 1 .. 2
            /\ (x \o y)[1] = x[1] /\ (x \o y)[2] = y[1]
        BY <3>2, TwoFrames
      <3> QED  BY <3>2, <3>3, <3>4, Zenon
    <2>5. ~Carries(fs, b)
      BY <1>12, <1>13, <2>1, <2>2, <2>4, NotCarried
    <2> QED  BY <1>6, <2>4, <2>5 DEF Misses
  <1> QED  BY <1>9, <1>11, <1>14, <1>15, <1>16, <1>17

\* With less room than the smallest frame needs nothing is written.
LEMMA NoRoomNoChunks ==
    ASSUME NEW s \in Spaces, NEW lo \in Nat, NEW hi \in Nat, lo < hi, NEW room \in Nat,
           room < Overhead + 2
    PROVE  Chunks(s, lo, hi, room) = <<>>
  <1>1. Overhead \in Nat
    BY StreamsAssumption
  <1>2. ASSUME NEW off \in Nat, NEW from, NEW len  PROVE WriteChunk(off, from, len, room) = <<>>
    <2>1. Overhead + 1 <= Header(off) /\ Header(off) \in Nat
      BY <1>1, WriteChunkRoom
    <2> QED  BY <1>1, <2>1 DEF WriteChunk
  <1>3. CASE SniSlicing /\ lo = 0 /\ FindSni(s, hi)
    <2>1. PICK c : c = LimitChunks(Middle, hi, hi \div PacketsNeeded(hi))
      OBVIOUS
    <2>2. c.at \in Nat
      <3>1. PICK q \in Nat : q = hi \div PacketsNeeded(hi)
        BY ShareNat
      <3>2. PICK mid \in Nat : mid = Middle /\ mid <= hi
        BY <1>3, StreamsAssumption DEF Middle, FindSni
      <3> QED  BY <2>1, <3>1, <3>2, LimitChunksTrue
    <2>3. WriteChunk(c.at, c.from, c.to - c.from, room) = <<>>
      BY <1>2, <2>2
    <2>4. room - Size(<<>>) = room
      BY DEF Size
    <2>5. WriteChunk(0, 0, c.left, room - Size(<<>>)) = <<>>
      BY <1>2, <2>4
    <2> QED  BY <1>3, <2>1, <2>3, <2>5 DEF Chunks, Sliced
  <1>4. CASE ~(SniSlicing /\ lo = 0 /\ FindSni(s, hi))
    BY <1>2, <1>4 DEF Chunks
  <1> QED  BY <1>3, <1>4

\* There is one first unsent run.
LEMMA OneFirstRun ==
    ASSUME NEW s \in Spaces, NEW m \in Nat, NEW lo \in 0 .. MaxLen[s], NEW hi \in 0 .. MaxLen[s],
           NextBytes(s, 0, m), NextBytes(s, lo, hi)
    PROVE  lo = 0 /\ hi = m
  <1>1. MaxLen[s] \in Nat /\ lo \in Nat /\ hi \in Nat /\ lo < hi /\ 0 < m /\ m <= MaxLen[s]
    BY OffsetsNat DEF NextBytes
  <1>2. \A o \in 0 .. m - 1 : tx[s][o] = "unsent"
    BY DEF NextBytes
  <1>3. lo = 0
    <2>1. 0 \in 0 .. m - 1
      BY <1>1
    <2>2. lo # 0 => 0 \in 0 .. lo - 1
      BY <1>1
    <2> QED  BY <1>2, <2>1, <2>2 DEF NextBytes
  <1>4. ~(hi < m)
    <2>1. hi < m => hi \in 0 .. m - 1 /\ hi < MaxLen[s]
      BY <1>1
    <2> QED  BY <1>2, <2>1 DEF NextBytes
  <1>5. ~(m < hi)
    <2>1. m < hi => m \in lo .. hi - 1 /\ m < MaxLen[s]
      BY <1>1, <1>3
    <2> QED  BY <2>1 DEF NextBytes
  <1> QED  BY <1>1, <1>3, <1>4, <1>5

\* A packet that leaves is in one slot, with its span; the others are as they were.
LEMMA DispatchedSpan ==
    ASSUME TypeOK, pkt # None, NEW fs \in Seq(Frame), Dispatch(fs), FirstPacketSplits,
           pkt.span > Limit => Misses(fs)
    PROVE  FirstPacketSplits'
  <1>1. flight \in [Slots -> Packet \cup {None}]
    BY DEF TypeOK
  <1>2. ASSUME NEW k \in Slots, flight'[k] # None, flight'[k].span > Limit
        PROVE  Misses(flight'[k].frames)
    <2>1. CASE flight'[k] = flight[k]
      BY <1>2, <2>1 DEF FirstPacketSplits, HasName, Misses
    <2>2. CASE flight'[k] # flight[k]
      <3>1. flight'[k] = [space |-> pkt.space, frames |-> fs, span |-> pkt.span,
                          lost |-> FALSE, arrived |-> FALSE]
        BY <1>1, <2>2 DEF Dispatch
      <3>2. flight'[k].span = pkt.span /\ flight'[k].frames = fs
        BY <3>1
      <3> QED  BY <1>2, <3>2
    <2> QED  BY <2>1, <2>2
  <1> QED  BY <1>2 DEF FirstPacketSplits, HasName, Misses, Carries

\* One turn of write_frame's loop.
LEMMA WriteFrameSplits ==
    ASSUME StreamInv, PktSplit, FirstPacketSplits, WriteFrame  PROVE PktSplit' /\ FirstPacketSplits'
  <1>1. TypeOK /\ pkt # None /\ pkt \in Filling
    BY DEF StreamInv, WriteFrame, TypeOK
  <1>2. PICK s \in Spaces : s = pkt.space
    BY <1>1 DEF Filling
  <1>3. pkt.room \in Nat /\ pkt.frames \in Seq(Frame) /\ pkt.span \in Nat
    BY <1>1 DEF Filling
  <1>4. PICK lo \in 0 .. MaxLen[s], hi \in 0 .. MaxLen[s] :
          /\ NextBytes(s, lo, hi)
          /\ \E fs \in {Chunks(s, lo, hi, pkt.room)} :
               \/ /\ Len(fs) = 1
                  /\ pkt' = [pkt EXCEPT !.frames = @ \o fs, !.room = @ - Size(fs)]
                  /\ UNCHANGED flight
               \/ Len(fs) # 1 /\ Dispatch(pkt.frames \o fs)
    BY <1>2 DEF WriteFrame
  <1>5. PICK fs : /\ fs = Chunks(s, lo, hi, pkt.room)
                  /\ \/ /\ Len(fs) = 1
                        /\ pkt' = [pkt EXCEPT !.frames = @ \o fs, !.room = @ - Size(fs)]
                        /\ UNCHANGED flight
                     \/ Len(fs) # 1 /\ Dispatch(pkt.frames \o fs)
    BY <1>4
  <1>6. lo \in Nat /\ hi \in Nat /\ lo < hi
    BY <1>4, OffsetsNat DEF NextBytes
  <1>7. fs \in Seq(Frame)
    BY <1>3, <1>5, <1>6, ChunksTrue
  <1>8. PICK all : all = pkt.frames \o fs
    OBVIOUS
  <1>9. all \in Seq(Frame)
    BY <1>3, <1>7, <1>8, ConcatProperties
  <1>10. pkt.span > Limit => Misses(all) /\ (Len(fs) = 1 => pkt.room - Size(fs) < Overhead + 2)
    <2> HAVE pkt.span > Limit
    <2>1. CASE /\ pkt.frames = <<>> /\ SniSlicing /\ FindSni(pkt.space, pkt.span)
               /\ NextBytes(pkt.space, 0, pkt.span)
      <3>1. lo = 0 /\ hi = pkt.span
        BY <1>2, <1>3, <1>4, <2>1, OneFirstRun
      <3>2. fs = Sliced(hi, pkt.room)
        BY <1>2, <1>5, <2>1, <3>1 DEF Chunks
      <3>3. SniEnd <= hi /\ hi > Limit
        BY <2>1, <3>1 DEF FindSni
      <3>4. Misses(fs) /\ (Len(fs) = 1 => pkt.room - Size(fs) < Overhead + 2)
        BY <1>3, <1>6, <3>2, <3>3, SlicedMisses
      <3>5. all = fs
        BY <1>7, <1>8, <2>1, ConcatEmptySeq
      <3> QED  BY <3>4, <3>5
    <2>2. CASE pkt.room < Overhead + 2 /\ Misses(pkt.frames)
      <3>1. fs = <<>>
        BY <1>3, <1>5, <1>6, <2>2, NoRoomNoChunks
      <3>2. all = pkt.frames
        BY <1>3, <1>8, <3>1, ConcatEmptySeq
      <3> QED  BY <2>2, <3>1, <3>2
    <2> QED  BY <1>1, <2>1, <2>2 DEF PktSplit
  <1>11. CASE /\ Len(fs) = 1 /\ UNCHANGED flight
              /\ pkt' = [pkt EXCEPT !.frames = @ \o fs, !.room = @ - Size(fs)]
    <2>1. PICK room : room = pkt.room - Size(fs)
      OBVIOUS
    <2>2. pkt' = [pkt EXCEPT !.frames = all, !.room = room]
      BY <1>8, <1>11, <2>1, Zenon
    <2>3. pkt'.span = pkt.span /\ pkt'.frames = all /\ pkt'.room = room
      BY <1>1, <2>2 DEF Filling
    <2>4. PktSplit'
      BY <1>10, <1>11, <2>1, <2>3 DEF PktSplit, Misses, Carries
    <2>5. FirstPacketSplits'
      BY <1>11 DEF FirstPacketSplits, HasName, Carries
    <2> QED  BY <2>4, <2>5
  <1>12. CASE Len(fs) # 1 /\ Dispatch(pkt.frames \o fs)
    <2>1. Dispatch(all)
      BY <1>8, <1>12
    <2>2. FirstPacketSplits'
      BY <1>1, <1>9, <1>10, <2>1, DispatchedSpan
    <2>3. PktSplit'
      BY <2>1 DEF Dispatch, PktSplit
    <2> QED  BY <2>2, <2>3
  <1> QED  BY <1>5, <1>11, <1>12

\* The end of the loop.
LEMMA EndFramesSplits ==
    ASSUME StreamInv, PktSplit, FirstPacketSplits, EndFrames  PROVE PktSplit' /\ FirstPacketSplits'
  <1>1. TypeOK /\ pkt # None /\ pkt \in Filling /\ Dispatch(pkt.frames)
    BY DEF StreamInv, EndFrames, TypeOK
  <1>2. pkt.frames \in Seq(Frame) /\ pkt.space \in Spaces /\ pkt.span \in Nat
    BY <1>1 DEF Filling
  <1>3. pkt.span > Limit => Misses(pkt.frames)
    <2>1. ~NextBytes(pkt.space, 0, pkt.span)
      <3>1. ASSUME NextBytes(pkt.space, 0, pkt.span)  PROVE FALSE
        <4>1. 0 < pkt.span /\ pkt.span <= MaxLen[pkt.space] /\ MaxLen[pkt.space] \in Nat
          BY <1>2, <3>1, OffsetsNat DEF NextBytes
        <4>2. 0 \in Offsets(pkt.space) /\ 0 \in 0 .. pkt.span - 1
          BY <1>2, <4>1 DEF Offsets
        <4> QED  BY <3>1, <4>2 DEF NextBytes, EndFrames
      <3> QED  BY <3>1
    <2> QED  BY <1>1, <2>1 DEF PktSplit
  <1>4. FirstPacketSplits'
    BY <1>1, <1>2, <1>3, DispatchedSpan
  <1>5. PktSplit'
    BY <1>1 DEF Dispatch, PktSplit
  <1> QED  BY <1>4, <1>5

\* write_frame is entered.
LEMMA BeginFramesSplits ==
    ASSUME FirstPacketSplits, NEW s \in Spaces, NEW room \in Rooms, BeginFrames(s, room)
    PROVE  PktSplit' /\ FirstPacketSplits'
  <1>1. PICK lo \in 0 .. MaxLen[s], hi \in 0 .. MaxLen[s] :
          /\ NextBytes(s, lo, hi)
          /\ pkt' = [space |-> s, room |-> room, frames |-> <<>>,
                     span |-> IF SniSlicing /\ lo = 0 /\ FindSni(s, hi) THEN hi ELSE 0]
    BY DEF BeginFrames
  <1>2. tx' = tx /\ flight' = flight
    BY DEF BeginFrames
  <1>3. /\ pkt'.space = s /\ pkt'.frames = <<>>
        /\ pkt'.span = IF SniSlicing /\ lo = 0 /\ FindSni(s, hi) THEN hi ELSE 0
    BY <1>1
  <1>4. ASSUME pkt'.span > Limit
        PROVE  /\ SniSlicing /\ FindSni(s, pkt'.span) /\ pkt'.span = hi /\ lo = 0
    BY <1>3, <1>4, StreamsAssumption
  <1>5. PktSplit'
    <2> SUFFICES ASSUME pkt'.span > Limit
                 PROVE  NextBytes(s, 0, hi)'
      BY <1>3, <1>4 DEF PktSplit, FindSni, NextBytes
    <2> QED  BY <1>1, <1>2, <1>4 DEF NextBytes
  <1>6. FirstPacketSplits'
    BY <1>2 DEF FirstPacketSplits, HasName, Carries
  <1> QED  BY <1>5, <1>6

\* A step that fills no packet: what is in flight keeps its frames and span.
LEMMA OthersSplit ==
    ASSUME TypeOK, PktSplit, FirstPacketSplits, pkt' = pkt, pkt = None \/ tx' = tx,
           \A k \in Slots : \/ flight'[k] \in {None, flight[k]}
                            \/ /\ flight[k] # None /\ flight'[k].span = flight[k].span
                               /\ flight'[k].frames = flight[k].frames
    PROVE  PktSplit' /\ FirstPacketSplits'
  <1>1. PktSplit'
    BY DEF PktSplit, FindSni, NextBytes, Misses, Carries
  <1>2. FirstPacketSplits'
    BY DEF FirstPacketSplits, HasName, Carries
  <1> QED  BY <1>1, <1>2

\* The property, with the state of the packet that is being filled, is inductive.
LEMMA SplitInductive ==
    /\ Init => PktSplit /\ FirstPacketSplits
    /\ StreamInv /\ PktSplit /\ FirstPacketSplits /\ [Next]_vars => (PktSplit /\ FirstPacketSplits)'
  <1>1. Init => PktSplit /\ FirstPacketSplits
    BY DEF Init, PktSplit, FirstPacketSplits
  <1>2. ASSUME StreamInv, PktSplit, FirstPacketSplits, [Next]_vars
        PROVE  (PktSplit /\ FirstPacketSplits)'
    <2>1. TypeOK /\ flight \in [Slots -> Packet \cup {None}]
      BY <1>2 DEF StreamInv, TypeOK
    <2>2. CASE WriteFrame
      BY <1>2, <2>2, WriteFrameSplits
    <2>3. CASE EndFrames
      BY <1>2, <2>3, EndFramesSplits
    <2>4. CASE \E s \in Spaces, room \in Rooms : BeginFrames(s, room)
      BY <1>2, <2>4, BeginFramesSplits
    <2>5. CASE \E s \in Spaces : \/ \E n \in Records[s] : Send(s, n)
                                 \/ ResendUnacked(s) \/ Discard(s) \/ ReadToEnd(s) \/ PeerDiscard(s)
      <3>1. pkt' = pkt /\ flight' = flight /\ (pkt = None \/ tx' = tx)
        BY <2>5 DEF Send, ResendUnacked, Discard, ReadToEnd, PeerDiscard
      <3> QED  BY <1>2, <2>1, <3>1, OthersSplit
    <2>6. CASE \E k \in Slots : Acked(k) \/ Lost(k) \/ Forget(k) \/ InboundFrames(k)
      <3>1. PICK k \in Slots : Acked(k) \/ Lost(k) \/ Forget(k) \/ InboundFrames(k)
        BY <2>6
      <3>2. pkt' = pkt /\ (pkt = None \/ tx' = tx) /\ flight[k] # None
        BY <3>1 DEF Acked, Lost, Forget, InboundFrames
      <3>3. \/ flight' = [flight EXCEPT ![k] = None]
            \/ flight' = [flight EXCEPT ![k].lost = TRUE]
            \/ flight' = [flight EXCEPT ![k].arrived = @ \/ ~exceeded']
        BY <3>1 DEF Acked, Lost, Forget, InboundFrames
      <3>4. \A j \in Slots : j # k => flight'[j] = flight[j]
        BY <2>1, <3>3
      <3>5. flight[k] \in Packet
        BY <2>1, <3>2
      <3>6. \/ flight'[k] = None
            \/ flight'[k].span = flight[k].span /\ flight'[k].frames = flight[k].frames
        BY <2>1, <3>3, <3>5 DEF Packet
      <3> QED  BY <1>2, <2>1, <3>2, <3>4, <3>6, OthersSplit
    <2>7. CASE UNCHANGED vars
      <3>1. pkt' = pkt /\ flight' = flight /\ tx' = tx
        BY <2>7 DEF vars
      <3> QED  BY <1>2, <2>1, <3>1, OthersSplit
    <2> QED  BY <1>2, <2>2, <2>3, <2>4, <2>5, <2>6, <2>7 DEF Next
  <1> QED  BY <1>1, <1>2

\* The packet that write_frame begins with unsent data from offset 0 longer than a packet
\* never carries the whole server name (limit_chunks), for every room, length and place of
\* the name, also after losses.
THEOREM NameIsSplit == Spec => []FirstPacketSplits
  BY SplitInductive, StreamsInvariant, PTL DEF Spec

-----------------------------------------------------------------------------
(***************************************************************************)
(* The refinement.                                                         *)
(***************************************************************************)

\* The bytes 0, 1, ..., n - 1.
LEMMA UpTo ==
    ASSUME NEW n \in Nat, NEW u, u = [i \in 1 .. n |-> i - 1]
    PROVE  u \in Seq(Nat) /\ Len(u) = n /\ \A i \in 1 .. n : u[i] = i - 1
  <1>1. u \in [1 .. n -> Nat]
    OBVIOUS
  <1>2. u \in Seq(Nat)
    BY <1>1, SeqDef
  <1>3. Len(u) \in Nat /\ 1 .. Len(u) = 1 .. n
    BY <1>1, <1>2, LenProperties
  <1> QED  BY <1>2, <1>3

\* A sequence of bytes in their order is a prefix of every longer one.
LEMMA PrefixUpTo ==
    ASSUME NEW a \in Seq(Nat), NEW b \in Seq(Nat), Len(a) <= Len(b),
           \A i \in 1 .. Len(a) : a[i] = i - 1, \A i \in 1 .. Len(b) : b[i] = i - 1
    PROVE  a = SubSeq(b, 1, Len(a))
  <1>1. PICK c : c = SubSeq(b, 1, Len(a))
    OBVIOUS
  <1>2. Len(a) \in Nat /\ Len(b) \in Nat
    OBVIOUS
  <1>3. /\ c \in Seq(Nat) /\ Len(c) = Len(a)
        /\ \A i \in 1 .. Len(a) : c[i] = b[i]
    BY <1>1, <1>2
  <1>4. \A i \in 1 .. Len(a) : a[i] = c[i]
    BY <1>2, <1>3
  <1> QED  BY <1>1, <1>3, <1>4, SeqEqual

\* The initial states are initial states of the channel.
LEMMA ChannelInit == Init => Channel!Init
  <1> SUFFICES ASSUME Init PROVE Channel!Init
    OBVIOUS
  <1>1. \A s \in Spaces : [i \in 1 .. written[s] |-> i - 1] = <<>>
    BY DEF Init
  <1> QED  BY <1>1 DEF Init, Channel!Init

\* send writes to the channel.
LEMMA SendWrites ==
    ASSUME StreamInv, NEW s \in Spaces, NEW n \in Records[s], Send(s, n)  PROVE Channel!Write(s)
  <1>1. /\ written \in [Spaces -> Nat] /\ n \in Nat \ {0} /\ got' = got
        /\ written' = [written EXCEPT ![s] = @ + n]
    BY StreamsAssumption DEF StreamInv, TypeOK, Send, Live
  <1>2. PICK a : a = [i \in 1 .. written[s] |-> i - 1]
    OBVIOUS
  <1>3. PICK b : b = [i \in 1 .. written[s] + n |-> i - 1]
    OBVIOUS
  <1>4. /\ a \in Seq(Nat) /\ Len(a) = written[s] /\ \A i \in 1 .. Len(a) : a[i] = i - 1
    BY <1>1, <1>2, UpTo
  <1>5. /\ b \in Seq(Nat) /\ Len(b) = written[s] + n /\ \A i \in 1 .. Len(b) : b[i] = i - 1
    BY <1>1, <1>3, UpTo
  <1>6. Len(a) < Len(b) /\ a = SubSeq(b, 1, Len(a))
    <2>1. Len(a) < Len(b)
      BY <1>1, <1>4, <1>5
    <2> QED  BY <1>4, <1>5, <2>1, PrefixUpTo
  <1> DEFINE S == [r \in Spaces |-> [i \in 1 .. written[r] |-> i - 1]]
             T == [r \in Spaces |-> [i \in 1 .. written'[r] |-> i - 1]]
  <1>7. S[s] = a /\ T[s] = b /\ \A r \in Spaces \ {s} : T[r] = S[r]
    BY <1>1, <1>2, <1>3
  <1>8. T = [S EXCEPT ![s] = T[s]]
    BY <1>7
  <1>9. Channel!Longer(S[s], T[s])
    BY <1>6, <1>7 DEF Channel!Longer
  <1> QED  BY <1>1, <1>8, <1>9 DEF Channel!Write

\* read_to_end reads from it.
LEMMA ReadReads ==
    ASSUME StreamInv, NEW s \in Spaces, ReadToEnd(s)  PROVE Channel!Read(s)
  <1>1. /\ got' = [got EXCEPT ![s] = got'[s]] /\ got'[s] \in Seq(Nat)
        /\ Len(got[s]) < Len(got'[s]) /\ Len(got'[s]) <= written[s]
        /\ \A i \in 1 .. Len(got'[s]) : got'[s][i] = i - 1
    BY ReadIs
  <1>2. /\ written \in [Spaces -> Nat] /\ written' = written /\ got[s] \in Seq(Nat)
        /\ \A i \in 1 .. Len(got[s]) : got[s][i] = i - 1
    BY DEF StreamInv, TypeOK, ReadToEnd, GotInv
  <1>3. PICK a : a = [i \in 1 .. written[s] |-> i - 1]
    OBVIOUS
  <1>4. /\ a \in Seq(Nat) /\ Len(a) = written[s] /\ \A i \in 1 .. Len(a) : a[i] = i - 1
    BY <1>2, <1>3, UpTo
  <1>5. got'[s] = SubSeq(a, 1, Len(got'[s]))
    BY <1>1, <1>4, PrefixUpTo
  <1>6. got[s] = SubSeq(got'[s], 1, Len(got[s]))
    <2>1. Len(got[s]) <= Len(got'[s])
      BY <1>1, <1>2
    <2> QED  BY <1>1, <1>2, <2>1, PrefixUpTo
  <1> DEFINE S == [r \in Spaces |-> [i \in 1 .. written[r] |-> i - 1]]
  <1>7. S[s] = a
    BY <1>3
  <1>8. /\ Channel!Longer(got[s], got'[s])
        /\ Len(got'[s]) <= Len(S[s]) /\ got'[s] = SubSeq(S[s], 1, Len(got'[s]))
    BY <1>1, <1>4, <1>5, <1>6, <1>7 DEF Channel!Longer
  <1> QED  BY <1>1, <1>2, <1>8 DEF Channel!Read

\* The CRYPTO streams implement a reliable, ordered channel per space: what the peer's TLS
\* reads is what TLS wrote, in order and once, whatever is lost, repeated or reordered.
THEOREM StreamsAreChannels == Spec => ChannelSpec
  <1>1. StreamInv /\ [Next]_vars =>
          [Channel!Next]_<<[s \in Spaces |-> [i \in 1 .. written[s] |-> i - 1]], got>>
    <2> SUFFICES ASSUME StreamInv, [Next]_vars
                 PROVE  \/ Channel!Next
                        \/ UNCHANGED <<[s \in Spaces |-> [i \in 1 .. written[s] |-> i - 1]], got>>
      OBVIOUS
    <2>1. CASE UNCHANGED <<written, got>>
      BY <2>1
    <2>2. ASSUME NEW s \in Spaces, NEW n \in Records[s], Send(s, n)  PROVE Channel!Next
      BY <2>2, SendWrites DEF Channel!Next
    <2>3. ASSUME NEW s \in Spaces, ReadToEnd(s)  PROVE Channel!Next
      BY <2>3, ReadReads DEF Channel!Next
    <2>4. \/ UNCHANGED <<written, got>>
          \/ \E s \in Spaces : (\E n \in Records[s] : Send(s, n)) \/ ReadToEnd(s)
      BY DEF Next, vars, BeginFrames, WriteFrame, EndFrames, Acked, Lost, Forget, ResendUnacked,
             Discard, InboundFrames, PeerDiscard
    <2> QED  BY <2>1, <2>2, <2>3, <2>4
  <1> QED  BY <1>1, ChannelInit, StreamsInvariant, PTL DEF Spec, ChannelSpec, Channel!Spec
=============================================================================
