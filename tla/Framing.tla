------------------------------- MODULE Framing -------------------------------
(***************************************************************************)
(* The frame codec (framing.rs) and its varints (varint.rs), and a reader  *)
(* that appends what a read returns to its buffer and decodes until no     *)
(* frame is complete, as every ferry does.                                 *)
(*                                                                         *)
(* The numbers are scaled: a varint byte has a continuation bit and a      *)
(* digit below Base (128), a varint at most VarintMaxBytes (10) bytes,     *)
(* the last of them a digit of at most TopDigit (1).                       *)
(***************************************************************************)
EXTENDS Integers, Sequences

CONSTANTS
    Base,               \* 2^7
    VarintMaxBytes,     \* VARINT_MAX_BYTES
    TopDigit,           \* what fits into the last byte
    UsizeMax,           \* usize::MAX of the target
    MaxPayload,         \* VeilFrontCodec::max_payload
    Buckets,            \* LENGTH_BUCKETS, ascending
    FrameLens,          \* payload lengths of a sender
    MaxFrames           \* bound on the frames of a stream

ASSUME FramingAssumption ==
    /\ {Base, VarintMaxBytes, TopDigit, UsizeMax, MaxPayload, MaxFrames} \subseteq Nat
    /\ Base > 1 /\ VarintMaxBytes > 0
    /\ 2 + 2 * VarintMaxBytes + 2 * MaxPayload <= UsizeMax
    /\ Buckets \in Seq(Nat) /\ FrameLens \subseteq 0..MaxPayload

WireVer == 3
DataType == 1
ChaffType == 2
Byte == 0..2 * Base - 1

\* encode_varint: the digits of v, lowest first; all but the last have the
\* continuation bit.
EncodeVarint[v \in Nat] ==
    IF v < Base THEN <<v>> ELSE <<(v % Base) + Base>> \o EncodeVarint[v \div Base]

\* Every length is a u64, and LENGTH_BUCKETS end far below DEFAULT_MAX_PAYLOAD.
ASSUME LengthsAssumption ==
    /\ \A v \in 0..MaxPayload :
          LET w == EncodeVarint[v]
          IN  Len(w) <= VarintMaxBytes /\ (Len(w) = VarintMaxBytes => w[Len(w)] <= TopDigit)
    /\ \A i \in 1..Len(Buckets) : Buckets[i] <= MaxPayload

Digit(b) == b % Base
Value(digits) ==
    LET high[k \in 0..Len(digits)] ==      \* of the k highest digits
            IF k = 0 THEN 0 ELSE Digit(digits[Len(digits) + 1 - k]) + Base * high[k - 1]
    IN  high[Len(digits)]

\* decode_varint_checked
\* (Fault: a varint that cannot end any more is still incomplete.)
DecodeVarintPatient(buf) ==
    LET last == {k \in 1..Len(buf) : buf[k] < Base /\ \A i \in 1..k - 1 : buf[i] >= Base}
    IN  IF last = {} THEN [is |-> "incomplete"]
        ELSE LET n == CHOOSE k \in last : TRUE IN
             IF \/ n > VarintMaxBytes
                \/ n = VarintMaxBytes /\ Digit(buf[n]) > TopDigit
                \/ n > 1 /\ Digit(buf[n]) = 0
             THEN [is |-> "malformed"]
             ELSE [is |-> "value", v |-> Value(SubSeq(buf, 1, n)), n |-> n]

DecodeVarint(buf) ==
    LET seen == IF Len(buf) < VarintMaxBytes THEN Len(buf) ELSE VarintMaxBytes
        last == {k \in 1..seen : buf[k] < Base /\ \A i \in 1..k - 1 : buf[i] >= Base}
    IN  IF last = {} THEN [is |-> IF seen = VarintMaxBytes THEN "malformed" ELSE "incomplete"]
        ELSE LET n == CHOOSE k \in last : TRUE IN
             IF \/ n = VarintMaxBytes /\ Digit(buf[n]) > TopDigit
                \/ n > 1 /\ Digit(buf[n]) = 0
             THEN [is |-> "malformed"]
             ELSE [is |-> "value", v |-> Value(SubSeq(buf, 1, n)), n |-> n]

\* pick_bucket
PickBucket(len) ==
    LET fit == {i \in 1..Len(Buckets) : Buckets[i] >= len}
    IN  IF fit = {} THEN len ELSE Buckets[CHOOSE i \in fit : \A k \in fit : i <= k]

Zeros(n) == [i \in 1..n |-> 0]

\* Encoder::encode.  saturating_sub keeps the pad of an oversized payload at zero.
\* (Fault: the pad counts towards payload_len.)
EncodeTotal(f, bucketed) ==
    LET len == Len(f.payload)
        bucket == IF bucketed THEN PickBucket(len) ELSE len
        pad == IF bucket > len THEN bucket - len ELSE 0
    IN  <<WireVer, f.type>> \o EncodeVarint[len + pad] \o EncodeVarint[pad]
            \o f.payload \o Zeros(pad)

Encode(f, bucketed) ==
    LET len == Len(f.payload)
        bucket == IF bucketed THEN PickBucket(len) ELSE len
        pad == IF bucket > len THEN bucket - len ELSE 0
    IN  <<WireVer, f.type>> \o EncodeVarint[len] \o EncodeVarint[pad]
            \o f.payload \o Zeros(pad)

TooLarge == -1

\* bounded_len: compared before it is converted to usize.
\* (Fault: converted first.)
BoundedLenCast(len) ==
    IF len % (UsizeMax + 1) <= MaxPayload THEN len % (UsizeMax + 1) ELSE TooLarge

BoundedLen(len) == IF len <= MaxPayload THEN len ELSE TooLarge

\* A length field that begins at byte k.
LengthAt(buf, k) ==
    LET d == DecodeVarint(SubSeq(buf, k, Len(buf)))
    IN  IF d.is # "value" THEN d
        ELSE IF BoundedLen(d.v) = TooLarge THEN [is |-> "malformed"]
        ELSE [d EXCEPT !.v = BoundedLen(d.v)]

\* Decoder::decode: a frame and the number of bytes it took, "incomplete", or "malformed".
\* The checked additions of the frame's length never fail: by FramingAssumption two lengths
\* within max_payload and their header fit a usize.
Decode(buf) ==
    IF buf = <<>> THEN [is |-> "incomplete"]
    ELSE IF buf[1] # WireVer THEN [is |-> "malformed"]
    ELSE IF Len(buf) = 1 THEN [is |-> "incomplete"]
    ELSE LET payload == LengthAt(buf, 3)
             pad == LengthAt(buf, 3 + payload.n)
             header == 2 + payload.n + pad.n
             total == header + payload.v + pad.v
         IN  IF payload.is # "value" THEN payload
             ELSE IF pad.is # "value" THEN pad
             ELSE IF Len(buf) < total THEN [is |-> "incomplete"]
             ELSE [is |-> "frame", n |-> total,
                   frame |-> [type |-> buf[2],
                              payload |-> SubSeq(buf, header + 1, header + payload.v)]]

-----------------------------------------------------------------------------
(* A stream and its reader.                                                *)

VARIABLES
    from,       \* "encoder", or "any" for a peer that sends any bytes
    sent,       \* frames of the stream
    pending,    \* bytes that did not arrive yet
    buf,        \* the reader's BytesMut
    taken,      \* the bytes of the last frame
    decoded,    \* frames decoded
    state       \* "read", "drain" or "error"

frVars == <<from, sent, pending, buf, taken, decoded, state>>

\* Payloads hold every byte, the version among them.
Payload(n) == [i \in 1..n |-> (i + 1) % (2 * Base)]
Frames == [type : {DataType, ChaffType}, payload : {Payload(n) : n \in FrameLens}]

\* The bytes of a stream of frames.
Wire(fs, bucketed) ==
    LET upto[k \in 0..Len(fs)] ==
            IF k = 0 THEN <<>> ELSE upto[k - 1] \o Encode(fs[k], bucketed)
    IN  upto[Len(fs)]

FrInit ==
    /\ \/ /\ from = "encoder"
          /\ \E n \in 0..MaxFrames : sent \in [1..n -> Frames]
          /\ \E bucketed \in BOOLEAN : pending = Wire(sent, bucketed)
       \/ from = "any" /\ sent = <<>> /\ pending = <<>>
    /\ buf = <<>> /\ taken = <<>> /\ decoded = <<>>
    /\ state = "read"

\* A read returns some of the bytes.
Arrive ==
    /\ state = "read"
    /\ \E n \in 1..Len(pending) :
          /\ buf' = buf \o SubSeq(pending, 1, n)
          /\ pending' = SubSeq(pending, n + 1, Len(pending))
    /\ state' = "drain"
    /\ UNCHANGED <<from, sent, taken, decoded>>

\* One turn of `while let Some(frame) = codec.decode(&mut buf)?`.
DecodeNext ==
    /\ state = "drain"
    /\ LET d == Decode(buf) IN
       \/ d.is = "incomplete" /\ state' = "read" /\ UNCHANGED <<buf, taken, decoded>>
       \/ d.is = "malformed" /\ state' = "error" /\ UNCHANGED <<buf, taken, decoded>>
       \/ /\ d.is = "frame"
          /\ taken' = SubSeq(buf, 1, d.n)
          /\ buf' = SubSeq(buf, d.n + 1, Len(buf))
          /\ decoded' = Append(decoded, d.frame)
          /\ UNCHANGED state
    /\ UNCHANGED <<from, sent, pending>>

\* Both lengths of the frame at the head of b are known.
LengthsKnown(b) ==
    LET payload == LengthAt(b, 3)
    IN  payload.is = "value" /\ LengthAt(b, 3 + payload.n).is = "value"

\* A byte of a peer that sends any header, one byte at a time, until a frame is complete.
\* The decoder does not look at the bytes after the header.
AnyByte ==
    /\ from = "any"
    /\ state = "read" /\ decoded = <<>>
    /\ \E b \in IF LengthsKnown(buf) THEN {0} ELSE Byte : buf' = Append(buf, b)
    /\ state' = "drain"
    /\ UNCHANGED <<from, sent, pending, taken, decoded>>

FrNext == Arrive \/ AnyByte \/ DecodeNext
FrSpec == FrInit /\ [][FrNext]_frVars

-----------------------------------------------------------------------------
(* Properties.                                                             *)

\* However a stream is cut into reads, the reader gets its frames in order, never an
\* error, and after the last byte all of them with nothing left over: the codec of a bucketed
\* and of a plain sender agrees with every reader at every length.
StreamRoundTrips ==
    from = "encoder" =>
        /\ state # "error"
        /\ Len(decoded) <= Len(sent) /\ decoded = SubSeq(sent, 1, Len(decoded))
        /\ pending = <<>> /\ state = "read" => decoded = sent /\ buf = <<>>

\* A reader that waits for more holds less than the largest frame, and less than the longest
\* header while the lengths are unknown: it does not wait for bytes that cannot complete
\* a frame ("telling incomplete apart from malformed", decode_varint_checked).
BufferIsBounded ==
    state = "read" =>
        /\ Len(buf) < 2 + 2 * VarintMaxBytes + 2 * MaxPayload
        /\ Len(buf) >= 2 + 2 * VarintMaxBytes => LengthsKnown(buf)

\* What is accepted is what an encoder could have sent: the bytes of a decoded frame are its
\* canonical header, its payload and a pad of bounded length, so one frame has one
\* reading and no length is truncated to another.
AcceptsOnlyCanonical ==
    decoded # <<>> =>
        LET f == decoded[Len(decoded)]
            len == Len(f.payload)
        IN  /\ len <= MaxPayload
            /\ \E pad \in 0..MaxPayload :
                  LET head == <<WireVer, f.type>> \o EncodeVarint[len] \o EncodeVarint[pad] IN
                  /\ Len(taken) = Len(head) + len + pad
                  /\ SubSeq(taken, 1, Len(head) + len) = head \o f.payload
=============================================================================
