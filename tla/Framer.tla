------------------------------- MODULE Framer -------------------------------
(***************************************************************************)
(* Framer.decode (givenergy_modbus/framer.py) and the decoders of pdu/ it  *)
(* calls: frames are found in a byte stream that arrives in pieces and may *)
(* hold garbage, cut frames and flipped bytes.                             *)
(*                                                                         *)
(* Bytes are small numbers and the layout is the source's with shorter     *)
(* fields: a marker of two bytes (source: four), the length of what        *)
(* follows, one byte for the unit and main function, then the data.  Data  *)
(* adapter serial, padding, slave address and inverter serial, which the   *)
(* decoders only copy, are left out.  A step is one pass of decode's loop. *)
(* The framer outlives connections: a connection lost within a frame is a  *)
(* cut frame followed by what the next connection sends.                   *)
(***************************************************************************)
EXTENDS Integers, Sequences, SequencesExt

CONSTANTS
    Marker,       \* HEADER_START_MARKER
    MinFrame,     \* the shortest known message (source: 18)
    MaxLength,    \* the largest length a header may claim (source: 300)
    ReadMax,      \* reader.read(300)
    Messages,     \* the frames a sound device sends
    Faults,       \* what a fault may put in the stream instead of a frame
    MaxMessages   \* bound: frames in a stream

ASSUME FramerAssumption ==
    /\ {MinFrame, MaxLength, ReadMax, MaxMessages} \subseteq Nat
    /\ Marker \in Seq(Nat) /\ Marker # <<>>
    /\ Messages \subseteq Seq(Nat) /\ Faults \subseteq Seq(Nat)
    /\ Len(Marker) + 2 < MinFrame /\ MinFrame <= Len(Marker) + 1 + MaxLength
    /\ 2 * Len(Marker) <= MinFrame

VARIABLES
    items,   \* what is sent, in order: frames and faults
    taken,   \* bytes received so far
    buffer,  \* _buffer
    phase,   \* "reading", "decoding", or "dead": decode raised
    out      \* what decode yielded: [at |-> offset in the stream, frame, result]

vars == <<items, taken, buffer, phase, out>>

Wire == FlattenSeq(items)
\* Where the buffer begins in the stream.
Passed == taken - Len(buffer)

(***************************************************************************)
(* The layout of a frame                                                   *)
(***************************************************************************)
HeaderLength == Len(Marker) + 2
LengthOf(b) == b[Len(Marker) + 1]
FunctionOf(b) == b[Len(Marker) + 2]

\* Mutant: what comes before the length is not counted.
MutFrameLength(b) == LengthOf(b)

FrameLength(b) == Len(Marker) + 1 + LengthOf(b)
Data(b) == SubSeq(b, HeaderLength + 1, Len(b))

HeartbeatFunction == 1
TransparentFunction == 2
ErrorBit == 100

\* buffer.find(HEADER_START_MARKER, from - 1): the first position, or 0.
Find(b, from) ==
    LET at == {i \in from..(Len(b) - Len(Marker) + 1) : SubSeq(b, i, i + Len(Marker) - 1) = Marker}
    IN IF at = {} THEN 0 ELSE CHOOSE i \in at : \A j \in at : i <= j

\* An ideal stand-in for the CRC: the sum of what it covers.
Crc(data) == FoldSeq(LAMBDA x, y : x + y, 0, data)

(***************************************************************************)
(* decode_bytes: "raises" is struct.error or NotImplementedError, which    *)
(* decode does not catch; "invalid" is InvalidPduState, which it yields.   *)
(***************************************************************************)
\* PayloadDecoder has n fields left to unpack.
Unpacks(d, n) == Len(d) >= n

\* Mutant: the check code is not verified.
MutDecodeRead(fn, d) ==
    IF Unpacks(d, 2) /\ Unpacks(d, 3 + (IF fn >= ErrorBit THEN 0 ELSE d[2]))
    THEN "message" ELSE "raises"

\* base register and count, as many values as the count says, check code
DecodeRead(fn, d) ==
    LET values == IF fn >= ErrorBit THEN 0 ELSE d[2]
        sound == d[3 + values] = Crc(<<fn % ErrorBit>> \o SubSeq(d, 2, 2 + values))
    IN IF Unpacks(d, 2) /\ Unpacks(d, 3 + values)
       THEN IF sound THEN "message" ELSE "invalid"
       ELSE "raises"

\* register, value and a check code nobody verifies
DecodeWrite(d) == IF Unpacks(d, 3) THEN "message" ELSE "raises"

\* values and a check code
DecodeNull(d) == IF Unpacks(d, 3) THEN "message" ELSE "raises"

\* the type of the data adapter
DecodeHeartbeat(d) == IF Unpacks(d, 1) THEN "message" ELSE "raises"

\* lookup_transparent_function_decoder
ResponseOf(fn) ==
    CASE fn = 0 -> "null"
      [] fn \in {3, 4} -> "read"
      [] fn = 6 -> "write"
      [] OTHER -> "none"

DecodeTransparent(d) ==
    IF ~Unpacks(d, 1) THEN "raises"
    ELSE CASE ResponseOf(d[1] % ErrorBit) = "read" -> DecodeRead(d[1], d)
           [] ResponseOf(d[1] % ErrorBit) = "write" -> DecodeWrite(d)
           [] ResponseOf(d[1] % ErrorBit) = "null" -> DecodeNull(d)
           [] ResponseOf(d[1] % ErrorBit) = "none" -> "raises"

DecodeBytes(f) ==
    IF ~Unpacks(f, HeaderLength) THEN "raises"
    ELSE IF FunctionOf(f) = HeartbeatFunction THEN DecodeHeartbeat(Data(f))
    ELSE DecodeTransparent(Data(f))

\* What a sound device sends: a header that tells the truth, data that can be decoded, and no
\* marker near the first (the fields there are the length, the unit, a serial and its padding).
WellFormed(m) ==
    /\ Len(m) >= MinFrame
    /\ SubSeq(m, 1, Len(Marker)) = Marker
    /\ LengthOf(m) = Len(m) - Len(Marker) - 1 /\ LengthOf(m) <= MaxLength
    /\ FunctionOf(m) \in {HeartbeatFunction, TransparentFunction}
    /\ DecodeBytes(m) = "message"
    /\ \A n \in Messages, p \in 2..MinFrame : SubSeq(m \o n, p, p + Len(Marker) - 1) # Marker

ASSUME MessagesAssumption == \A m \in Messages : WellFormed(m)

(***************************************************************************)
(* decode                                                                  *)
(***************************************************************************)
Receive(n) ==
    /\ phase = "reading"
    /\ n \in 1..ReadMax /\ taken + n <= Len(Wire)
    /\ buffer' = buffer \o SubSeq(Wire, taken + 1, taken + n)
    /\ taken' = taken + n
    /\ phase' = "decoding"
    /\ UNCHANGED <<items, out>>

\* Mutant: the wrong part of the buffer is kept.
MutSkip(n) == buffer' = SubSeq(buffer, 1, n) /\ UNCHANGED <<items, taken, phase, out>>

\* The buffer is advanced by n bytes and the loop goes on.
Skip(n) ==
    /\ buffer' = SubSeq(buffer, n + 1, Len(buffer))
    /\ UNCHANGED <<items, taken, phase, out>>

Await == phase' = "reading" /\ UNCHANGED <<items, taken, buffer, out>>

AtMarker == Len(buffer) >= MinFrame /\ Find(buffer, 1) = 1
NextMarker == Find(buffer, 2)

\* Mutant: any later marker makes the frame implausible.
MutTruncated == NextMarker # 0

\* "Next frame start found implausibly near"
Truncated == NextMarker \in 2..MinFrame

TooShort == phase = "decoding" /\ Len(buffer) < MinFrame /\ Await

NoMarker == phase = "decoding" /\ Len(buffer) >= MinFrame /\ Find(buffer, 1) = 0 /\ Await

DiscardGarbage ==
    /\ phase = "decoding" /\ Len(buffer) >= MinFrame
    /\ Find(buffer, 1) > 1
    /\ Skip(Find(buffer, 1) - 1)

SkipTruncated == phase = "decoding" /\ AtMarker /\ Truncated /\ Skip(NextMarker - 1)

\* Mutant: the claimed length is not checked.
MutSaneHeader == FunctionOf(buffer) \in {HeartbeatFunction, TransparentFunction}

SaneHeader ==
    /\ LengthOf(buffer) <= MaxLength
    /\ FunctionOf(buffer) \in {HeartbeatFunction, TransparentFunction}

DropHeader == phase = "decoding" /\ AtMarker /\ ~Truncated /\ ~SaneHeader /\ Skip(Len(Marker))

Incomplete ==
    /\ phase = "decoding" /\ AtMarker /\ ~Truncated /\ SaneHeader
    /\ Len(buffer) < FrameLength(buffer)
    /\ Await

\* The buffer is advanced before the frame is decoded, so a frame that raises is gone too.
Extract ==
    /\ phase = "decoding" /\ AtMarker /\ ~Truncated /\ SaneHeader
    /\ Len(buffer) >= FrameLength(buffer)
    /\ LET frame == SubSeq(buffer, 1, FrameLength(buffer))
           result == DecodeBytes(frame)
       IN /\ out' = IF result = "raises" THEN out
                    ELSE out \cup {[at |-> Passed, frame |-> frame, result |-> result]}
          /\ phase' = IF result = "raises" THEN "dead" ELSE "decoding"
    /\ buffer' = SubSeq(buffer, FrameLength(buffer) + 1, Len(buffer))
    /\ UNCHANGED <<items, taken>>

DecodeStep ==
    TooShort \/ NoMarker \/ DiscardGarbage \/ SkipTruncated \/ DropHeader \/ Incomplete \/ Extract

\* At most MaxMessages frames, with at most one fault before, between or after them.
Streams ==
    LET sound == SeqOf(Messages, MaxMessages)
    IN sound \cup {InsertAt(x[1], x[2], x[3]) :
                     x \in {y \in sound \X (1..(MaxMessages + 1)) \X Faults : y[2] <= Len(y[1]) + 1}}

Init ==
    /\ items \in Streams
    /\ taken = 0
    /\ buffer = <<>>
    /\ phase = "reading" /\ out = {}

Next == DecodeStep \/ \E n \in 1..ReadMax : Receive(n)

Spec == Init /\ [][Next]_vars

(***************************************************************************)
(* What a stream with a fault must satisfy for the framer to find its way: *)
(* hypotheses of theorems, not of the model.                               *)
(***************************************************************************)
\* At p in b begins a header that decode would believe.
HeaderAt(b, p) ==
    /\ p + Len(Marker) + 1 <= Len(b)
    /\ SubSeq(b, p, p + Len(Marker) - 1) = Marker
    /\ b[p + Len(Marker)] <= MaxLength
    /\ b[p + Len(Marker) + 1] \in {HeartbeatFunction, TransparentFunction}

\* Whatever follows a sound frame, no marker begins near its own.
FramesAreUnmistakable ==
    \A m \in Messages, p \in 2..MinFrame :
        \E q \in p..(p + Len(Marker) - 1) : q <= Len(m) /\ m[q] # Marker[q - p + 1]

\* What is in S and precedes a sound frame holds no header that decode would believe, but for
\* the one it begins with.
NoHeaderWithin(S) ==
    \A x \in S, m \in Messages : \A p \in 2..Len(x) : ~HeaderAt(x \o m, p)

\* A read response: its header tells the truth and its check code is that of what it covers.
ReadResponse(f) ==
    /\ HeaderAt(f, 1) /\ LengthOf(f) = Len(f) - Len(Marker) - 1
    /\ FunctionOf(f) = TransparentFunction
    /\ LET d == Data(f)
           values == IF d[1] >= ErrorBit THEN 0 ELSE d[2]
       IN /\ d[1] % ErrorBit \in {3, 4} /\ Unpacks(d, 2) /\ Unpacks(d, 3 + values)
          /\ d[3 + values] = Crc(<<d[1] % ErrorBit>> \o SubSeq(d, 2, 2 + values))

(***************************************************************************)
(* Properties                                                              *)
(***************************************************************************)
Start(i) == Len(FlattenSeq(SubSeq(items, 1, i - 1)))
Stop(i) == Len(FlattenSeq(SubSeq(items, 1, i)))
Delivered(i) == [at |-> Start(i), frame |-> items[i], result |-> "message"] \in out
LongestFrame == Len(Marker) + 1 + MaxLength
Clean == \A i \in DOMAIN items : items[i] \in Messages

\* Every variable has its type, and the buffer is the part of the stream it claims to be.
TypeOK ==
    /\ taken \in 0..Len(Wire)
    /\ phase \in {"reading", "decoding", "dead"}
    /\ buffer = SubSeq(Wire, Passed + 1, taken)
    /\ \A m \in out : m.at \in 0..Passed /\ m.result \in {"message", "invalid"}

\* Without a fault every frame is yielded once, whole and as soon as its last byte arrives,
\* however the stream is cut into pieces, and decode never raises.
CleanStreamIsDelivered ==
    Clean =>
        /\ phase # "dead"
        /\ \A i \in DOMAIN items : Delivered(i) <=> Stop(i) <= Passed
        /\ \A m \in out : \E i \in DOMAIN items : m.at = Start(i) /\ m.frame = items[i]
        /\ phase = "reading" => \A i \in DOMAIN items : Stop(i) <= taken => Delivered(i)

\* A fault costs only frames that begin within the longest frame after it: the framer finds
\* its way back.
ResyncIsBounded ==
    phase # "dead" =>
        \A i \in DOMAIN items :
            items[i] \in Messages /\ Stop(i) <= Passed =>
                \/ Delivered(i)
                \/ \E j \in 1..i : items[j] \in Faults /\ Start(i) < Start(j) + LongestFrame

\* While it waits for data the buffer holds less than a frame, unless it holds no marker.
BufferIsBounded ==
    phase = "reading" => Len(buffer) < LongestFrame \/ Find(buffer, 1) = 0

\* A read response that is yielded as a message was sent as it is: neither a flipped byte nor
\* two frames grown together pass as register values, unless the check code is right by chance,
\* which no fault of the run achieves.  Write responses have no such check.
ReadsAreGenuine ==
    \A m \in out :
        m.result = "message" /\ FunctionOf(m.frame) = TransparentFunction
            /\ Data(m.frame)[1] % ErrorBit \in {3, 4}
        => m.frame \in Messages

\* Every pass of the loop that is not the last makes the buffer shorter, so decode() comes to
\* an end and no pair of branches sends each other round in circles.
PassesAdvance ==
    [][phase = "decoding" /\ phase' # "reading" => Len(buffer') < Len(buffer)]_vars

=============================================================================
