---------------------------- MODULE FramerProofs ----------------------------
(***************************************************************************)
(* Proofs about Framer: for every marker, every set of sound messages and  *)
(* of faults and every stream made of them, however it is cut into reads,  *)
(* the framer keeps to the stream, advances and holds back less than a     *)
(* frame, and without a fault it yields exactly what was sent.  With a     *)
(* fault it is back after the longest frame, and what it yields was sent,  *)
(* under the hypotheses at the end of Framer.                              *)
(***************************************************************************)
EXTENDS Framer, SequenceLemmas

(***************************************************************************)
(* The stream                                                              *)
(***************************************************************************)
LEMMA BoundedSequence ==
    ASSUME NEW S, NEW n \in Nat, NEW s \in SeqOf(S, n)
    PROVE  s \in Seq(S)
  BY DEF SeqOf

LEMMA Inserted ==
    ASSUME NEW S, NEW s \in Seq(S), NEW i \in 1..(Len(s) + 1), NEW e \in S
    PROVE  InsertAt(s, i, e) \in Seq(S)
  <1>1. /\ \A j \in 1..(i - 1) : s[j] \in S
        /\ \A j \in i..Len(s) : s[j] \in S
        /\ i \in Int /\ i - 1 \in Int /\ Len(s) \in Int
    BY LenProperties, ElementOfSeq
  <1>2. SubSeq(s, 1, i - 1) \in Seq(S) /\ SubSeq(s, i, Len(s)) \in Seq(S)
    BY <1>1, SubSeqProperties
  <1>3. <<e>> \in Seq(S)
    OBVIOUS
  <1>4. SubSeq(s, 1, i - 1) \o <<e>> \in Seq(S)
    BY <1>2, <1>3, ConcatProperties
  <1> QED BY <1>2, <1>4, ConcatProperties DEF InsertAt

LEMMA StreamsType == Streams \subseteq Seq(Messages \cup Faults)
  <1> DEFINE A == Messages \cup Faults
             sound == SeqOf(Messages, MaxMessages)
  <1>1. sound \subseteq Seq(Messages) /\ Seq(Messages) \subseteq Seq(A)
    BY FramerAssumption, BoundedSequence
  <1>2. ASSUME NEW y \in sound \X (1..(MaxMessages + 1)) \X Faults, y[2] <= Len(y[1]) + 1
        PROVE  InsertAt(y[1], y[2], y[3]) \in Seq(A)
    <2>1. y[1] \in Seq(A) /\ y[2] \in 1..(MaxMessages + 1) /\ y[3] \in A
      BY <1>1
    <2>2. y[2] \in 1..(Len(y[1]) + 1)
      BY <1>2, <2>1, LenProperties
    <2> QED BY <2>1, <2>2, Inserted
  <1> QED BY <1>1, <1>2 DEF Streams

LEMMA SentType == ASSUME NEW s \in Seq(Messages \cup Faults) PROVE s \in Seq(Seq(Nat))
  BY FramerAssumption

LEMMA WireType == ASSUME items \in Seq(Seq(Nat)) PROVE Wire \in Seq(Nat) /\ Len(Wire) \in Nat
  <1>1. Len(items) \in 0..Len(items) /\ SubSeq(items, 1, Len(items)) = items
    BY LenProperties, SubSeqFull
  <1> QED BY <1>1, FlatType DEF Wire, Flat

LEMMA Sizes ==
    /\ Len(Marker) \in Nat \ {0} /\ MinFrame \in Nat /\ MaxLength \in Nat /\ ReadMax \in Nat
    /\ Len(Marker) + 2 < MinFrame /\ MinFrame <= Len(Marker) + 1 + MaxLength
  BY FramerAssumption, EmptySeq

(***************************************************************************)
(* What is found and what is decoded                                       *)
(***************************************************************************)
Matches(b, i) == SubSeq(b, i, i + Len(Marker) - 1) = Marker

LEMMA FindIs ==
    ASSUME NEW b \in Seq(Nat), NEW from \in Nat \ {0}
    PROVE  \/ /\ Find(b, from) = 0
              /\ \A i \in from..(Len(b) - Len(Marker) + 1) : ~Matches(b, i)
           \/ /\ Find(b, from) \in from..(Len(b) - Len(Marker) + 1)
              /\ Matches(b, Find(b, from))
              /\ \A i \in from..(Len(b) - Len(Marker) + 1) : Matches(b, i) => Find(b, from) <= i
  <1> DEFINE range == from..(Len(b) - Len(Marker) + 1)
             at == {i \in range : Matches(b, i)}
             first == CHOOSE i \in at : \A j \in at : i <= j
  <1>1. Find(b, from) = IF at = {} THEN 0 ELSE first
    BY DEF Find, Matches
  <1>2. CASE at = {}
    BY <1>1, <1>2
  <1>3. CASE at # {}
    <2>1. range \subseteq Nat
      BY Sizes, LenProperties
    <2>2. at \subseteq Nat
      BY <2>1
    <2>3. \E i \in at : \A j \in at : i <= j
      <3> HIDE DEF at
      <3> QED BY <1>3, <2>2, Least
    <2>4. first \in at /\ \A j \in at : first <= j
      <3> HIDE DEF at
      <3> QED BY <2>3
    <2> HIDE DEF first
    <2> QED BY <1>1, <1>3, <2>4
  <1> QED BY <1>2, <1>3

LEMMA DecodeResults ==
    ASSUME NEW f
    PROVE  DecodeBytes(f) \in {"message", "invalid", "raises"}
  <1>1. ASSUME NEW d PROVE DecodeTransparent(d) \in {"message", "invalid", "raises"}
    <2>1. \A fn : DecodeRead(fn, d) \in {"message", "invalid", "raises"}
      BY DEF DecodeRead
    <2>2. DecodeWrite(d) \in {"message", "raises"} /\ DecodeNull(d) \in {"message", "raises"}
      BY DEF DecodeWrite, DecodeNull
    <2>3. \A fn : ResponseOf(fn) \in {"read", "write", "null", "none"}
      BY DEF ResponseOf
    <2> QED BY <2>1, <2>2, <2>3 DEF DecodeTransparent
  <1>2. \A d : DecodeHeartbeat(d) \in {"message", "raises"}
    BY DEF DecodeHeartbeat
  <1> QED BY <1>1, <1>2 DEF DecodeBytes

(***************************************************************************)
(* The framer keeps to the stream                                          *)
(***************************************************************************)
FramerType ==
    /\ items \in Seq(Seq(Nat)) /\ buffer \in Seq(Nat)
    /\ taken \in 0..Len(Wire) /\ Passed \in 0..taken
    /\ \A i \in 1..Len(buffer) : buffer[i] = Wire[Passed + i]
    /\ phase \in {"reading", "decoding", "dead"}
    /\ \A m \in out : m.at \in 0..Passed /\ m.result \in {"message", "invalid"}

LEMMA InitType == Init => FramerType
  <1> SUFFICES ASSUME Init PROVE FramerType
    OBVIOUS
  <1>1. items \in Seq(Seq(Nat))
    BY StreamsType, SentType DEF Init
  <1>2. Len(Wire) \in Nat
    BY <1>1, WireType
  <1>3. buffer \in Seq(Nat) /\ Len(buffer) = 0 /\ taken = 0
    BY EmptySeq DEF Init
  <1>4. Passed = 0 /\ phase = "reading" /\ out = {}
    <2>1. Passed = 0
      BY <1>3 DEF Passed
    <2> QED BY <2>1 DEF Init
  <1>5. taken \in 0..Len(Wire) /\ Passed \in 0..taken
    BY <1>2, <1>3, <1>4
  <1> QED BY <1>1, <1>3, <1>4, <1>5 DEF FramerType

LEMMA TypeFacts ==
    ASSUME FramerType
    PROVE  /\ Wire \in Seq(Nat) /\ Len(Wire) \in Nat /\ Len(buffer) \in Nat
           /\ taken \in Nat /\ Passed \in Nat /\ taken = Passed + Len(buffer)
  <1>1. Wire \in Seq(Nat) /\ Len(Wire) \in Nat
    BY WireType DEF FramerType
  <1>2. Len(buffer) \in Nat
    BY LenProperties DEF FramerType
  <1> QED BY <1>1, <1>2 DEF FramerType, Passed

\* What a pass takes off the buffer is some of it, and never nothing.
LEMMA TakenOff ==
    ASSUME FramerType
    PROVE  /\ Len(buffer) >= MinFrame => Len(Marker) \in 1..Len(buffer)
           /\ Find(buffer, 1) > 1 => Find(buffer, 1) - 1 \in 1..Len(buffer)
           /\ Truncated => NextMarker - 1 \in 1..Len(buffer)
           /\ Len(buffer) >= MinFrame =>
                 FrameLength(buffer) \in Nat \ {0} /\ LengthOf(buffer) \in Nat
  <1>1. Len(buffer) \in Nat /\ buffer \in Seq(Nat)
    BY TypeFacts DEF FramerType
  <1>2. Find(buffer, 1) # 0 => Find(buffer, 1) \in 1..(Len(buffer) - Len(Marker) + 1)
    BY <1>1, FindIs
  <1>3. Find(buffer, 2) # 0 => Find(buffer, 2) \in 2..(Len(buffer) - Len(Marker) + 1)
    BY <1>1, FindIs
  <1>4. Find(buffer, 1) > 1 => Find(buffer, 1) - 1 \in 1..Len(buffer)
    BY <1>1, <1>2, Sizes
  <1>5. Truncated => NextMarker - 1 \in 1..Len(buffer)
    BY SMTT(30), <1>1, <1>3, Sizes DEF Truncated, NextMarker
  <1>6. Len(buffer) >= MinFrame => Len(Marker) + 1 \in 1..Len(buffer) /\ Len(Marker) \in 1..Len(buffer)
    BY <1>1, Sizes
  <1>7. Len(buffer) >= MinFrame => LengthOf(buffer) \in Nat
    BY <1>1, <1>6, ElementOfSeq DEF LengthOf
  <1>8. Len(buffer) >= MinFrame => FrameLength(buffer) \in Nat \ {0}
    BY <1>7, Sizes DEF FrameLength
  <1> QED BY <1>4, <1>5, <1>6, <1>7, <1>8

\* Taking n bytes off the buffer leaves it where it belongs in the stream.
LEMMA Advance ==
    ASSUME FramerType, NEW n \in 0..Len(buffer),
           buffer' = SubSeq(buffer, n + 1, Len(buffer)), UNCHANGED <<items, taken>>
    PROVE  /\ buffer' \in Seq(Nat) /\ Len(buffer') = Len(buffer) - n
           /\ Wire' = Wire /\ Passed' = Passed + n /\ Passed' \in 0..taken'
           /\ \A i \in 1..Len(buffer') : buffer'[i] = Wire'[Passed' + i]
  <1>1. /\ buffer \in Seq(Nat) /\ Len(buffer) \in Nat /\ n \in Nat /\ n <= Len(buffer)
        /\ taken \in Nat /\ Passed \in Nat /\ taken = Passed + Len(buffer)
    BY TypeFacts DEF FramerType
  <1>2. /\ buffer' \in Seq(Nat) /\ Len(buffer') = Len(buffer) - n
        /\ \A i \in 1..(Len(buffer) - n) : buffer'[i] = buffer[n + i]
    BY <1>1, Suffix
  <1>3. Wire' = Wire
    BY DEF Wire
  <1>4. Passed' = Passed + n /\ Passed' \in 0..taken'
    <2>1. taken' = taken /\ Passed' = taken' - Len(buffer')
      BY DEF Passed
    <2> QED BY <1>1, <1>2, <2>1
  <1>5. ASSUME NEW i \in 1..(Len(buffer) - n) PROVE buffer'[i] = Wire'[Passed' + i]
    <2>1. n + i \in 1..Len(buffer) /\ Passed + (n + i) = (Passed + n) + i
      BY <1>1
    <2>2. buffer[n + i] = Wire[Passed + (n + i)]
      BY <2>1 DEF FramerType
    <2> QED BY <1>2, <1>3, <1>4, <2>1, <2>2
  <1> QED BY <1>2, <1>3, <1>4, <1>5

LEMMA SkipKeepsType ==
    ASSUME FramerType, NEW n \in 0..Len(buffer), Skip(n)
    PROVE  FramerType'
  <1>1. buffer' = SubSeq(buffer, n + 1, Len(buffer)) /\ UNCHANGED <<items, taken, phase, out>>
    BY DEF Skip
  <1>2. /\ buffer' \in Seq(Nat) /\ Passed' \in 0..taken' /\ Passed' = Passed + n /\ Wire' = Wire
        /\ \A i \in 1..Len(buffer') : buffer'[i] = Wire'[Passed' + i]
    BY <1>1, Advance
  <1>3. \A m \in out' : m.at \in 0..Passed' /\ m.result \in {"message", "invalid"}
    BY <1>1, <1>2, TypeFacts DEF FramerType
  <1> QED BY <1>1, <1>2, <1>3 DEF FramerType

LEMMA AwaitKeepsType == ASSUME FramerType, Await PROVE FramerType'
  <1>1. Wire' = Wire /\ Passed' = Passed
    BY DEF Await, Wire, Passed
  <1> QED BY <1>1 DEF Await, FramerType

LEMMA ReceiveKeepsType ==
    ASSUME FramerType, NEW n \in 1..ReadMax, Receive(n)
    PROVE  FramerType' /\ Passed' = Passed /\ Len(buffer') = Len(buffer) + n
  <1> DEFINE read == SubSeq(Wire, taken + 1, taken + n)
  <1>1. /\ Wire \in Seq(Nat) /\ Len(Wire) \in Nat /\ buffer \in Seq(Nat) /\ Len(buffer) \in Nat
        /\ taken \in Nat /\ Passed \in Nat /\ taken = Passed + Len(buffer) /\ n \in Nat \ {0}
        /\ taken + n <= Len(Wire)
    BY SMTT(30), TypeFacts DEF FramerType, Receive
  <1>2. \A i \in (taken + 1)..(taken + n) : Wire[i] \in Nat
    BY SMTT(30), <1>1, ElementOfSeq
  <1>3. /\ read \in Seq(Nat) /\ Len(read) = n
        /\ \A i \in 1..n : read[i] = Wire[taken + i]
    <2>1. /\ read \in Seq(Nat)
          /\ Len(read) = IF taken + 1 <= taken + n THEN taken + n - (taken + 1) + 1 ELSE 0
          /\ \A i \in 1..(taken + n - (taken + 1) + 1) : read[i] = Wire[taken + 1 + i - 1]
      BY <1>1, <1>2, SubSeqProperties
    <2>2. /\ taken + n - (taken + 1) + 1 = n /\ taken + 1 <= taken + n
          /\ \A i \in 1..n : taken + 1 + i - 1 = taken + i
      BY <1>1
    <2> HIDE DEF read
    <2> QED BY <2>1, <2>2
  <1>4. buffer' = buffer \o read /\ taken' = taken + n /\ items' = items /\ out' = out
        /\ phase' = "decoding"
    BY DEF Receive
  <1> HIDE DEF read
  <1>5. /\ buffer' \in Seq(Nat) /\ Len(buffer') = Len(buffer) + n
        /\ \A i \in 1..(Len(buffer) + n) :
              buffer'[i] = IF i <= Len(buffer) THEN buffer[i] ELSE read[i - Len(buffer)]
    BY ZenonT(30), <1>1, <1>3, <1>4, ConcatProperties
  <1>6. Passed' = Passed /\ Wire' = Wire
    BY <1>1, <1>4, <1>5 DEF Passed, Wire
  <1>7. ASSUME NEW i \in 1..(Len(buffer) + n) PROVE buffer'[i] = Wire[Passed + i]
    <2>1. CASE i <= Len(buffer)
      <3>1. i \in 1..Len(buffer)
        BY <1>1, <2>1
      <3>2. buffer[i] = Wire[Passed + i]
        BY <3>1 DEF FramerType
      <3> QED BY <1>5, <2>1, <3>2
    <2>2. CASE ~(i <= Len(buffer))
      <3>1. i - Len(buffer) \in 1..n /\ taken + (i - Len(buffer)) = Passed + i
        BY <1>1, <2>2
      <3> QED BY <1>3, <1>5, <2>2, <3>1
    <2> QED BY <2>1, <2>2
  <1>8. taken' \in 0..Len(Wire') /\ Passed' \in 0..taken'
    BY <1>1, <1>4, <1>6
  <1> QED BY <1>4, <1>5, <1>6, <1>7, <1>8 DEF FramerType

\* What extracting a frame changes.
LEMMA ExtractStep ==
    ASSUME FramerType, Extract
    PROVE  /\ FrameLength(buffer) \in 1..Len(buffer)
           /\ buffer' = SubSeq(buffer, FrameLength(buffer) + 1, Len(buffer))
           /\ UNCHANGED <<items, taken>>
  BY TypeFacts, TakenOff DEF Extract, AtMarker

LEMMA ExtractKeepsType == ASSUME FramerType, Extract PROVE FramerType'
  <1> DEFINE n == FrameLength(buffer)
             frame == SubSeq(buffer, 1, n)
             result == DecodeBytes(frame)
  <1>1. /\ n \in 0..Len(buffer) /\ n \in Nat /\ buffer' = SubSeq(buffer, n + 1, Len(buffer))
        /\ UNCHANGED <<items, taken>>
    BY ExtractStep
  <1>2. /\ buffer' \in Seq(Nat) /\ Passed' \in 0..taken' /\ Passed' = Passed + n /\ Wire' = Wire
        /\ \A i \in 1..Len(buffer') : buffer'[i] = Wire'[Passed' + i]
    <2> HIDE DEF n
    <2> QED BY <1>1, Advance
  <1>3. /\ out' = IF result = "raises" THEN out
                  ELSE out \cup {[at |-> Passed, frame |-> frame, result |-> result]}
        /\ phase' = IF result = "raises" THEN "dead" ELSE "decoding"
    BY DEF Extract
  <1>4. result \in {"message", "invalid", "raises"}
    BY DecodeResults
  <1> HIDE DEF n, frame, result
  <1>5. Passed \in 0..Passed' /\ \A j \in 0..Passed : j \in 0..Passed'
    BY <1>1, <1>2, TypeFacts
  <1>6. \A m \in out' : m.at \in 0..Passed' /\ m.result \in {"message", "invalid"}
    BY <1>3, <1>4, <1>5 DEF FramerType
  <1>7. taken' \in 0..Len(Wire')
    BY <1>1, <1>2 DEF FramerType
  <1> QED BY <1>1, <1>2, <1>3, <1>6, <1>7 DEF FramerType

LEMMA StepType == FramerType /\ [Next]_vars => FramerType'
  <1> SUFFICES ASSUME FramerType, [Next]_vars PROVE FramerType'
    OBVIOUS
  <1>1. CASE TooShort
    BY <1>1, AwaitKeepsType DEF TooShort
  <1>2. CASE NoMarker
    BY <1>2, AwaitKeepsType DEF NoMarker
  <1>3. CASE DiscardGarbage
    <2>1. Find(buffer, 1) - 1 \in 0..Len(buffer)
      BY <1>3, TakenOff DEF DiscardGarbage
    <2> QED BY <1>3, <2>1, SkipKeepsType DEF DiscardGarbage
  <1>4. CASE SkipTruncated
    <2>1. NextMarker - 1 \in 0..Len(buffer)
      BY <1>4, TakenOff DEF SkipTruncated
    <2> QED BY <1>4, <2>1, SkipKeepsType DEF SkipTruncated
  <1>5. CASE DropHeader
    <2>1. Len(Marker) \in 0..Len(buffer)
      BY <1>5, TakenOff DEF DropHeader, AtMarker
    <2> QED BY <1>5, <2>1, SkipKeepsType DEF DropHeader
  <1>6. CASE Incomplete
    BY <1>6, AwaitKeepsType DEF Incomplete
  <1>7. CASE Extract
    BY <1>7, ExtractKeepsType
  <1>8. CASE \E n \in 1..ReadMax : Receive(n)
    BY <1>8, ReceiveKeepsType
  <1>9. CASE UNCHANGED vars
    BY <1>9 DEF vars, FramerType, Passed, Wire
  <1> QED BY <1>1, <1>2, <1>3, <1>4, <1>5, <1>6, <1>7, <1>8, <1>9 DEF Next, DecodeStep

LEMMA AlwaysTyped == Spec => []FramerType
  BY InitType, StepType, PTL DEF Spec

LEMMA TypeImplied == ASSUME FramerType PROVE TypeOK
  <1>1. /\ Wire \in Seq(Nat) /\ Len(Wire) \in Nat /\ buffer \in Seq(Nat) /\ Len(buffer) \in Nat
        /\ taken \in Nat /\ Passed \in Nat /\ taken = Passed + Len(buffer) /\ taken <= Len(Wire)
    BY TypeFacts DEF FramerType
  <1>2. \A i \in (Passed + 1)..taken : Wire[i] \in Nat
    BY <1>1, ElementOfSeq
  <1> DEFINE part == SubSeq(Wire, Passed + 1, taken)
  <1>3. /\ part \in Seq(Nat)
        /\ Len(part) = IF Passed + 1 <= taken THEN taken - (Passed + 1) + 1 ELSE 0
        /\ \A i \in 1..(taken - (Passed + 1) + 1) : part[i] = Wire[Passed + 1 + i - 1]
    BY <1>1, <1>2, SubSeqProperties
  <1>4. /\ taken - (Passed + 1) + 1 = Len(buffer)
        /\ (IF Passed + 1 <= taken THEN Len(buffer) ELSE 0) = Len(buffer)
        /\ \A i \in 1..Len(buffer) : Passed + 1 + i - 1 = Passed + i
    BY <1>1
  <1> HIDE DEF part
  <1>5. Len(part) = Len(buffer) /\ \A i \in 1..Len(buffer) : buffer[i] = part[i]
    BY <1>3, <1>4 DEF FramerType
  <1>6. buffer = part
    BY <1>1, <1>3, <1>5, SeqEqual
  <1> QED BY <1>6 DEF part, TypeOK, FramerType

\* The buffer is the part of the stream that follows what was passed, whatever was skipped,
\* dropped or extracted and however the bytes arrived (framer.py: self._buffer).
THEOREM TypeCorrect == Spec => []TypeOK
  BY AlwaysTyped, TypeImplied, PTL

(***************************************************************************)
(* The framer advances and holds back less than a frame                    *)
(***************************************************************************)
LEMMA InitBounded == Init => BufferIsBounded
  <1> SUFFICES ASSUME Init PROVE Len(buffer) < LongestFrame
    BY DEF BufferIsBounded
  <1> QED BY EmptySeq, Sizes DEF Init, LongestFrame

LEMMA StepBounded == FramerType /\ BufferIsBounded /\ [Next]_vars => BufferIsBounded'
  <1> SUFFICES ASSUME FramerType, BufferIsBounded, [Next]_vars, phase' = "reading"
               PROVE  (Len(buffer) < LongestFrame \/ Find(buffer, 1) = 0)'
    BY DEF BufferIsBounded
  <1>1. LongestFrame \in Nat /\ MinFrame <= LongestFrame /\ LongestFrame' = LongestFrame
    BY Sizes DEF LongestFrame
  <1>2. Len(buffer) \in Nat
    BY TypeFacts
  <1>3. CASE TooShort
    <2>1. Len(buffer) < LongestFrame /\ buffer' = buffer
      BY <1>1, <1>2, <1>3, Sizes DEF TooShort, Await
    <2> QED BY <1>1, <2>1
  <1>4. CASE NoMarker
    <2>1. Find(buffer, 1) = 0 /\ buffer' = buffer
      BY <1>4 DEF NoMarker, Await
    <2> QED BY <2>1
  <1>5. CASE Incomplete
    <2>1. Len(buffer) >= MinFrame /\ LengthOf(buffer) <= MaxLength /\ Len(buffer) < FrameLength(buffer)
      BY <1>5 DEF Incomplete, AtMarker, SaneHeader
    <2>2. LengthOf(buffer) \in Nat
      BY <2>1, TakenOff
    <2>3. FrameLength(buffer) <= LongestFrame
      BY <2>1, <2>2, Sizes DEF FrameLength, LongestFrame
    <2>4. FrameLength(buffer) \in Nat
      BY <2>1, TakenOff
    <2>5. Len(buffer) < LongestFrame /\ buffer' = buffer
      BY <1>1, <1>2, <1>5, <2>1, <2>3, <2>4 DEF Incomplete, Await
    <2> QED BY <1>1, <2>5
  <1>6. CASE DiscardGarbage \/ SkipTruncated \/ DropHeader
    BY <1>6 DEF DiscardGarbage, SkipTruncated, DropHeader, Skip
  <1>7. CASE Extract
    <2>1. phase' \in {"dead", "decoding"}
      BY <1>7 DEF Extract
    <2> QED BY <2>1
  <1>8. CASE \E n \in 1..ReadMax : Receive(n)
    BY <1>8 DEF Receive
  <1>9. CASE UNCHANGED vars
    <2>1. buffer' = buffer /\ phase' = phase
      BY <1>9 DEF vars
    <2> QED BY <1>1, <2>1 DEF BufferIsBounded
  <1> QED BY <1>3, <1>4, <1>5, <1>6, <1>7, <1>8, <1>9 DEF Next, DecodeStep

\* Whatever arrives, decode never waits with a whole frame or more in hand: the headers it
\* believes are bounded by the sanity check (framer.py: hdr_len > 300).
THEOREM HoldsLessThanAFrame == Spec => []BufferIsBounded
  BY AlwaysTyped, InitBounded, StepBounded, PTL DEF Spec

\* A pass of decode's loop ends the loop or takes something off the buffer: none may leave
\* everything as it is and go round again.
LEMMA PassShortens ==
    ASSUME FramerType, DecodeStep, phase' # "reading"
    PROVE  Len(buffer') < Len(buffer)
  <1>1. Len(buffer) \in Nat
    BY TypeFacts
  <1>2. ASSUME NEW n \in 1..Len(buffer), buffer' = SubSeq(buffer, n + 1, Len(buffer)),
               UNCHANGED <<items, taken>>
        PROVE  Len(buffer') < Len(buffer)
    <2>1. n \in 0..Len(buffer)
      OBVIOUS
    <2>2. Len(buffer') = Len(buffer) - n
      BY <1>2, <2>1, Advance
    <2> QED BY <1>1, <2>2
  <1>3. CASE DiscardGarbage
    <2>1. Find(buffer, 1) - 1 \in 1..Len(buffer)
      BY <1>3, TakenOff DEF DiscardGarbage
    <2> QED BY <1>2, <1>3, <2>1 DEF DiscardGarbage, Skip
  <1>4. CASE SkipTruncated
    <2>1. NextMarker - 1 \in 1..Len(buffer)
      BY <1>4, TakenOff DEF SkipTruncated
    <2> QED BY <1>2, <1>4, <2>1 DEF SkipTruncated, Skip
  <1>5. CASE DropHeader
    <2>1. Len(Marker) \in 1..Len(buffer)
      BY <1>5, TakenOff DEF DropHeader, AtMarker
    <2> QED BY <1>2, <1>5, <2>1 DEF DropHeader, Skip
  <1>6. CASE Extract
    BY <1>2, <1>6, ExtractStep
  <1>7. CASE TooShort \/ NoMarker \/ Incomplete
    BY <1>7 DEF TooShort, NoMarker, Incomplete, Await
  <1> QED BY <1>3, <1>4, <1>5, <1>6, <1>7 DEF DecodeStep

\* Every pass of decode's loop that is not its last takes something off the buffer, whatever the
\* buffer holds: the loop ends (framer.py: while len(self._buffer) >= 18).
THEOREM LoopAdvances == Spec => PassesAdvance
  <1>1. FramerType /\ [Next]_vars
        => [phase = "decoding" /\ phase' # "reading" => Len(buffer') < Len(buffer)]_vars
    <2> SUFFICES ASSUME FramerType, Next, phase = "decoding", phase' # "reading"
                 PROVE  Len(buffer') < Len(buffer)
      OBVIOUS
    <2>1. ~\E n \in 1..ReadMax : Receive(n)
      BY DEF Receive
    <2> QED BY <2>1, PassShortens DEF Next
  <1> QED BY <1>1, AlwaysTyped, PTL DEF Spec, PassesAdvance

(***************************************************************************)
(* Where what is sent lies in the stream, faults included                  *)
(***************************************************************************)
LEMMA StopIs ==
    ASSUME NEW k \in Nat
    PROVE  Stop(k) = Len(Flat(items, k)) /\ Start(k + 1) = Stop(k)
  <1>1. (k + 1) - 1 = k
    OBVIOUS
  <1> QED BY <1>1 DEF Stop, Start, Flat

LEMMA LastStop == ASSUME FramerType PROVE Stop(Len(items)) = Len(Wire)
  BY SubSeqFull DEF FramerType, Stop, Wire

LEMMA FirstStop == Stop(0) = 0
  <1>1. SubSeq(items, 1, 0) = <<>>
    BY SubSeqEmpty
  <1> QED BY <1>1, FlattenEmpty, EmptySeq DEF Stop

LEMMA Piece ==
    ASSUME FramerType, NEW k \in 1..Len(items)
    PROVE  /\ Start(k) \in Nat /\ Stop(k) \in Nat /\ Len(items[k]) \in Nat /\ items[k] \in Seq(Nat)
           /\ Stop(k) = Start(k) + Len(items[k]) /\ Stop(k) <= Len(Wire)
           /\ \A i \in 1..Len(items[k]) : Wire[Start(k) + i] = items[k][i]
  <1>1. /\ items \in Seq(Seq(Nat)) /\ Len(items) \in Nat
        /\ k - 1 \in 0..(Len(items) - 1) /\ k - 1 \in 0..Len(items) /\ k - 1 \in Nat /\ k \in Nat
        /\ (k - 1) + 1 = k
    BY LenProperties DEF FramerType
  <1>2. PICK n \in 0..(Len(items) - 1) : n = k - 1
    BY <1>1
  <1>3. n + 1 = k /\ n \in Nat /\ n \in 0..Len(items)
    BY <1>1, <1>2
  <1>4. /\ items[n + 1] \in Seq(Nat) /\ Len(items[n + 1]) \in Nat
        /\ Len(Flat(items, n + 1)) = Len(Flat(items, n)) + Len(items[n + 1])
        /\ Len(Flat(items, n + 1)) <= Len(FlattenSeq(items))
        /\ \A i \in 1..Len(items[n + 1]) :
              FlattenSeq(items)[Len(Flat(items, n)) + i] = items[n + 1][i]
    BY <1>1, FlatPiece
  <1>5. Start(n + 1) = Len(Flat(items, n)) /\ Stop(k) = Len(Flat(items, k))
    BY <1>1, <1>3, StopIs
  <1>6. Len(Flat(items, n)) \in Nat
    BY <1>1, <1>3, FlatType
  <1>7. Stop(k) = Start(k) + Len(items[k]) /\ Start(k) \in Nat /\ Len(items[k]) \in Nat
    BY <1>3, <1>4, <1>5, <1>6
  <1>8. Stop(k) \in Nat
    BY <1>7
  <1> QED BY <1>3, <1>4, <1>5, <1>7, <1>8 DEF Wire

LEMMA Ordered ==
    ASSUME FramerType, NEW i \in 1..Len(items), NEW j \in 1..Len(items), i < j
    PROVE  Stop(i) <= Start(j) /\ (j = i + 1 => Stop(i) = Start(j))
  <1>1. /\ items \in Seq(Seq(Nat)) /\ Len(items) \in Nat /\ i \in Nat /\ j - 1 \in Nat
        /\ i \in 0..Len(items) /\ j - 1 \in i..Len(items) /\ (j - 1) + 1 = j
        /\ (j = i + 1 => j - 1 = i)
    BY LenProperties DEF FramerType
  <1>2. Stop(i) = Len(Flat(items, i)) /\ Start(j) = Len(Flat(items, j - 1))
    BY <1>1, StopIs
  <1>3. Len(Flat(items, i)) <= Len(Flat(items, j - 1))
    BY <1>1, FlatGrows
  <1> QED BY <1>1, <1>2, <1>3

\* Every byte of the stream belongs to something that was sent.
LEMMA Located ==
    ASSUME FramerType, NEW p \in Nat, p < Len(Wire)
    PROVE  \E k \in 1..Len(items) : Start(k) <= p /\ p < Stop(k)
  <1>1. Len(items) \in Nat /\ Len(Wire) \in Nat /\ Stop(Len(items)) = Len(Wire)
    BY LenProperties, TypeFacts, LastStop DEF FramerType
  <1>2. Len(items) # 0
    BY <1>1, FirstStop
  <1> DEFINE ends == {k \in 1..Len(items) : p < Stop(k)}
  <1>3. ends \subseteq Nat /\ ends # {}
    <2>1. Len(items) \in 1..Len(items)
      BY <1>1, <1>2
    <2>2. Len(items) \in ends
      BY <1>1, <2>1
    <2>3. \A k \in 1..Len(items) : k \in Nat
      BY <1>1
    <2> QED BY <2>2, <2>3
  <1>4. PICK k \in ends : \A j \in ends : k <= j
    <2> HIDE DEF ends
    <2> QED BY <1>3, Least
  <1>5. k \in 1..Len(items) /\ p < Stop(k) /\ k \in Nat
    BY <1>3, <1>4
  <1>6. CASE k = 1
    <2>1. Start(k) = 0
      BY <1>6, FirstStop, StopIs
    <2> QED BY <1>5, <2>1
  <1>7. CASE k # 1
    <2>1. k - 1 \in 1..Len(items) /\ k - 1 < k /\ (k - 1) + 1 = k
      BY <1>1, <1>5, <1>7
    <2>2. ~(p < Stop(k - 1))
      BY <1>4, <2>1
    <2>3. Stop(k - 1) = Start(k) /\ Stop(k - 1) \in Nat
      BY <1>5, <2>1, Ordered, Piece
    <2>4. Start(k) <= p
      BY <2>2, <2>3
    <2> QED BY <1>5, <2>4
  <1> QED BY <1>6, <1>7

\* The part of the buffer that a piece of the stream has reached.
LEMMA Shown ==
    ASSUME FramerType, NEW k \in 1..Len(items), NEW i \in 1..Len(items[k]),
           NEW g \in 1..Len(buffer), Passed + g = Start(k) + i
    PROVE  buffer[g] = items[k][i] /\ buffer[g] \in Nat
  <1>1. buffer[g] = Wire[Passed + g] /\ buffer[g] \in Nat
    BY ElementOfSeq DEF FramerType
  <1> QED BY <1>1, Piece

LEMMA SoundItem ==
    ASSUME FramerType, NEW k \in 1..Len(items), items[k] \in Messages
    PROVE  /\ WellFormed(items[k]) /\ Len(items[k]) \in Nat /\ Len(items[k]) >= MinFrame
           /\ items[k] \in Seq(Nat)
  BY Piece, MessagesAssumption DEF WellFormed

(***************************************************************************)
(* A frame at the head of the buffer, and the way to it                    *)
(***************************************************************************)
LEMMA SamePart ==
    ASSUME NEW b, NEW c, NEW p \in Nat \ {0}, NEW q \in Nat,
           \A i \in p..q : b[i] \in Nat /\ b[i] = c[i]
    PROVE  SubSeq(b, p, q) = SubSeq(c, p, q)
  <1>1. \A i \in p..q : c[i] \in Nat
    OBVIOUS
  <1>2. /\ SubSeq(b, p, q) \in Seq(Nat)
        /\ Len(SubSeq(b, p, q)) = IF p <= q THEN q - p + 1 ELSE 0
        /\ \A i \in 1..(q - p + 1) : SubSeq(b, p, q)[i] = b[p + i - 1]
    BY SubSeqProperties
  <1>3. /\ SubSeq(c, p, q) \in Seq(Nat)
        /\ Len(SubSeq(c, p, q)) = IF p <= q THEN q - p + 1 ELSE 0
        /\ \A i \in 1..(q - p + 1) : SubSeq(c, p, q)[i] = c[p + i - 1]
    BY <1>1, SubSeqProperties
  <1>4. \A i \in 1..Len(SubSeq(b, p, q)) : i \in 1..(q - p + 1) /\ p + i - 1 \in p..q
    BY <1>2
  <1>5. \A i \in 1..Len(SubSeq(b, p, q)) : SubSeq(b, p, q)[i] = SubSeq(c, p, q)[i]
    BY <1>2, <1>3, <1>4
  <1> QED BY <1>2, <1>3, <1>5, SeqEqual

LEMMA SameWindow ==
    ASSUME NEW b, NEW c, NEW g \in Nat \ {0}, NEW p \in Nat \ {0}, NEW n \in Nat \ {0},
           \A r \in 1..n : b[g + r - 1] \in Nat /\ b[g + r - 1] = c[p + r - 1]
    PROVE  SubSeq(b, g, g + n - 1) = SubSeq(c, p, p + n - 1)
  <1>1. ASSUME NEW s, NEW f \in Nat \ {0}, \A r \in 1..n : s[f + r - 1] \in Nat
        PROVE  /\ SubSeq(s, f, f + n - 1) \in Seq(Nat) /\ Len(SubSeq(s, f, f + n - 1)) = n
               /\ \A r \in 1..n : SubSeq(s, f, f + n - 1)[r] = s[f + r - 1]
    <2>1. f + n - 1 \in Nat /\ (f + n - 1) - f + 1 = n /\ f <= f + n - 1
      OBVIOUS
    <2>2. \A q \in f..(f + n - 1) : q - f + 1 \in 1..n /\ f + (q - f + 1) - 1 = q
      OBVIOUS
    <2>3. \A q \in f..(f + n - 1) : s[q] \in Nat
      BY <1>1, <2>2
    <2> QED BY <2>1, <2>3, SubSeqProperties
  <1>2. \A r \in 1..n : c[p + r - 1] \in Nat
    OBVIOUS
  <1>3. \A r \in 1..n : SubSeq(b, g, g + n - 1)[r] = SubSeq(c, p, p + n - 1)[r]
    <2> TAKE r \in 1..n
    <2>1. SubSeq(b, g, g + n - 1)[r] = b[g + r - 1]
      BY <1>1
    <2>2. SubSeq(c, p, p + n - 1)[r] = c[p + r - 1]
      BY <1>1, <1>2
    <2> QED BY <2>1, <2>2
  <1> QED BY <1>1, <1>2, <1>3, SeqEqual

\* The marker of a frame that is still to come is seen where it lies once it is in the buffer.
LEMMA MarkerShows ==
    ASSUME FramerType, NEW i \in 1..Len(items), items[i] \in Messages,
           NEW g \in Nat \ {0}, Passed + g = Start(i) + 1, g + Len(Marker) - 1 <= Len(buffer)
    PROVE  Matches(buffer, g) /\ g \in 1..(Len(buffer) - Len(Marker) + 1)
  <1>1. PICK P \in Nat, S \in Nat, B \in Nat, L \in Nat \ {0}, m \in Seq(Nat) :
           P = Passed /\ S = Start(i) /\ B = Len(buffer) /\ L = Len(Marker) /\ m = items[i]
    BY TypeFacts, Piece, SoundItem, Sizes
  <1>2. /\ Len(m) \in Nat /\ Len(m) >= MinFrame /\ L + 2 < MinFrame /\ MinFrame \in Nat
        /\ P + g = S + 1 /\ g + L - 1 <= B
    BY <1>1, SoundItem, Sizes
  <1>3. ASSUME NEW r \in 1..L
        PROVE  buffer[g + r - 1] \in Nat /\ buffer[g + r - 1] = m[1 + r - 1]
    <2>1. PICK h : h = g + r - 1
      OBVIOUS
    <2>2. h \in 1..B /\ r \in 1..Len(m) /\ P + h = S + r /\ 1 + r - 1 = r
      BY <1>2, <2>1
    <2>3. buffer[h] = m[r] /\ buffer[h] \in Nat
      BY <1>1, <2>2, Shown
    <2> QED BY <2>1, <2>2, <2>3
  <1>4. SubSeq(buffer, g, g + L - 1) = SubSeq(m, 1, 1 + L - 1)
    BY <1>3, SameWindow
  <1>5. SubSeq(m, 1, 1 + L - 1) = Marker
    <2>1. 1 + L - 1 = L
      OBVIOUS
    <2> QED BY <1>1, <2>1, SoundItem DEF WellFormed
  <1>6. g \in 1..(B - L + 1)
    BY <1>2
  <1> QED BY <1>1, <1>4, <1>5, <1>6 DEF Matches

\* The search for a marker does not run past a frame that is still to come.
LEMMA FoundBefore ==
    ASSUME FramerType, NEW i \in 1..Len(items), items[i] \in Messages,
           NEW from \in Nat \ {0}, Passed + from <= Start(i) + 1, Find(buffer, from) # 0
    PROVE  Find(buffer, from) \in Nat /\ Passed + Find(buffer, from) <= Start(i) + 1
  <1>1. /\ Len(buffer) \in Nat /\ Passed \in Nat /\ Start(i) \in Nat /\ Len(Marker) \in Nat \ {0}
        /\ buffer \in Seq(Nat)
    BY TypeFacts, Piece, Sizes DEF FramerType
  <1>2. PICK f : f = Find(buffer, from)
    OBVIOUS
  <1>3. /\ f \in from..(Len(buffer) - Len(Marker) + 1)
        /\ \A p \in from..(Len(buffer) - Len(Marker) + 1) : Matches(buffer, p) => f <= p
    BY <1>1, <1>2, FindIs
  <1>4. ASSUME ~(Passed + f <= Start(i) + 1) PROVE FALSE
    <2>1. PICK g \in Nat \ {0} : g = Start(i) + 1 - Passed
      BY <1>1
    <2>2. Passed + g = Start(i) + 1
      BY <1>1, <2>1
    <2>3. f \in Nat /\ f <= Len(buffer) - Len(Marker) + 1
      BY <1>1, <1>3
    <2>4. from <= g /\ g < f
      BY <1>1, <1>4, <2>2, <2>3
    <2>5. g + Len(Marker) - 1 <= Len(buffer)
      BY <1>1, <2>3, <2>4
    <2>6. Matches(buffer, g)
      BY <2>2, <2>5, MarkerShows
    <2>7. g \in from..(Len(buffer) - Len(Marker) + 1)
      BY <1>1, <2>4, <2>5
    <2>8. f <= g
      BY <1>3, <2>6, <2>7
    <2> QED BY <2>3, <2>4, <2>8
  <1> QED BY <1>1, <1>2, <1>3, <1>4

\* A marker that is dropped as implausible is not the beginning of a frame that overlaps it.
LEMMA DropsBefore ==
    ASSUME FramerType, NEW i \in 1..Len(items), items[i] \in Messages,
           Passed < Start(i), AtMarker, ~Truncated
    PROVE  Passed + Len(Marker) <= Start(i)
  <1>1. /\ Len(buffer) \in Nat /\ Passed \in Nat /\ Start(i) \in Nat /\ Len(Marker) \in Nat \ {0}
        /\ buffer \in Seq(Nat) /\ Len(buffer) >= MinFrame /\ MinFrame \in Nat
        /\ 2 * Len(Marker) <= MinFrame
    BY TypeFacts, Piece, Sizes, FramerAssumption DEF FramerType, AtMarker
  <1>2. ASSUME ~(Passed + Len(Marker) <= Start(i)) PROVE FALSE
    <2>1. PICK g \in Nat \ {0} : g = Start(i) + 1 - Passed
      BY <1>1
    <2>2. Passed + g = Start(i) + 1
      BY <1>1, <2>1
    <2>3. 2 <= g /\ g <= Len(Marker)
      <3>1. PICK P \in Nat, S \in Nat, L \in Nat : P = Passed /\ S = Start(i) /\ L = Len(Marker)
        BY <1>1
      <3>2. P < S /\ ~(P + L <= S) /\ P + g = S + 1
        BY <1>2, <2>2, <3>1
      <3>3. 2 <= g /\ g <= L
        BY <3>2
      <3> QED BY <3>1, <3>3
    <2>4. g + Len(Marker) - 1 <= Len(buffer) /\ g <= MinFrame
      BY <1>1, <2>3
    <2>5. Matches(buffer, g)
      BY <2>2, <2>4, MarkerShows
    <2>6. g \in 2..(Len(buffer) - Len(Marker) + 1)
      BY <1>1, <2>3, <2>4
    <2>7. PICK f : f = Find(buffer, 2)
      OBVIOUS
    <2>8. f \in 2..(Len(buffer) - Len(Marker) + 1) /\ f <= g
      <3>1. \/ f = 0 /\ \A p \in 2..(Len(buffer) - Len(Marker) + 1) : ~Matches(buffer, p)
            \/ /\ f \in 2..(Len(buffer) - Len(Marker) + 1)
               /\ \A p \in 2..(Len(buffer) - Len(Marker) + 1) : Matches(buffer, p) => f <= p
        BY SMTT(30), <1>1, <2>7, FindIs
      <3> QED BY <2>5, <2>6, <3>1
    <2>9. f \in 2..MinFrame
      BY <1>1, <2>4, <2>8
    <2> QED BY <2>7, <2>9 DEF Truncated, NextMarker
  <1> QED BY <1>2

\* With a frame at its head the buffer tells the frame's length and then holds the frame.
LEMMA HeadIs ==
    ASSUME FramerType, NEW k \in 1..Len(items), items[k] \in Messages, Passed = Start(k),
           Len(buffer) >= MinFrame
    PROVE  /\ Find(buffer, 1) = 1 /\ SaneHeader
           /\ FrameLength(buffer) = Len(items[k])
           /\ Len(buffer) >= Len(items[k]) => SubSeq(buffer, 1, Len(items[k])) = items[k]
           /\ FramesAreUnmistakable => ~Truncated
  <1>1. PICK m \in Seq(Nat), L \in Nat \ {0} : m = items[k] /\ L = Len(Marker)
    BY SoundItem, Sizes
  <1>2. /\ Len(buffer) \in Nat /\ buffer \in Seq(Nat) /\ Passed \in Nat
        /\ Len(m) \in Nat /\ Len(m) >= MinFrame /\ MinFrame \in Nat /\ L + 2 < MinFrame
        /\ WellFormed(m)
    BY <1>1, TypeFacts, SoundItem, Sizes DEF FramerType
  <1>3. ASSUME NEW q \in 1..Len(buffer), q <= Len(m) PROVE buffer[q] = m[q] /\ buffer[q] \in Nat
    <2>1. q \in 1..Len(m) /\ Passed + q = Start(k) + q
      BY <1>2, <1>3
    <2> QED BY <1>1, <2>1, Shown
  <1>4. Find(buffer, 1) = 1
    <2>1. Passed + 1 = Start(k) + 1 /\ 1 + L - 1 <= Len(buffer)
      BY <1>2
    <2>2. Matches(buffer, 1) /\ 1 \in 1..(Len(buffer) - Len(Marker) + 1)
      BY <1>1, <2>1, MarkerShows
    <2>3. PICK f : f = Find(buffer, 1)
      OBVIOUS
    <2>4. f \in 1..(Len(buffer) - Len(Marker) + 1) /\ f <= 1
      <3>1. \/ f = 0 /\ \A p \in 1..(Len(buffer) - Len(Marker) + 1) : ~Matches(buffer, p)
            \/ /\ f \in 1..(Len(buffer) - Len(Marker) + 1)
               /\ \A p \in 1..(Len(buffer) - Len(Marker) + 1) : Matches(buffer, p) => f <= p
        BY SMTT(30), <1>2, <2>3, FindIs
      <3> QED BY <2>2, <3>1
    <2> QED BY <2>3, <2>4
  <1>5. LengthOf(buffer) = LengthOf(m) /\ FunctionOf(buffer) = FunctionOf(m)
    <2>1. /\ L + 1 \in 1..Len(buffer) /\ L + 1 <= Len(m)
          /\ L + 2 \in 1..Len(buffer) /\ L + 2 <= Len(m)
      BY <1>2
    <2> QED BY <1>1, <1>3, <2>1 DEF LengthOf, FunctionOf
  <1>6. SaneHeader
    BY <1>2, <1>5 DEF SaneHeader, WellFormed
  <1>7. FrameLength(buffer) = Len(m)
    <2>1. LengthOf(m) = Len(m) - L - 1
      BY <1>1, <1>2 DEF WellFormed
    <2>2. FrameLength(buffer) = L + 1 + (Len(m) - L - 1)
      BY <1>1, <1>5, <2>1 DEF FrameLength
    <2> QED BY <1>2, <2>2
  <1>8. ASSUME Len(buffer) >= Len(m) PROVE SubSeq(buffer, 1, Len(m)) = m
    <2>1. \A q \in 1..Len(m) : buffer[q] \in Nat /\ buffer[q] = m[q]
      <3>1. \A q \in 1..Len(m) : q \in 1..Len(buffer) /\ q <= Len(m)
        BY <1>2, <1>8
      <3> QED BY <1>3, <3>1
    <2>2. SubSeq(buffer, 1, Len(m)) = SubSeq(m, 1, Len(m))
      BY <1>2, <2>1, SamePart
    <2> QED BY <1>1, <2>2, SubSeqFull
  <1>9. ASSUME FramesAreUnmistakable, Truncated PROVE FALSE
    <2>1. PICK p : p = Find(buffer, 2)
      OBVIOUS
    <2>2. p \in 2..MinFrame
      BY <1>9, <2>1 DEF Truncated, NextMarker
    <2>3. p \in 2..(Len(buffer) - L + 1) /\ SubSeq(buffer, p, p + L - 1) = Marker
      <3>1. p # 0
        BY <1>2, <2>2
      <3>2. p \in 2..(Len(buffer) - Len(Marker) + 1) /\ Matches(buffer, p)
        BY <1>2, <2>1, <3>1, FindIs
      <3> QED BY <1>1, <3>2 DEF Matches
    <2>4. PICK q \in p..(p + L - 1) : q <= Len(m) /\ m[q] # Marker[q - p + 1]
      BY <1>1, <1>9, <2>2 DEF FramesAreUnmistakable
    <2>5. /\ p \in Nat \ {0} /\ p + L - 1 \in Nat /\ (p + L - 1) - p + 1 = L
          /\ q - p + 1 \in 1..L /\ p + (q - p + 1) - 1 = q /\ q \in 1..Len(buffer)
          /\ \A r \in p..(p + L - 1) : r \in 1..Len(buffer)
      <3>1. p \in Nat /\ 2 <= p /\ p + L - 1 <= Len(buffer)
        BY <1>2, <2>3
      <3>2. p \in Nat \ {0} /\ p + L - 1 \in Nat /\ (p + L - 1) - p + 1 = L
        BY <3>1
      <3>3. q - p + 1 \in 1..L /\ p + (q - p + 1) - 1 = q
        BY <3>1
      <3>4. \A r \in p..(p + L - 1) : r \in 1..Len(buffer)
        BY <1>2, <3>1
      <3> QED BY <3>2, <3>3, <3>4
    <2>6. \A r \in p..(p + L - 1) : buffer[r] \in Nat
      BY <1>2, <2>5, ElementOfSeq
    <2>7. \A r \in 1..L : SubSeq(buffer, p, p + L - 1)[r] = buffer[p + r - 1]
      BY <2>5, <2>6, SubSeqProperties
    <2>8. Marker[q - p + 1] = buffer[q]
      BY <2>3, <2>5, <2>7
    <2> QED BY <1>3, <2>4, <2>5, <2>8
  <1> QED BY <1>1, <1>4, <1>6, <1>7, <1>8, <1>9

(***************************************************************************)
(* Without a fault                                                         *)
(***************************************************************************)
\* The frame that follows the first k, and where it lies in the stream.
LEMMA NextFrame ==
    ASSUME FramerType, Clean, NEW k \in 0..(Len(items) - 1)
    PROVE  /\ items[k + 1] \in Messages /\ items[k + 1] \in Seq(Nat) /\ WellFormed(items[k + 1])
           /\ Len(items[k + 1]) \in Nat /\ Len(items[k + 1]) >= MinFrame
           /\ Stop(k) \in Nat /\ Stop(k + 1) = Stop(k) + Len(items[k + 1]) /\ Stop(k + 1) <= Len(Wire)
           /\ \A i \in 1..Len(items[k + 1]) : Wire[Stop(k) + i] = items[k + 1][i]
  <1>1. /\ items \in Seq(Seq(Nat)) /\ Len(items) \in Nat /\ k \in Nat /\ k + 1 \in Nat
        /\ k \in 0..Len(items) /\ k + 1 \in DOMAIN items
    <2>1. items \in Seq(Seq(Nat)) /\ Len(items) \in Nat /\ DOMAIN items = 1..Len(items)
      BY LenProperties DEF FramerType
    <2>2. k \in Nat /\ k + 1 \in Nat /\ k \in 0..Len(items) /\ k + 1 \in 1..Len(items)
      BY <2>1
    <2> QED BY <2>1, <2>2
  <1>2. items[k + 1] \in Messages
    BY <1>1 DEF Clean
  <1>3. WellFormed(items[k + 1])
    BY <1>2, MessagesAssumption
  <1>4. Len(items[k + 1]) >= MinFrame
    BY <1>3 DEF WellFormed
  <1>5. Stop(k) = Len(Flat(items, k)) /\ Stop(k + 1) = Len(Flat(items, k + 1))
    BY <1>1, StopIs
  <1>6. Stop(k) \in Nat
    BY <1>1, <1>5, FlatType
  <1>7. /\ items[k + 1] \in Seq(Nat) /\ Len(items[k + 1]) \in Nat
        /\ Stop(k + 1) = Stop(k) + Len(items[k + 1]) /\ Stop(k + 1) <= Len(Wire)
        /\ \A i \in 1..Len(items[k + 1]) : Wire[Stop(k) + i] = items[k + 1][i]
    BY ZenonT(30), <1>1, <1>5, FlatPiece DEF Wire
  <1> QED BY <1>2, <1>3, <1>4, <1>6, <1>7

\* Frames lie in the stream in the order they are sent.
LEMMA StopsGrow ==
    ASSUME FramerType, Clean, NEW i \in 0..Len(items), NEW j \in 0..Len(items), i < j
    PROVE  Stop(i) \in Nat /\ Stop(j) \in Nat /\ Stop(i) < Stop(j)
  <1>1. /\ items \in Seq(Seq(Nat)) /\ Len(items) \in Nat /\ i \in Nat /\ j \in Nat /\ i + 1 \in Nat
        /\ i \in 0..(Len(items) - 1) /\ i + 1 \in 0..Len(items) /\ j \in (i + 1)..Len(items)
    BY LenProperties DEF FramerType
  <1>2. /\ Stop(i) \in Nat /\ Stop(i + 1) = Stop(i) + Len(items[i + 1])
        /\ Len(items[i + 1]) \in Nat /\ Len(items[i + 1]) >= MinFrame
    BY <1>1, NextFrame
  <1>3. Stop(j) = Len(Flat(items, j)) /\ Stop(i + 1) = Len(Flat(items, i + 1))
    BY <1>1, StopIs
  <1>4. Stop(j) \in Nat /\ Stop(i + 1) <= Stop(j)
    BY <1>1, <1>3, FlatType, FlatGrows
  <1> QED BY <1>2, <1>4, Sizes

\* Once the first k frames are passed, the buffer begins like the next and the one after it.
LEMMA Window ==
    ASSUME FramerType, Clean, NEW k \in 0..(Len(items) - 1), Passed = Stop(k)
    PROVE  \E n \in Messages :
              /\ n \in Seq(Nat) /\ Len(n) \in Nat /\ Len(n) >= MinFrame
              /\ \A i \in 1..Len(buffer) :
                    i <= Len(items[k + 1]) + Len(n) => buffer[i] = (items[k + 1] \o n)[i]
  <1> DEFINE m == items[k + 1]
  <1>1. /\ Len(buffer) \in Nat /\ taken = Passed + Len(buffer) /\ taken <= Len(Wire)
        /\ Len(items) \in Nat /\ k \in Nat
        /\ \A i \in 1..Len(buffer) : buffer[i] = Wire[Stop(k) + i]
    BY TypeFacts, LenProperties DEF FramerType
  <1>2. /\ m \in Messages /\ m \in Seq(Nat) /\ Len(m) \in Nat /\ Len(m) >= MinFrame
        /\ Stop(k) \in Nat /\ Stop(k + 1) = Stop(k) + Len(m)
        /\ \A i \in 1..Len(m) : Wire[Stop(k) + i] = m[i]
    BY NextFrame
  <1>3. CASE k + 1 = Len(items)
    <2>1. Len(buffer) <= Len(m)
      BY <1>1, <1>2, <1>3, LastStop
    <2> HIDE DEF m
    <2>2. \A i \in 1..Len(buffer) : i \in 1..Len(m) /\ i \in 1..(Len(m) + Len(m)) /\ i <= Len(m)
      BY SMTT(30), <1>1, <1>2, <2>1
    <2>3. \A i \in 1..Len(buffer) : buffer[i] = (m \o m)[i]
      BY <1>1, <1>2, <2>2, ConcatProperties
    <2> QED BY <1>2, <2>3 DEF m
  <1>4. CASE k + 1 # Len(items)
    <2> DEFINE n == items[(k + 1) + 1]
    <2>1. k + 1 \in 0..(Len(items) - 1)
      BY <1>1, <1>4
    <2>2. /\ n \in Messages /\ n \in Seq(Nat) /\ Len(n) \in Nat /\ Len(n) >= MinFrame
          /\ \A i \in 1..Len(n) : Wire[Stop(k + 1) + i] = n[i]
      BY <2>1, NextFrame
    <2> HIDE DEF m, n
    <2>3. ASSUME NEW i \in 1..Len(buffer), i <= Len(m) + Len(n)
          PROVE  buffer[i] = (m \o n)[i]
      <3>1. i \in 1..(Len(m) + Len(n))
        BY <1>1, <1>2, <2>2, <2>3
      <3>2. (m \o n)[i] = IF i <= Len(m) THEN m[i] ELSE n[i - Len(m)]
        BY <1>2, <2>2, <3>1, ConcatProperties
      <3>3. CASE i <= Len(m)
        <4>1. i \in 1..Len(m)
          BY <3>1, <3>3
        <4> QED BY <1>1, <1>2, <3>2, <3>3, <4>1
      <3>4. CASE ~(i <= Len(m))
        <4>1. i - Len(m) \in 1..Len(n) /\ Stop(k) + i = Stop(k + 1) + (i - Len(m))
          BY <1>2, <2>2, <3>1, <3>4
        <4> QED BY <1>1, <2>2, <3>2, <3>4, <4>1
      <3> QED BY <3>3, <3>4
    <2> QED BY <2>2, <2>3 DEF m
  <1> QED BY <1>3, <1>4

\* With a sound frame at its head no pass finds fault with the buffer.
LEMMA SoundHead ==
    ASSUME FramerType, Clean, NEW k \in 0..(Len(items) - 1), Passed = Stop(k),
           Len(buffer) >= MinFrame
    PROVE  /\ Find(buffer, 1) = 1 /\ ~Truncated /\ SaneHeader
           /\ FrameLength(buffer) = Len(items[k + 1])
           /\ Len(buffer) >= Len(items[k + 1]) =>
                 SubSeq(buffer, 1, Len(items[k + 1])) = items[k + 1]
  <1>1. PICK m \in Messages, L \in Nat \ {0} : m = items[k + 1] /\ L = Len(Marker)
    BY NextFrame, Sizes
  <1>2. PICK n \in Messages :
           /\ n \in Seq(Nat) /\ Len(n) \in Nat /\ Len(n) >= MinFrame
           /\ \A i \in 1..Len(buffer) : i <= Len(m) + Len(n) => buffer[i] = (m \o n)[i]
    BY <1>1, Window
  <1>3. /\ Len(buffer) \in Nat /\ \A i \in 1..Len(buffer) : buffer[i] \in Nat
        /\ buffer \in Seq(Nat) /\ MinFrame \in Nat /\ L + 2 < MinFrame
        /\ WellFormed(m) /\ Len(m) \in Nat /\ Len(m) >= MinFrame
    BY <1>1, NextFrame, TypeFacts, ElementOfSeq, Sizes DEF FramerType
  <1>4. k + 1 \in 1..Len(items) /\ Passed = Start(k + 1)
    BY StopIs, LenProperties DEF FramerType
  <1>5. ~Truncated
    <2> SUFFICES ASSUME Truncated PROVE FALSE
      OBVIOUS
    <2>1. PICK p : p = Find(buffer, 2) /\ p \in 2..MinFrame
      BY DEF Truncated, NextMarker
    <2>2. p \in Nat \ {0} /\ p # 0 /\ p <= MinFrame /\ p + L - 1 \in Nat
      BY <1>3, <2>1
    <2>3. p \in 2..(Len(buffer) - L + 1) /\ SubSeq(buffer, p, p + L - 1) = Marker
      <3>1. p \in 2..(Len(buffer) - Len(Marker) + 1) /\ Matches(buffer, p)
        BY <1>3, <2>1, <2>2, FindIs
      <3> QED BY <1>1, <3>1 DEF Matches
    <2>4. p + L - 1 <= Len(buffer) /\ p + L - 1 <= Len(m) + Len(n)
      <3>1. p + L - 1 <= Len(buffer)
        BY <1>3, <2>3
      <3>2. p + L - 1 <= Len(m) + Len(n)
        BY <1>2, <1>3, <2>2
      <3> QED BY <3>1, <3>2
    <2>5. \A i \in p..(p + L - 1) : i \in 1..Len(buffer) /\ i <= Len(m) + Len(n)
      <3>1. PICK q \in Nat, B \in Nat, N \in Nat :
               q = p + L - 1 /\ B = Len(buffer) /\ N = Len(m) + Len(n) /\ q <= B /\ q <= N
        <4>1. Len(buffer) \in Nat
          BY <1>3, LenProperties
        <4>2. Len(m) + Len(n) \in Nat
          BY <1>2, <1>3
        <4> QED BY <2>2, <2>4, <4>1, <4>2
      <3>2. \A i \in p..q : i \in 1..B /\ i <= N
        BY <2>2, <3>1
      <3> QED BY <3>1, <3>2
    <2>6. \A i \in p..(p + L - 1) : buffer[i] \in Nat /\ buffer[i] = (m \o n)[i]
      BY <1>2, <1>3, <2>5
    <2>7. SubSeq(m \o n, p, p + L - 1) = Marker
      BY <2>2, <2>3, <2>6, SamePart
    <2> QED BY <1>1, <1>2, <1>3, <2>1, <2>7 DEF WellFormed
  <1> QED BY <1>1, <1>4, <1>5, HeadIs

Yielded(k) == {[at |-> Start(i), frame |-> items[i], result |-> "message"] : i \in 1..k}

\* The first k frames were passed and yielded; nothing else was.
After(k) ==
    /\ Passed = Stop(k) /\ out = Yielded(k)
    /\ phase = "reading" => k = Len(items) \/ taken < Stop(k + 1)

CleanInv == Clean => phase # "dead" /\ \E k \in 0..Len(items) : After(k)

LEMMA InitClean == Init => CleanInv
  <1> SUFFICES ASSUME Init, Clean PROVE phase # "dead" /\ \E k \in 0..Len(items) : After(k)
    BY DEF CleanInv
  <1>1. FramerType
    BY InitType
  <1>2. Passed = 0 /\ Len(items) \in Nat /\ taken = 0 /\ 0 \in 0..Len(items)
    <2>1. Len(buffer) = 0 /\ taken = 0
      BY EmptySeq DEF Init
    <2> QED BY <1>1, <2>1, LenProperties DEF FramerType, Passed
  <1>3. out = Yielded(0)
    BY DEF Init, Yielded
  <1>4. 0 # Len(items) => taken < Stop(0 + 1)
    <2> SUFFICES ASSUME 0 # Len(items) PROVE taken < Stop(1)
      OBVIOUS
    <2>1. 0 \in 0..Len(items) /\ 1 \in 0..Len(items) /\ 0 < 1
      BY <1>2
    <2> QED BY <1>1, <1>2, <2>1, StopsGrow, FirstStop
  <1>5. After(0)
    BY <1>2, <1>3, <1>4, FirstStop DEF After
  <1> QED BY <1>2, <1>5 DEF Init

LEMMA StepClean == FramerType /\ CleanInv /\ [Next]_vars => CleanInv'
  <1> SUFFICES ASSUME FramerType, CleanInv, [Next]_vars, Clean'
               PROVE  phase' # "dead" /\ (\E k \in 0..Len(items) : After(k))'
    BY DEF CleanInv
  <1>1. items' = items
    BY DEF Next, vars, DecodeStep, TooShort, NoMarker, DiscardGarbage, SkipTruncated, DropHeader,
           Incomplete, Extract, Receive, Skip, Await
  <1>2. Clean
    BY <1>1 DEF Clean
  <1>3. PICK k \in 0..Len(items) : After(k)
    BY <1>2 DEF CleanInv
  <1>4. phase # "dead" /\ Len(items) \in Nat /\ k \in Nat
    BY <1>2, LenProperties DEF CleanInv, FramerType
  <1>5. \A j : Stop(j)' = Stop(j) /\ Yielded(j)' = Yielded(j)
    BY <1>1 DEF Stop, Start, Yielded
  <1>6. /\ Len(buffer) \in Nat /\ taken = Passed + Len(buffer) /\ taken <= Len(Wire)
        /\ Passed \in Nat /\ taken \in Nat
    BY TypeFacts DEF FramerType
  <1>7. k = Len(items) => Len(buffer) = 0
    BY <1>3, <1>6, LastStop DEF After
  <1>8. ASSUME Len(buffer) >= MinFrame
        PROVE  /\ Find(buffer, 1) = 1 /\ ~Truncated /\ SaneHeader
               /\ k \in 0..(Len(items) - 1) /\ FrameLength(buffer) = Len(items[k + 1])
               /\ Len(buffer) >= Len(items[k + 1]) => SubSeq(buffer, 1, Len(items[k + 1])) = items[k + 1]
    <2>1. k \in 0..(Len(items) - 1)
      BY <1>4, <1>6, <1>7, <1>8, Sizes
    <2> QED BY <1>2, <1>3, <1>8, <2>1, SoundHead DEF After
  <1>9. ASSUME Await, k # Len(items) => taken < Stop(k + 1)
        PROVE  phase' # "dead" /\ (\E j \in 0..Len(items) : After(j))'
    <2>1. After(k)'
      BY <1>1, <1>3, <1>5, <1>9 DEF Await, After, Passed
    <2> QED BY <1>1, <1>9, <2>1 DEF Await
  <1>10. CASE TooShort
    <2>1. ASSUME k # Len(items) PROVE taken < Stop(k + 1)
      <3>1. k \in 0..(Len(items) - 1)
        BY <1>4, <2>1
      <3>2. /\ Stop(k + 1) = Stop(k) + Len(items[k + 1]) /\ Len(items[k + 1]) >= MinFrame
            /\ Len(items[k + 1]) \in Nat /\ Stop(k) \in Nat
        BY <1>2, <3>1, NextFrame
      <3>3. Len(buffer) < MinFrame /\ Passed = Stop(k)
        BY <1>3, <1>10 DEF TooShort, After
      <3> QED BY SMTT(30), <1>6, <3>2, <3>3, Sizes
    <2> QED BY <1>9, <1>10, <2>1 DEF TooShort
  <1>11. CASE NoMarker \/ DiscardGarbage
    BY <1>8, <1>11 DEF NoMarker, DiscardGarbage
  <1>12. CASE SkipTruncated \/ DropHeader
    BY <1>8, <1>12 DEF SkipTruncated, DropHeader, AtMarker
  <1>13. CASE Incomplete
    <2>1. Len(buffer) >= MinFrame /\ Len(buffer) < FrameLength(buffer) /\ Await
      BY <1>13 DEF Incomplete, AtMarker
    <2>2. k \in 0..(Len(items) - 1) /\ FrameLength(buffer) = Len(items[k + 1])
      BY <1>8, <2>1
    <2>3. /\ Stop(k + 1) = Stop(k) + Len(items[k + 1])
          /\ Len(items[k + 1]) \in Nat /\ Stop(k) \in Nat
      BY <1>2, <2>2, NextFrame
    <2>4. taken < Stop(k + 1)
      BY <1>3, <1>6, <2>1, <2>2, <2>3 DEF After
    <2> QED BY <1>9, <2>1, <2>4
  <1>14. CASE Extract
    <2> DEFINE m == items[k + 1]
    <2>1. /\ Len(buffer) >= MinFrame /\ Len(buffer) >= FrameLength(buffer)
          /\ FrameLength(buffer) \in 1..Len(buffer)
      BY <1>14, ExtractStep DEF Extract, AtMarker
    <2>2. /\ k \in 0..(Len(items) - 1) /\ FrameLength(buffer) = Len(m)
          /\ SubSeq(buffer, 1, FrameLength(buffer)) = m
      BY <1>8, <2>1
    <2>3. WellFormed(m) /\ Stop(k + 1) = Stop(k) + Len(m) /\ Len(m) \in Nat /\ Stop(k) \in Nat
      BY <1>2, <2>2, NextFrame
    <2>4. DecodeBytes(SubSeq(buffer, 1, FrameLength(buffer))) = "message"
      BY <2>2, <2>3 DEF WellFormed
    <2>5. /\ phase' = "decoding"
          /\ out' = out \cup {[at |-> Passed, frame |-> m, result |-> "message"]}
      BY <1>14, <2>2, <2>4 DEF Extract
    <2>6. Passed' = Passed + Len(m)
      <3>1. /\ FrameLength(buffer) \in 0..Len(buffer) /\ UNCHANGED <<items, taken>>
            /\ buffer' = SubSeq(buffer, FrameLength(buffer) + 1, Len(buffer))
        BY <1>14, <2>1, ExtractStep
      <3>2. Passed' = Passed + FrameLength(buffer)
        BY <3>1, Advance
      <3> QED BY <2>2, <3>2
    <2>7. k + 1 \in 0..Len(items) /\ Start(k + 1) = Passed /\ Passed = Stop(k)
      BY <1>3, <1>4, <2>2, StopIs DEF After
    <2>8. Yielded(k + 1) = Yielded(k) \cup {[at |-> Start(k + 1), frame |-> m, result |-> "message"]}
      <3>1. 1..(k + 1) = (1..k) \cup {k + 1}
        BY <1>4
      <3> QED BY <3>1 DEF Yielded
    <2>9. out' = Yielded(k + 1)
      BY <1>3, <2>5, <2>7, <2>8 DEF After
    <2> HIDE DEF m
    <2>10. After(k + 1)'
      BY <1>5, <2>3, <2>5, <2>6, <2>7, <2>9 DEF After
    <2> QED BY <1>1, <2>5, <2>7, <2>10
  <1>15. CASE \E n \in 1..ReadMax : Receive(n)
    <2>1. Passed' = Passed /\ out' = out /\ phase' = "decoding"
      BY <1>15, ReceiveKeepsType DEF Receive
    <2>2. After(k)'
      BY <1>3, <1>5, <2>1 DEF After
    <2> QED BY <1>1, <2>1, <2>2
  <1>16. CASE UNCHANGED vars
    <2>1. After(k)'
      BY <1>1, <1>3, <1>5, <1>16 DEF vars, After, Passed
    <2> QED BY <1>1, <1>4, <1>16, <2>1 DEF vars
  <1> QED BY <1>10, <1>11, <1>12, <1>13, <1>14, <1>15, <1>16 DEF Next, DecodeStep

LEMMA CleanImplied == ASSUME FramerType, CleanInv PROVE CleanStreamIsDelivered
  <1> SUFFICES ASSUME Clean
               PROVE  /\ phase # "dead"
                      /\ \A i \in DOMAIN items : Delivered(i) <=> Stop(i) <= Passed
                      /\ \A f \in out : \E i \in DOMAIN items : f.at = Start(i) /\ f.frame = items[i]
                      /\ phase = "reading" => \A i \in DOMAIN items : Stop(i) <= taken => Delivered(i)
    BY DEF CleanStreamIsDelivered
  <1>1. PICK k \in 0..Len(items) : After(k)
    BY DEF CleanInv
  <1>2. Len(items) \in Nat /\ k \in Nat /\ DOMAIN items = 1..Len(items)
    BY LenProperties DEF FramerType
  <1>3. /\ out = Yielded(k) /\ Passed = Stop(k) /\ Passed \in Nat /\ taken \in Nat
        /\ phase = "reading" => k = Len(items) \/ taken < Stop(k + 1)
    BY <1>1, TypeFacts DEF After
  <1>4. ASSUME NEW i \in DOMAIN items, i <= k
        PROVE  Delivered(i) /\ Stop(i) <= Passed
    <2>1. i \in 1..k
      BY <1>2, <1>4
    <2>2. Delivered(i)
      BY <1>3, <2>1 DEF Delivered, Yielded
    <2>3. i = k \/ (Stop(i) \in Nat /\ Stop(i) < Stop(k))
      BY <1>2, <1>4, StopsGrow
    <2> QED BY <1>3, <2>2, <2>3
  <1>2a. k < Len(items) => k # Len(items) /\ k + 1 \in 0..Len(items)
    <2>1. Len(items) \in Nat /\ k \in Nat
      BY <1>2
    <2> QED BY <2>1
  <1>5. ASSUME NEW i \in DOMAIN items, ~(i <= k)
        PROVE  /\ ~Delivered(i) /\ ~(Stop(i) <= Passed)
               /\ phase = "reading" => ~(Stop(i) <= taken)
    <2>1. i \in 0..Len(items) /\ k < i /\ i \in Nat /\ i # 0 /\ k < Len(items)
      BY <1>2, <1>5
    <2>2. Stop(k) < Stop(i) /\ Stop(i) \in Nat /\ Stop(k) \in Nat
      BY <2>1, StopsGrow
    <2>3. ASSUME Delivered(i) PROVE FALSE
      <3>1. PICK j \in 1..k : Start(i) = Start(j)
        BY <1>3, <2>3 DEF Delivered, Yielded
      <3>2. /\ i - 1 \in 0..Len(items) /\ j - 1 \in 0..Len(items) /\ j - 1 < i - 1
            /\ i - 1 \in Nat /\ j - 1 \in Nat /\ (i - 1) + 1 = i /\ (j - 1) + 1 = j
        BY <1>2, <2>1
      <3>3. Start(i) = Stop(i - 1) /\ Start(j) = Stop(j - 1)
        BY DEF Start, Stop
      <3>4. Start(j) < Start(i) /\ Start(j) \in Nat /\ Start(i) \in Nat
        BY <3>2, <3>3, StopsGrow
      <3> QED BY <3>1, <3>4
    <2>4. ASSUME phase = "reading" PROVE ~(Stop(i) <= taken)
      <3>0. k # Len(items) /\ k + 1 \in 0..Len(items)
        BY <1>2a, <2>1
      <3>1. taken < Stop(k + 1) /\ k + 1 \in 0..Len(items)
        BY <1>3, <2>4, <3>0
      <3>2. k + 1 = i \/ (Stop(k + 1) \in Nat /\ Stop(k + 1) < Stop(i))
        BY <1>2, <2>1, <3>1, StopsGrow
      <3> QED BY <1>3, <2>2, <3>1, <3>2
    <2> QED BY <1>3, <2>2, <2>3, <2>4
  <1>6. \A f \in out : \E i \in DOMAIN items : f.at = Start(i) /\ f.frame = items[i]
    <2>1. \A i \in 1..k : i \in DOMAIN items
      BY <1>2
    <2> QED BY <1>3, <2>1 DEF Yielded
  <1>7. phase # "dead"
    BY DEF CleanInv
  <1> QED BY <1>4, <1>5, <1>6, <1>7

\* A stream without a fault is yielded frame by frame: each once, whole, and by the time the
\* pass that follows its last byte awaits more, for every cut of the stream into reads, every
\* length of it and every set of sound messages (framer.py: Framer.decode).
THEOREM CleanDelivery == Spec => []CleanStreamIsDelivered
  <1>1. Spec => [](FramerType /\ CleanInv)
    BY InitType, StepType, InitClean, StepClean, PTL DEF Spec
  <1> QED BY <1>1, CleanImplied, PTL

(***************************************************************************)
(* After a fault                                                           *)
(***************************************************************************)
Sent == items \in Streams

LEMMA SentItems ==
    ASSUME Sent, NEW k \in 1..Len(items)
    PROVE  items[k] \in Messages \cup Faults
  BY StreamsType, ElementOfSeq DEF Sent

\* The header that decode believes is found where it lies in what was sent.
LEMMA HeaderSeen ==
    ASSUME FramerType, NEW k \in 1..Len(items), NEW m \in Messages,
           k = Len(items) \/ m = items[k + 1],
           Start(k) <= Passed, Passed < Stop(k), AtMarker, SaneHeader
    PROVE  HeaderAt(items[k] \o m, Passed - Start(k) + 1)
  <1>1. PICK P \in Nat, S \in Nat, B \in Nat, L \in Nat \ {0}, M \in Nat, x \in Seq(Nat) :
           /\ P = Passed /\ S = Start(k) /\ B = Len(buffer) /\ L = Len(Marker) /\ M = MinFrame
           /\ x = items[k]
    BY TypeFacts, Piece, Sizes
  <1>2. PICK X \in Nat, N \in Nat : X = Len(x) /\ N = Len(m)
    BY <1>1, FramerAssumption, LenProperties
  <1>3. PICK p \in Nat \ {0} : p = P - S + 1
    BY <1>1
  <1>4. P = S + p - 1 /\ p <= X /\ L + 2 < M /\ M <= B /\ M <= N
    <2>1. Stop(k) = S + X
      BY <1>1, <1>2, Piece
    <2>2. P < S + X
      BY <1>1, <2>1
    <2>3. M <= N
      BY <1>1, <1>2, MessagesAssumption DEF WellFormed
    <2>4. L + 2 < M /\ M <= B
      BY <1>1, Sizes DEF AtMarker
    <2>5. P = S + p - 1 /\ p <= X
      BY <1>3, <2>2
    <2> QED BY <2>3, <2>4, <2>5
  <1>5. m \in Seq(Nat) /\ buffer \in Seq(Nat)
    BY FramerAssumption DEF FramerType
  <1>6. PICK c : c = x \o m
    OBVIOUS
  <1>7. Len(c) = X + N /\ \A q \in 1..(X + N) : c[q] = IF q <= X THEN x[q] ELSE m[q - X]
    BY <1>2, <1>5, <1>6, ConcatProperties
  <1>8. ASSUME NEW r \in 1..(L + 2)
        PROVE  buffer[r] \in Nat /\ buffer[r] = c[p + r - 1]
    <2>1. PICK q \in Nat : q = p + r - 1
      OBVIOUS
    <2>2. r \in 1..B /\ q \in 1..(X + N) /\ P + r = S + q
      BY <1>4, <2>1
    <2>3. CASE q <= X
      <3>1. q \in 1..X
        BY <2>2, <2>3
      <3>2. buffer[r] = x[q] /\ buffer[r] \in Nat
        BY <1>1, <1>2, <2>2, <3>1, Shown
      <3> QED BY <1>7, <2>1, <2>2, <2>3, <3>2
    <2>4. CASE ~(q <= X)
      <3>1. k # Len(items)
        <4> SUFFICES ASSUME k = Len(items) PROVE FALSE
          OBVIOUS
        <4>1. Len(Wire) = S + X /\ taken <= Len(Wire) /\ taken = P + B
          BY <1>1, <1>2, Piece, LastStop, TypeFacts DEF FramerType
        <4>2. P + r <= S + X
          BY <2>2, <4>1
        <4> QED BY <2>2, <2>4, <4>2
      <3>2. k + 1 \in 1..Len(items) /\ k < k + 1
        BY <3>1, LenProperties DEF FramerType
      <3>3. Start(k + 1) = S + X /\ m = items[k + 1]
        BY <1>1, <1>2, <3>1, <3>2, Ordered, Piece
      <3>4. q - X \in 1..N /\ P + r = (S + X) + (q - X)
        BY <1>4, <2>1, <2>2, <2>4
      <3>5. buffer[r] = m[q - X] /\ buffer[r] \in Nat
        <4>1. PICK j \in 1..Len(items) : j = k + 1 /\ items[j] = m /\ Start(j) = S + X
          BY <3>2, <3>3
        <4>2. r \in 1..Len(buffer) /\ q - X \in 1..Len(items[j]) /\ Passed + r = Start(j) + (q - X)
          BY <1>1, <1>2, <2>2, <3>4, <4>1
        <4>3. buffer[r] = items[j][q - X] /\ buffer[r] \in Nat
          BY <4>2, Shown
        <4> QED BY <4>1, <4>3
      <3> QED BY <1>7, <2>1, <2>2, <2>4, <3>5
    <2> QED BY <2>3, <2>4
  <1>9. SubSeq(c, p, p + L - 1) = Marker
    <2>1. \A r \in 1..L : r \in 1..(L + 2) /\ 1 + r - 1 = r
      OBVIOUS
    <2>2. \A r \in 1..L : buffer[1 + r - 1] \in Nat /\ buffer[1 + r - 1] = c[p + r - 1]
      BY <1>8, <2>1
    <2>3. SubSeq(buffer, 1, 1 + L - 1) = SubSeq(c, p, p + L - 1)
      BY <2>2, SameWindow
    <2>4. PICK f : f = Find(buffer, 1) /\ f = 1
      BY DEF AtMarker
    <2>5. Matches(buffer, 1)
      BY <1>5, <2>4, FindIs
    <2> QED BY <1>1, <2>3, <2>5 DEF Matches
  <1>10. c[p + L] <= MaxLength /\ c[p + L + 1] \in {HeartbeatFunction, TransparentFunction}
    <2>1. L + 1 \in 1..(L + 2) /\ p + (L + 1) - 1 = p + L /\ L + 2 \in 1..(L + 2) /\ p + (L + 2) - 1 = p + L + 1
      OBVIOUS
    <2>2. buffer[L + 1] = c[p + L] /\ buffer[L + 2] = c[p + L + 1]
      BY <1>8, <2>1
    <2> QED BY <1>1, <2>2 DEF SaneHeader, LengthOf, FunctionOf
  <1>11. p + L + 1 <= Len(c)
    BY <1>4, <1>7
  <1>12. HeaderAt(c, p)
    BY <1>1, <1>9, <1>10, <1>11 DEF HeaderAt
  <1> QED BY <1>1, <1>3, <1>6, <1>12

\* So decode believes no header within a sound frame unless a fault follows it.
LEMMA NoneWithin ==
    ASSUME FramerType, NEW k \in 1..Len(items), NEW S, items[k] \in S, NoHeaderWithin(S),
           NEW m \in Messages, k = Len(items) \/ m = items[k + 1],
           Start(k) <= Passed, Passed < Stop(k), AtMarker, SaneHeader
    PROVE  Passed = Start(k)
  <1> SUFFICES ASSUME Passed # Start(k) PROVE FALSE
    OBVIOUS
  <1>1. /\ Passed \in Nat /\ Start(k) \in Nat /\ Len(items[k]) \in Nat
        /\ Stop(k) = Start(k) + Len(items[k])
    BY TypeFacts, Piece
  <1>2. PICK p : p = Passed - Start(k) + 1
    OBVIOUS
  <1>3. p \in 2..Len(items[k])
    BY <1>1, <1>2
  <1>4. HeaderAt(items[k] \o m, p)
    BY <1>2, HeaderSeen
  <1> QED BY <1>3, <1>4 DEF NoHeaderWithin

\* The last byte at which a fault may begin to mislead is its first, if no header lies within it.
Costs(j) == IF NoHeaderWithin(Faults) THEN Start(j) ELSE Stop(j)

\* The frame begins further behind every fault than the longest frame reaches.
Clear(i) == \A j \in 1..i : items[j] \in Faults => Costs(j) + LongestFrame <= Start(i)

Reached(i) == Passed <= Start(i) \/ (Stop(i) <= Passed /\ Delivered(i))

\* Decode does not pass over the beginning of a clear frame, and passes it as a whole.
ResyncInv == \A i \in DOMAIN items : items[i] \in Messages /\ Clear(i) => Reached(i)

LEMMA CostsFacts ==
    ASSUME FramerType, NEW j \in 1..Len(items)
    PROVE  Costs(j) \in Nat /\ Start(j) <= Costs(j) /\ Costs(j) <= Stop(j)
  BY Piece DEF Costs

\* What is extracted ahead of a clear frame ends before it.
LEMMA ExtractsBefore ==
    ASSUME FramerType, Sent, NoHeaderWithin(Messages),
           NEW i \in 1..Len(items), items[i] \in Messages, Clear(i), Passed < Start(i), Extract
    PROVE  Passed + FrameLength(buffer) <= Start(i)
  <1>1. PICK P \in Nat, T \in Nat, F \in Nat, G \in Nat :
           P = Passed /\ T = Start(i) /\ F = FrameLength(buffer) /\ G = LongestFrame
    <2>1. Len(buffer) >= MinFrame
      BY DEF Extract, AtMarker
    <2>2. FrameLength(buffer) \in Nat
      BY <2>1, TakenOff
    <2>3. LongestFrame \in Nat
      BY Sizes DEF LongestFrame
    <2>4. Passed \in Nat /\ Start(i) \in Nat
      BY TypeFacts, Piece
    <2> QED BY <2>2, <2>3, <2>4
  <1>2. F <= G /\ P < T /\ AtMarker /\ SaneHeader
    <2>1. LengthOf(buffer) <= MaxLength /\ LengthOf(buffer) \in Nat
      BY TakenOff DEF Extract, AtMarker, SaneHeader
    <2>2. FrameLength(buffer) <= LongestFrame
      BY <2>1, Sizes DEF FrameLength, LongestFrame
    <2> QED BY <1>1, <2>2 DEF Extract
  <1>3. PICK k \in 1..Len(items) : Start(k) <= Passed /\ Passed < Stop(k)
    <2>1. T <= Len(Wire) /\ Len(Wire) \in Nat
      BY <1>1, Piece, TypeFacts
    <2>2. P < Len(Wire)
      BY <1>1, <1>2, <2>1
    <2> QED BY <1>1, <2>2, Located
  <1>4. k < i
    <2>1. k # i
      BY <1>1, <1>2, <1>3
    <2>2. ~(i < k)
      <3> SUFFICES ASSUME i < k PROVE FALSE
        OBVIOUS
      <3>1. Stop(i) <= Start(k) /\ Start(i) <= Stop(i) /\ Start(k) \in Nat /\ Stop(i) \in Nat
        BY Ordered, Piece
      <3> QED BY <1>1, <1>2, <1>3, <3>1
    <2> QED BY <2>1, <2>2
  <1>5. /\ k + 1 \in 1..Len(items) /\ k + 1 \in 1..i /\ k \in 1..i /\ k < k + 1
        /\ k + 1 = i \/ k + 1 < i
    BY <1>4, LenProperties DEF FramerType
  <1>6. PICK A \in Nat, Z \in Nat, X \in Nat :
           /\ A = Start(k) /\ Z = Stop(k) /\ X = Len(items[k]) /\ Z = A + X /\ Z = Start(k + 1)
    <2>1. Stop(k) = Start(k + 1)
      BY <1>5, Ordered
    <2> QED BY <2>1, Piece
  <1>7. A <= P /\ P < Z
    BY <1>1, <1>3, <1>6
  <1>8. Z <= T
    <2>1. CASE k + 1 = i
      BY <1>1, <1>6, <2>1
    <2>2. CASE k + 1 < i
      <3>1. PICK n \in 1..Len(items) : n = k + 1 /\ n < i
        BY <1>5, <2>2
      <3>2. Start(n) \in Nat /\ Len(items[n]) \in Nat /\ Stop(n) = Start(n) + Len(items[n])
        BY Piece
      <3>3. Stop(n) <= T
        BY <1>1, <3>1, Ordered
      <3>4. Start(n) <= T
        BY <3>2, <3>3
      <3> QED BY <1>6, <3>1, <3>4
    <2> QED BY <1>5, <2>1, <2>2
  <1>9. CASE items[k + 1] \in Faults
    <2>1. Costs(k + 1) + G <= T
      BY <1>1, <1>5, <1>9 DEF Clear
    <2>2. Costs(k + 1) \in Nat /\ Z <= Costs(k + 1)
      BY <1>5, <1>6, CostsFacts
    <2>3. P + F <= T
      BY <1>2, <1>7, <2>1, <2>2
    <2> QED BY <1>1, <2>3
  <1>10. CASE items[k + 1] \notin Faults
    <2>1. items[k + 1] \in Messages
      BY <1>5, <1>10, SentItems
    <2>2. CASE items[k] \in Faults
      <3>1. PICK c \in Nat : c = Costs(k) /\ c + G <= T
        BY <1>1, <1>5, <2>2, CostsFacts DEF Clear
      <3>2. P <= c
        <4>1. CASE NoHeaderWithin(Faults)
          <5>1. Passed = Start(k)
            BY <1>2, <1>3, <2>1, <2>2, <4>1, NoneWithin
          <5> QED BY <1>1, <3>1, <4>1, <5>1 DEF Costs
        <4>2. CASE ~NoHeaderWithin(Faults)
          <5>1. c = Z
            BY <1>6, <3>1, <4>2 DEF Costs
          <5> QED BY <1>7, <5>1
        <4> QED BY <4>1, <4>2
      <3>3. P + F <= T
        BY <1>2, <3>1, <3>2
      <3> QED BY <1>1, <3>3
    <2>3. CASE items[k] \notin Faults
      <3>1. items[k] \in Messages
        BY <2>3, SentItems
      <3>2. Passed = Start(k)
        BY <1>2, <1>3, <2>1, <3>1, NoneWithin
      <3>3. F = X
        BY <1>1, <1>2, <1>6, <3>1, <3>2, HeadIs DEF AtMarker
      <3>4. P + F <= T
        BY <1>1, <1>6, <1>8, <3>2, <3>3
      <3> QED BY <1>1, <3>4
    <2> QED BY <2>2, <2>3
  <1> QED BY <1>9, <1>10

\* A frame at the head of the buffer is yielded when it is extracted.
LEMMA ExtractsHead ==
    ASSUME FramerType, NEW i \in 1..Len(items), items[i] \in Messages, Passed = Start(i), Extract
    PROVE  /\ Passed' = Stop(i)
           /\ out' = out \cup {[at |-> Start(i), frame |-> items[i], result |-> "message"]}
  <1>1. /\ Len(buffer) >= MinFrame /\ Len(buffer) >= FrameLength(buffer)
        /\ FrameLength(buffer) \in 1..Len(buffer)
        /\ buffer' = SubSeq(buffer, FrameLength(buffer) + 1, Len(buffer))
        /\ UNCHANGED <<items, taken>>
    BY ExtractStep DEF Extract, AtMarker
  <1>2. /\ FrameLength(buffer) = Len(items[i])
        /\ SubSeq(buffer, 1, FrameLength(buffer)) = items[i]
    BY <1>1, HeadIs
  <1>3. DecodeBytes(SubSeq(buffer, 1, FrameLength(buffer))) = "message"
    BY <1>2, SoundItem DEF WellFormed
  <1>4. out' = out \cup {[at |-> Passed, frame |-> items[i], result |-> "message"]}
    BY <1>2, <1>3 DEF Extract
  <1>5. Passed' = Passed + FrameLength(buffer)
    <2>1. FrameLength(buffer) \in 0..Len(buffer)
      BY <1>1, TypeFacts
    <2> QED BY <1>1, <2>1, Advance
  <1> QED BY <1>2, <1>4, <1>5, Piece

\* Each step keeps what is sent and what was yielded, and never goes back.
LEMMA StepGrows ==
    ASSUME FramerType, [Next]_vars
    PROVE  /\ items' = items /\ out \subseteq out'
           /\ Passed \in Nat /\ Passed' \in Nat /\ Passed <= Passed'
  <1>1. items' = items
    BY DEF Next, vars, DecodeStep, TooShort, NoMarker, DiscardGarbage, SkipTruncated, DropHeader,
           Incomplete, Extract, Receive, Skip, Await
  <1>2. out \subseteq out'
    <2>1. CASE Extract
      BY <2>1 DEF Extract
    <2>2. CASE ~Extract
      <3>1. out' = out
        BY <2>2 DEF Next, vars, DecodeStep, TooShort, NoMarker, DiscardGarbage, SkipTruncated,
                    DropHeader, Incomplete, Receive, Skip, Await
      <3> QED BY <3>1
    <2> QED BY <2>1, <2>2
  <1>3. Passed \in Nat
    BY TypeFacts
  <1>4. ASSUME NEW n \in 1..Len(buffer), buffer' = SubSeq(buffer, n + 1, Len(buffer)),
               UNCHANGED <<items, taken>>
        PROVE  Passed' \in Nat /\ Passed <= Passed'
    <2>1. n \in 0..Len(buffer) /\ n \in Nat
      OBVIOUS
    <2>2. Passed' = Passed + n
      BY <1>4, <2>1, Advance
    <2> QED BY <1>3, <2>1, <2>2
  <1>5. ASSUME Passed' = Passed PROVE Passed' \in Nat /\ Passed <= Passed'
    BY <1>3, <1>5
  <1>6. Passed' \in Nat /\ Passed <= Passed'
    <2>1. CASE DiscardGarbage
      <3>1. Find(buffer, 1) - 1 \in 1..Len(buffer)
        BY <2>1, TakenOff DEF DiscardGarbage
      <3> QED BY <1>4, <2>1, <3>1 DEF DiscardGarbage, Skip
    <2>2. CASE SkipTruncated
      <3>1. NextMarker - 1 \in 1..Len(buffer)
        BY <2>2, TakenOff DEF SkipTruncated
      <3> QED BY <1>4, <2>2, <3>1 DEF SkipTruncated, Skip
    <2>3. CASE DropHeader
      <3>1. Len(Marker) \in 1..Len(buffer)
        BY <2>3, TakenOff DEF DropHeader, AtMarker
      <3> QED BY <1>4, <2>3, <3>1 DEF DropHeader, Skip
    <2>4. CASE Extract
      BY <1>4, <2>4, ExtractStep
    <2>5. CASE \E n \in 1..ReadMax : Receive(n)
      BY <1>5, <2>5, ReceiveKeepsType
    <2>6. CASE TooShort \/ NoMarker \/ Incomplete \/ UNCHANGED vars
      <3>1. Passed' = Passed
        BY <2>6 DEF TooShort, NoMarker, Incomplete, Await, vars, Passed
      <3> QED BY <1>5, <3>1
    <2> QED BY <2>1, <2>2, <2>3, <2>4, <2>5, <2>6 DEF Next, DecodeStep
  <1> QED BY <1>1, <1>2, <1>3, <1>6

\* No step passes over the beginning of a clear frame or takes part of it.
LEMMA StepReached ==
    ASSUME FramerType, Sent, FramesAreUnmistakable, NoHeaderWithin(Messages), [Next]_vars,
           NEW i \in 1..Len(items), items[i] \in Messages, Clear(i), Reached(i)
    PROVE  Reached(i)'
  <1>1. PICK P \in Nat, T \in Nat, Z \in Nat :
           P = Passed /\ T = Start(i) /\ Z = Stop(i) /\ T <= Z
    <2>1. /\ Start(i) \in Nat /\ Stop(i) \in Nat /\ Len(items[i]) \in Nat
          /\ Stop(i) = Start(i) + Len(items[i])
      BY Piece
    <2>2. Start(i) <= Stop(i)
      BY <2>1
    <2> QED BY <2>1, <2>2, TypeFacts
  <1>2. /\ items' = items /\ out \subseteq out'
        /\ Passed' \in Nat /\ P <= Passed'
    BY <1>1, StepGrows
  <1>3. Start(i)' = T /\ Stop(i)' = Z /\ (Delivered(i) => Delivered(i)')
    BY <1>1, <1>2 DEF Start, Stop, Delivered
  <1>4. CASE Stop(i) <= Passed /\ Delivered(i)
    <2>1. Z <= Passed'
      BY <1>1, <1>2, <1>4
    <2> QED BY <1>3, <1>4, <2>1 DEF Reached
  <1>5. CASE Passed <= Start(i)
    <2> SUFFICES ASSUME ~(Passed' <= T) PROVE Passed' = Z /\ Delivered(i)'
      BY <1>1, <1>3 DEF Reached
    <2>1. Passed' # Passed
      BY <1>1, <1>5
    <2>2. ASSUME NEW n \in 1..Len(buffer), Skip(n), Passed + n <= Start(i) PROVE FALSE
      <3>1. n \in 0..Len(buffer)
        OBVIOUS
      <3>2. Passed' = Passed + n
        BY <2>2, <3>1, Advance DEF Skip
      <3> QED BY <1>1, <2>2, <3>2
    <2>3. ASSUME AtMarker, Passed = Start(i) PROVE SaneHeader /\ ~Truncated
      BY <2>3, HeadIs DEF AtMarker
    <2>4. CASE DiscardGarbage
      <3>1. PICK f \in Nat : f = Find(buffer, 1) /\ f > 1 /\ f - 1 \in 1..Len(buffer)
        <4>1. Find(buffer, 1) \in Nat
          <5>1. buffer \in Seq(Nat) /\ Len(buffer) \in Nat /\ Len(Marker) \in Nat
            BY TypeFacts, Sizes DEF FramerType
          <5>2. Find(buffer, 1) = 0 \/ Find(buffer, 1) \in 1..(Len(buffer) - Len(Marker) + 1)
            BY <5>1, FindIs
          <5> QED BY <5>1, <5>2
        <4> QED BY <2>4, <4>1, TakenOff DEF DiscardGarbage
      <3>2. Passed # Start(i)
        BY <2>4, <3>1, HeadIs DEF DiscardGarbage
      <3>3. Passed + 1 <= Start(i) + 1
        BY <1>1, <1>5
      <3>4. P + f <= T + 1
        <4>1. Passed + Find(buffer, 1) <= Start(i) + 1
          BY <3>1, <3>3, FoundBefore
        <4> QED BY <1>1, <3>1, <4>1
      <3>5. Passed + (f - 1) <= Start(i)
        BY <1>1, <3>4
      <3> QED BY <2>2, <2>4, <3>1, <3>5 DEF DiscardGarbage
    <2>5. CASE SkipTruncated
      <3>1. Passed # Start(i) /\ Truncated
        BY <2>3, <2>5 DEF SkipTruncated
      <3>2. PICK f \in Nat : f = Find(buffer, 2) /\ f # 0 /\ f - 1 \in 1..Len(buffer)
        <4>1. MinFrame \in Nat /\ Find(buffer, 2) \in 2..MinFrame
          BY <3>1, Sizes DEF Truncated, NextMarker
        <4>2. Find(buffer, 2) - 1 \in 1..Len(buffer)
          BY <3>1, TakenOff DEF NextMarker
        <4> QED BY <4>1, <4>2
      <3>3. Passed + 2 <= Start(i) + 1
        BY <1>1, <1>5, <3>1
      <3>4. P + f <= T + 1
        <4>1. Passed + Find(buffer, 2) <= Start(i) + 1
          BY <3>2, <3>3, FoundBefore
        <4> QED BY <1>1, <3>2, <4>1
      <3>5. Passed + (f - 1) <= Start(i)
        BY <1>1, <3>4
      <3> QED BY <2>2, <2>5, <3>2, <3>5 DEF SkipTruncated, NextMarker
    <2>6. CASE DropHeader
      <3>1. Passed < Start(i)
        BY <1>1, <1>5, <2>3, <2>6 DEF DropHeader
      <3>2. Passed + Len(Marker) <= Start(i)
        BY <2>6, <3>1, DropsBefore DEF DropHeader
      <3>3. Len(Marker) \in 1..Len(buffer)
        BY <2>6, TakenOff DEF DropHeader, AtMarker
      <3> QED BY <2>2, <2>6, <3>2, <3>3 DEF DropHeader
    <2>7. CASE Extract
      <3>1. CASE Passed = Start(i)
        <4>1. Passed' = Stop(i) /\ Delivered(i)'
          <5>1. /\ Passed' = Stop(i)
                /\ [at |-> Start(i), frame |-> items[i], result |-> "message"] \in out'
            BY <2>7, <3>1, ExtractsHead
          <5> QED BY <1>1, <1>2, <1>3, <5>1 DEF Delivered
        <4> QED BY <1>1, <4>1
      <3>2. CASE Passed # Start(i)
        <4>1. Passed < Start(i)
          BY <1>1, <1>5, <3>2
        <4>2. Passed + FrameLength(buffer) <= Start(i)
          BY <2>7, <4>1, ExtractsBefore
        <4>3. Passed' = Passed + FrameLength(buffer)
          <5>1. FrameLength(buffer) \in 0..Len(buffer)
            BY <2>7, ExtractStep, TypeFacts
          <5> QED BY <2>7, <5>1, ExtractStep, Advance
        <4> QED BY <1>1, <4>2, <4>3
      <3> QED BY <3>1, <3>2
    <2>8. CASE \E n \in 1..ReadMax : Receive(n)
      BY <2>1, <2>8, ReceiveKeepsType
    <2>9. CASE TooShort \/ NoMarker \/ Incomplete \/ UNCHANGED vars
      BY <2>1, <2>9 DEF TooShort, NoMarker, Incomplete, Await, vars, Passed
    <2> QED BY <2>4, <2>5, <2>6, <2>7, <2>8, <2>9 DEF Next, DecodeStep
  <1> QED BY <1>4, <1>5 DEF Reached

LEMMA InitResync == Init => Sent /\ ResyncInv
  <1> SUFFICES ASSUME Init, NEW i \in DOMAIN items PROVE Passed <= Start(i)
    BY DEF Sent, ResyncInv, Reached, Init
  <1>1. FramerType
    BY InitType
  <1>2. i \in 1..Len(items)
    BY <1>1 DEF FramerType
  <1>3. Passed = 0
    <2>1. Len(buffer) = 0 /\ taken = 0
      BY EmptySeq DEF Init
    <2> QED BY <2>1 DEF Passed
  <1> QED BY <1>1, <1>2, <1>3, Piece

LEMMA StepResync ==
    ASSUME FramesAreUnmistakable, NoHeaderWithin(Messages)
    PROVE  FramerType /\ Sent /\ ResyncInv /\ [Next]_vars => Sent' /\ ResyncInv'
  <1> SUFFICES ASSUME FramerType, Sent, ResyncInv, [Next]_vars PROVE Sent' /\ ResyncInv'
    OBVIOUS
  <1>1. items' = items
    BY StepGrows
  <1>2. Sent'
    BY <1>1 DEF Sent
  <1>3. ASSUME NEW i \in DOMAIN items, items[i] \in Messages, Clear(i)' PROVE Reached(i)'
    <2>1. Clear(i)
      BY <1>1, <1>3 DEF Clear, Costs, Start, Stop
    <2>2. i \in 1..Len(items)
      BY DEF FramerType
    <2> QED BY <1>3, <2>1, <2>2, StepReached DEF ResyncInv
  <1>4. ResyncInv'
    BY <1>1, <1>3 DEF ResyncInv
  <1> QED BY <1>2, <1>4

LEMMA AlwaysResynced ==
    ASSUME FramesAreUnmistakable, NoHeaderWithin(Messages)
    PROVE  Spec => [](FramerType /\ Sent /\ ResyncInv)
  <1>1. Init => FramerType /\ Sent /\ ResyncInv
    BY InitType, InitResync
  <1>2. FramerType /\ Sent /\ ResyncInv /\ [Next]_vars => (FramerType /\ Sent /\ ResyncInv)'
    BY StepType, StepResync
  <1> QED BY <1>1, <1>2, PTL DEF Spec

\* What a clear frame is for the reader of the stream.
LEMMA ClearIsYielded ==
    ASSUME FramerType, ResyncInv, NEW i \in DOMAIN items, items[i] \in Messages, Stop(i) <= Passed
    PROVE  Delivered(i) \/ \E j \in 1..i : items[j] \in Faults /\ Start(i) < Costs(j) + LongestFrame
  <1> SUFFICES ASSUME \A j \in 1..i : items[j] \in Faults => ~(Start(i) < Costs(j) + LongestFrame)
               PROVE  Delivered(i)
    OBVIOUS
  <1>1. i \in 1..Len(items) /\ Len(items) \in Nat
    BY LenProperties DEF FramerType
  <1>2. PICK T \in Nat, Z \in Nat, P \in Nat, X \in Nat :
           T = Start(i) /\ Z = Stop(i) /\ P = Passed /\ X = Len(items[i])
    BY <1>1, Piece, TypeFacts
  <1>3. Z = T + X /\ X > 0 /\ Z <= P
    <2>1. Z = T + X /\ X >= MinFrame
      BY <1>1, <1>2, Piece, SoundItem
    <2>2. X > 0
      BY <2>1, Sizes
    <2> QED BY <1>2, <2>1, <2>2
  <1>4. Clear(i)
    <2> SUFFICES ASSUME NEW j \in 1..i, items[j] \in Faults
                 PROVE  Costs(j) + LongestFrame <= Start(i)
      BY DEF Clear
    <2>1. j \in 1..Len(items)
      BY <1>1
    <2>2. Costs(j) \in Nat /\ LongestFrame \in Nat
      BY <2>1, CostsFacts, Sizes DEF LongestFrame
    <2>3. ~(T < Costs(j) + LongestFrame)
      BY <1>2
    <2>4. Costs(j) + LongestFrame <= T
      BY <2>2, <2>3
    <2> QED BY <1>2, <2>4
  <1>5. Reached(i)
    BY <1>4 DEF ResyncInv
  <1>6. ~(P <= T)
    BY <1>3
  <1> QED BY <1>2, <1>5, <1>6 DEF Reached

\* Whatever a fault puts in the stream, a frame that begins further behind it than the longest
\* frame reaches is yielded.
AnyFaultIsSurvived ==
    \A i \in DOMAIN items :
        items[i] \in Messages /\ Stop(i) <= Passed =>
            \/ Delivered(i)
            \/ \E j \in 1..i : items[j] \in Faults /\ Start(i) < Stop(j) + LongestFrame

\* After garbage, cut frames or flipped bytes of any length and content, also such as hold false
\* headers, the framer is back at the first sound frame that begins LongestFrame after them, for
\* every number and set of sound frames (framer.py: the scan for HEADER_START_MARKER).
THEOREM ResyncAfterAnyFault ==
    ASSUME FramesAreUnmistakable, NoHeaderWithin(Messages)
    PROVE  Spec => []AnyFaultIsSurvived
  <1>1. ASSUME FramerType, ResyncInv PROVE AnyFaultIsSurvived
    <2> SUFFICES ASSUME NEW i \in DOMAIN items, items[i] \in Messages, Stop(i) <= Passed,
                        ~Delivered(i)
                 PROVE  \E j \in 1..i : items[j] \in Faults /\ Start(i) < Stop(j) + LongestFrame
      BY DEF AnyFaultIsSurvived
    <2>1. PICK j \in 1..i : items[j] \in Faults /\ Start(i) < Costs(j) + LongestFrame
      BY <1>1, ClearIsYielded
    <2>2. i \in 1..Len(items) /\ j \in 1..Len(items)
      BY <1>1, LenProperties DEF FramerType
    <2>3. /\ Start(i) \in Nat /\ Stop(j) \in Nat /\ Costs(j) \in Nat /\ Costs(j) <= Stop(j)
          /\ LongestFrame \in Nat
      BY <1>1, <2>2, Piece, CostsFacts, Sizes DEF LongestFrame
    <2>4. Start(i) < Stop(j) + LongestFrame
      BY <2>1, <2>3
    <2> QED BY <2>1, <2>4
  <1> QED BY <1>1, AlwaysResynced, PTL

\* When a fault holds no header but the one it may begin with, the frames lost are those that
\* begin within LongestFrame of the beginning of the fault (framer.py: Framer.decode).
THEOREM Resync ==
    ASSUME FramesAreUnmistakable, NoHeaderWithin(Messages), NoHeaderWithin(Faults)
    PROVE  Spec => []ResyncIsBounded
  <1>1. ASSUME FramerType, ResyncInv PROVE ResyncIsBounded
    <2>1. \A j : Costs(j) = Start(j)
      BY DEF Costs
    <2> QED BY <1>1, <2>1, ClearIsYielded DEF ResyncIsBounded
  <1> QED BY <1>1, AlwaysResynced, PTL

(***************************************************************************)
(* What is yielded                                                         *)
(***************************************************************************)
\* What is extracted is the part of the stream that its header claims.
LEMMA ExtractTakes ==
    ASSUME FramerType, Extract
    PROVE  \E f \in Seq(Nat) :
              /\ Len(f) \in Nat /\ Passed' = Passed + Len(f)
              /\ f = SubSeq(Wire, Passed + 1, Passed + Len(f))
              /\ SubSeq(f, 1, Len(Marker)) = Marker
              /\ LengthOf(f) = Len(f) - Len(Marker) - 1 /\ LengthOf(f) <= MaxLength
              /\ out' = IF DecodeBytes(f) = "raises" THEN out
                        ELSE out \cup {[at |-> Passed, frame |-> f, result |-> DecodeBytes(f)]}
  <1>1. PICK P \in Nat, n \in Nat, L \in Nat \ {0}, B \in Nat :
           P = Passed /\ n = FrameLength(buffer) /\ L = Len(Marker) /\ B = Len(buffer)
    <2>1. Passed \in Nat /\ Len(buffer) \in Nat /\ Len(Marker) \in Nat \ {0}
      BY TypeFacts, Sizes
    <2>2. FrameLength(buffer) \in Nat
      BY <2>1, ExtractStep
    <2> QED BY <2>1, <2>2
  <1>2. /\ n \in 1..B /\ B >= MinFrame /\ buffer \in Seq(Nat)
        /\ buffer' = SubSeq(buffer, n + 1, B) /\ UNCHANGED <<items, taken>>
    BY <1>1, ExtractStep DEF Extract, AtMarker, FramerType
  <1>3. PICK f : f = SubSeq(buffer, 1, n)
    OBVIOUS
  <1>4. f \in Seq(Nat) /\ Len(f) = n /\ \A i \in 1..n : f[i] = buffer[i]
    <2>1. n \in 0..Len(buffer)
      BY <1>1, <1>2
    <2> QED BY <1>2, <1>3, <2>1, Prefix
  <1>5. Passed' = P + n
    <2>1. n \in 0..Len(buffer) /\ buffer' = SubSeq(buffer, n + 1, Len(buffer))
      BY <1>1, <1>2
    <2> QED BY <1>1, <1>2, <2>1, Advance
  <1>6. LengthOf(buffer) \in Nat /\ LengthOf(buffer) <= MaxLength /\ n = L + 1 + LengthOf(buffer)
    BY <1>1, <1>2, TakenOff DEF Extract, SaneHeader, FrameLength
  <1>7. LengthOf(f) = LengthOf(buffer)
    <2>1. L + 1 \in 1..n
      BY <1>6
    <2> QED BY <1>1, <1>4, <2>1 DEF LengthOf
  <1>8. LengthOf(f) = n - L - 1
    BY <1>6, <1>7
  <1>9. SubSeq(f, 1, L) = Marker
    <2>1. 1 + L - 1 = L /\ 1 <= L /\ L <= n
      BY <1>6
    <2>2. \A q \in 1..L : 1 + q - 1 = q /\ q \in 1..n /\ q \in 1..Len(buffer)
      BY <1>1, <1>2, <2>1
    <2>3. \A q \in 1..L : buffer[1 + q - 1] \in Nat /\ buffer[1 + q - 1] = f[1 + q - 1]
      BY <1>2, <1>4, <2>2, ElementOfSeq
    <2>4. SubSeq(buffer, 1, 1 + L - 1) = SubSeq(f, 1, 1 + L - 1)
      BY <2>3, SameWindow
    <2>5. PICK g : g = Find(buffer, 1) /\ g = 1
      BY DEF Extract, AtMarker
    <2>6. Matches(buffer, 1)
      BY <1>2, <2>5, FindIs
    <2> QED BY <1>1, <2>1, <2>4, <2>6 DEF Matches
  <1>10. f = SubSeq(Wire, P + 1, P + n)
    <2>1. n \in Nat \ {0} /\ P + 1 \in Nat \ {0} /\ (P + 1) + n - 1 = P + n /\ 1 + n - 1 = n
      BY <1>2
    <2>2. ASSUME NEW q \in 1..n
          PROVE  buffer[1 + q - 1] \in Nat /\ buffer[1 + q - 1] = Wire[(P + 1) + q - 1]
      <3>1. 1 + q - 1 = q /\ (P + 1) + q - 1 = P + q /\ q \in 1..Len(buffer)
        BY <1>1, <1>2
      <3>2. buffer[q] = Wire[P + q] /\ buffer[q] \in Nat
        BY <1>1, <1>2, <3>1, ElementOfSeq DEF FramerType
      <3> QED BY <3>1, <3>2
    <2>3. SubSeq(buffer, 1, 1 + n - 1) = SubSeq(Wire, P + 1, (P + 1) + n - 1)
      BY <2>1, <2>2, SameWindow
    <2> QED BY <1>3, <2>1, <2>3
  <1>11. out' = IF DecodeBytes(f) = "raises" THEN out
                ELSE out \cup {[at |-> P, frame |-> f, result |-> DecodeBytes(f)]}
    BY <1>1, <1>3 DEF Extract
  <1>12. LengthOf(f) <= MaxLength
    BY <1>6, <1>7
  <1> QED BY <1>1, <1>4, <1>5, <1>8, <1>9, <1>10, <1>11, <1>12

\* What is yielded is a part of the stream that was passed, as its header claims it.
Part(y) ==
    /\ y.at \in Nat /\ y.frame \in Seq(Nat) /\ y.at + Len(y.frame) <= Passed
    /\ y.frame = SubSeq(Wire, y.at + 1, y.at + Len(y.frame))
    /\ SubSeq(y.frame, 1, Len(Marker)) = Marker
    /\ LengthOf(y.frame) = Len(y.frame) - Len(Marker) - 1 /\ LengthOf(y.frame) <= MaxLength
    /\ y.result = DecodeBytes(y.frame)

Apart(y, z) == y.at + Len(y.frame) <= z.at \/ z.at + Len(z.frame) <= y.at

\* Nothing is yielded that did not arrive, and no byte is yielded twice.
YieldedOnce == \A y \in out : Part(y) /\ \A z \in out : y = z \/ Apart(y, z)

LEMMA StepYielded == FramerType /\ YieldedOnce /\ [Next]_vars => YieldedOnce'
  <1> SUFFICES ASSUME FramerType, YieldedOnce, [Next]_vars PROVE YieldedOnce'
    OBVIOUS
  <1>1. Wire' = Wire /\ Passed \in Nat /\ Passed' \in Nat /\ Passed <= Passed'
    BY StepGrows DEF Wire
  <1>2. ASSUME NEW y \in out PROVE Part(y)' /\ y.at + Len(y.frame) <= Passed
    <2>1. Part(y) /\ Len(y.frame) \in Nat
      BY LenProperties DEF YieldedOnce, Part
    <2>2. y.at + Len(y.frame) <= Passed'
      <3>1. PICK a \in Nat : a = y.at + Len(y.frame) /\ a <= Passed
        BY <2>1 DEF Part
      <3> QED BY <1>1, <3>1
    <2> QED BY <1>1, <2>1, <2>2 DEF Part
  <1>3. CASE out' = out
    BY <1>2, <1>3 DEF YieldedOnce, Apart
  <1>4. CASE out' # out
    <2>1. Extract
      BY <1>4 DEF Next, vars, DecodeStep, TooShort, NoMarker, DiscardGarbage, SkipTruncated,
                  DropHeader, Incomplete, Receive, Skip, Await
    <2>2. PICK f \in Seq(Nat) :
              /\ Len(f) \in Nat /\ Passed' = Passed + Len(f)
              /\ f = SubSeq(Wire, Passed + 1, Passed + Len(f))
              /\ SubSeq(f, 1, Len(Marker)) = Marker
              /\ LengthOf(f) = Len(f) - Len(Marker) - 1 /\ LengthOf(f) <= MaxLength
              /\ out' = IF DecodeBytes(f) = "raises" THEN out
                        ELSE out \cup {[at |-> Passed, frame |-> f, result |-> DecodeBytes(f)]}
      BY <2>1, ExtractTakes
    <2>3. PICK y : y = [at |-> Passed, frame |-> f, result |-> DecodeBytes(f)]
      OBVIOUS
    <2>4. out' = out \cup {y}
      BY <1>4, <2>2, <2>3
    <2>5. y.at = Passed /\ y.frame = f /\ y.result = DecodeBytes(f)
      BY <2>3
    <2>6. Part(y)'
      <3>1. y.at + Len(y.frame) <= Passed'
        BY <1>1, <2>2, <2>5
      <3> QED BY <1>1, <2>2, <2>5, <3>1 DEF Part
    <2>7. \A z \in out : Apart(y, z) /\ Apart(z, y)
      BY <1>2, <2>5 DEF Apart
    <2>8. \A z \in out : Part(z)' /\ \A w \in out : z = w \/ Apart(z, w)
      BY <1>2 DEF YieldedOnce
    <2> QED BY <2>4, <2>6, <2>7, <2>8 DEF YieldedOnce, Apart
  <1> QED BY <1>3, <1>4

LEMMA AlwaysYielded == Spec => [](FramerType /\ YieldedOnce)
  <1>1. Init => YieldedOnce
    BY DEF Init, YieldedOnce
  <1> QED BY <1>1, InitType, StepType, StepYielded, PTL DEF Spec

\* Whatever arrives, every message or error that decode yields is a part of the stream that begins
\* with the marker and is as long as its header says, and no two of them overlap: nothing is
\* yielded twice (framer.py: the buffer is advanced before the frame is decoded).
THEOREM NoByteTwice == Spec => []YieldedOnce
  BY AlwaysYielded, PTL

\* A sound frame, yielded as it was sent.
SoundYield(y) ==
    \E k \in DOMAIN items :
        items[k] \in Messages /\ y = [at |-> Start(k), frame |-> items[k], result |-> "message"]

\* The byte belongs to a fault or to what was sent just before one.
InDoubt(p) ==
    \E k \in DOMAIN items :
        /\ Start(k) <= p /\ p < Stop(k)
        /\ items[k] \in Faults \/ (k < Len(items) /\ items[k + 1] \in Faults)

OnlyFaultsMislead == \A y \in out : SoundYield(y) \/ InDoubt(y.at)

LEMMA StepMisleads ==
    ASSUME NoHeaderWithin(Messages)
    PROVE  FramerType /\ Sent /\ OnlyFaultsMislead /\ [Next]_vars => OnlyFaultsMislead'
  <1> SUFFICES ASSUME FramerType, Sent, OnlyFaultsMislead, [Next]_vars PROVE OnlyFaultsMislead'
    OBVIOUS
  <1>1. items' = items
    BY StepGrows
  <1>2. \A y : (SoundYield(y) => SoundYield(y)') /\ (InDoubt(y.at) => InDoubt(y.at)')
    BY <1>1 DEF SoundYield, InDoubt, Start, Stop
  <1>3. ASSUME NEW y \in out', y \notin out PROVE SoundYield(y) \/ InDoubt(y.at)
    <2>1. Extract
      BY <1>3 DEF Next, vars, DecodeStep, TooShort, NoMarker, DiscardGarbage, SkipTruncated,
                  DropHeader, Incomplete, Receive, Skip, Await
    <2>2. y.at = Passed
      BY <1>3, <2>1 DEF Extract
    <2>3. AtMarker /\ SaneHeader
      BY <2>1 DEF Extract
    <2>4. PICK k \in 1..Len(items) : Start(k) <= Passed /\ Passed < Stop(k)
      <3>1. /\ Passed \in Nat /\ Len(Wire) \in Nat /\ taken <= Len(Wire) /\ taken \in Nat
            /\ taken = Passed + Len(buffer) /\ Len(buffer) \in Nat /\ Len(buffer) >= MinFrame
        BY <2>3, TypeFacts DEF AtMarker, FramerType
      <3>2. Len(buffer) > 0
        BY <3>1, Sizes
      <3>3. Passed < Len(Wire)
        BY <3>1, <3>2
      <3> QED BY <3>1, <3>3, Located
    <2>5. k \in DOMAIN items /\ Len(items) \in Nat
      BY LenProperties DEF FramerType
    <2>6. CASE items[k] \in Faults \/ (k < Len(items) /\ items[k + 1] \in Faults)
      BY <2>2, <2>4, <2>5, <2>6 DEF InDoubt
    <2>7. CASE ~(items[k] \in Faults \/ (k < Len(items) /\ items[k + 1] \in Faults))
      <3>1. items[k] \in Messages
        BY <2>7, SentItems
      <3>2. PICK m \in Messages : k = Len(items) \/ m = items[k + 1]
        <4>1. CASE k = Len(items)
          BY <3>1, <4>1
        <4>2. CASE k # Len(items)
          <5>1. k < Len(items) /\ k + 1 \in 1..Len(items)
            BY <2>5, <4>2
          <5>2. items[k + 1] \in Messages
            BY <2>7, <5>1, SentItems
          <5> QED BY <5>2
        <4> QED BY <4>1, <4>2
      <3>3. Passed = Start(k)
        BY <2>3, <2>4, <3>1, <3>2, NoneWithin
      <3>4. out' = out \cup {[at |-> Start(k), frame |-> items[k], result |-> "message"]}
        BY <2>1, <3>1, <3>3, ExtractsHead
      <3> QED BY <1>3, <2>5, <3>1, <3>4 DEF SoundYield
    <2> QED BY <2>6, <2>7
  <1>4. \A y \in out : SoundYield(y) \/ InDoubt(y.at)
    BY DEF OnlyFaultsMislead
  <1> QED BY <1>2, <1>3, <1>4 DEF OnlyFaultsMislead

LEMMA AlwaysSent ==
    ASSUME NoHeaderWithin(Messages)
    PROVE  Spec => [](FramerType /\ Sent /\ OnlyFaultsMislead)
  <1>1. Init => FramerType /\ Sent /\ OnlyFaultsMislead
    BY InitType DEF Init, Sent, OnlyFaultsMislead
  <1>2. FramerType /\ Sent /\ [Next]_vars => Sent'
    BY StepGrows DEF Sent
  <1>3. FramerType /\ Sent /\ OnlyFaultsMislead /\ [Next]_vars
        => (FramerType /\ Sent /\ OnlyFaultsMislead)'
    BY <1>2, StepType, StepMisleads
  <1> QED BY <1>1, <1>3, PTL DEF Spec

\* What decode yields is a frame as it was sent, unless it begins in a fault or in the frame that a
\* fault cuts short: no fault turns what comes later into something else, however the stream is
\* read (framer.py: Framer.decode).
THEOREM NothingElseMisleads ==
    ASSUME NoHeaderWithin(Messages)
    PROVE  Spec => []OnlyFaultsMislead
  BY AlwaysSent, PTL

\* A read response is a message only if the decoder found its check code right.
LEMMA ReadIsChecked ==
    ASSUME NEW f \in Seq(Nat), DecodeBytes(f) = "message", FunctionOf(f) = TransparentFunction,
           Data(f)[1] % ErrorBit \in {3, 4}, SubSeq(f, 1, Len(Marker)) = Marker,
           LengthOf(f) = Len(f) - Len(Marker) - 1, LengthOf(f) <= MaxLength
    PROVE  ReadResponse(f)
  <1>1. PICK d, fn : d = Data(f) /\ fn = d[1]
    OBVIOUS
  <1>2. FunctionOf(f) # HeartbeatFunction
    BY DEF HeartbeatFunction, TransparentFunction
  <1>3. Unpacks(f, HeaderLength) /\ DecodeTransparent(d) = "message"
    BY <1>1, <1>2 DEF DecodeBytes
  <1>4. ResponseOf(fn % ErrorBit) = "read"
    <2>1. fn % ErrorBit # 0
      BY <1>1
    <2> QED BY <1>1, <2>1 DEF ResponseOf
  <1>5. DecodeRead(fn, d) = "message"
    BY <1>1, <1>3, <1>4 DEF DecodeTransparent
  <1>6. PICK values : values = IF fn >= ErrorBit THEN 0 ELSE d[2]
    OBVIOUS
  <1>7. /\ Unpacks(d, 2) /\ Unpacks(d, 3 + values)
        /\ d[3 + values] = Crc(<<fn % ErrorBit>> \o SubSeq(d, 2, 2 + values))
    BY <1>5, <1>6 DEF DecodeRead
  <1>8. HeaderAt(f, 1)
    <2>1. PICK L \in Nat \ {0}, n \in Nat : L = Len(Marker) /\ n = Len(f)
      BY Sizes, LenProperties
    <2>2. L + 2 <= n
      BY <1>3, <2>1 DEF Unpacks, HeaderLength
    <2>3. 1 + L + 1 <= n /\ 1 + L - 1 = L /\ 1 + L = L + 1 /\ 1 + L + 1 = L + 2
      BY <2>2
    <2>4. f[1 + L] <= MaxLength /\ f[1 + L + 1] = TransparentFunction
      BY <2>1, <2>3 DEF LengthOf, FunctionOf
    <2> QED BY <2>1, <2>3, <2>4 DEF HeaderAt
  <1> QED BY <1>1, <1>6, <1>7, <1>8 DEF ReadResponse

\* What is yielded at y is the answer to a read.
ReadAnswer(y) ==
    /\ y.result = "message" /\ FunctionOf(y.frame) = TransparentFunction
    /\ Data(y.frame)[1] % ErrorBit \in {3, 4}

\* It was not sent, but lies where a fault is and happens to carry the check code of its bytes.
PassesByChance(y) == y.frame \notin Messages /\ InDoubt(y.at) /\ ReadResponse(y.frame)

\* Every read answer that is yielded stands where it was sent, as it was sent, or begins in a fault
\* or in the frame before one, tells the truth in its header and carries the check code of its
\* bytes: no other branch of decode lets register values through (framer.py: Framer.decode,
\* read_registers.py: ensure_valid_state). Without such a coincidence ReadsAreGenuine holds.
THEOREM GenuineReads ==
    ASSUME NoHeaderWithin(Messages)
    PROVE  Spec => []( /\ \A y \in out :
                             ReadAnswer(y) => SoundYield(y) \/ (InDoubt(y.at) /\ ReadResponse(y.frame))
                       /\ ReadsAreGenuine \/ \E y \in out : PassesByChance(y) )
  <1>1. ASSUME OnlyFaultsMislead, YieldedOnce, NEW y \in out, ReadAnswer(y)
        PROVE  SoundYield(y) \/ (InDoubt(y.at) /\ ReadResponse(y.frame))
    <2>1. Part(y)
      BY <1>1 DEF YieldedOnce
    <2>2. ReadResponse(y.frame)
      BY <1>1, <2>1, ReadIsChecked DEF Part, ReadAnswer
    <2> QED BY <1>1, <2>2 DEF OnlyFaultsMislead
  <1>2. ASSUME OnlyFaultsMislead, YieldedOnce, \A y \in out : ~PassesByChance(y)
        PROVE  ReadsAreGenuine
    <2> SUFFICES ASSUME NEW y \in out, ReadAnswer(y) PROVE y.frame \in Messages
      BY DEF ReadsAreGenuine, ReadAnswer
    <2>1. CASE SoundYield(y)
      BY <2>1 DEF SoundYield
    <2>2. CASE InDoubt(y.at) /\ ReadResponse(y.frame)
      BY <1>2, <2>2 DEF PassesByChance
    <2> QED BY <1>1, <1>2, <2>1, <2>2
  <1>3. OnlyFaultsMislead /\ YieldedOnce
        => /\ \A y \in out :
                 ReadAnswer(y) => SoundYield(y) \/ (InDoubt(y.at) /\ ReadResponse(y.frame))
           /\ ReadsAreGenuine \/ \E y \in out : PassesByChance(y)
    BY <1>1, <1>2
  <1> QED BY <1>3, AlwaysSent, AlwaysYielded, PTL

=============================================================================
