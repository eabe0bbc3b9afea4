---------------------------- MODULE ImmediateProofs ----------------------------
(***************************************************************************)
(* What WriteImmediate and ReadImmediate guarantee for every batch of      *)
(* items, however deep they nest, and for buffers and slices of every      *)
(* size: an item is written whole or fails for want of room, and what was  *)
(* written is read back.                                                   *)
(*                                                                         *)
(* The codecs are those of SerializerProofs and DeserializerProofs, whose  *)
(* invariants and step lemmas are used as they are; what is new here is    *)
(* how the codecs of one item after the other share a buffer.              *)
(***************************************************************************)
EXTENDS Immediate, FiniteRecursion

(* The machines of SerializerProofs and DeserializerProofs, for the        *)
(* adapters' variables. Their definitions are copies of those of S and D,  *)
(* and their lemmas take the assumptions of their modules as hypotheses.   *)
SP == INSTANCE SerializerProofs
        WITH Values <- Nested, Rooms <- Nat,
             stack <- w_stack, room <- w_room, outcome <- w_outcome
DP == INSTANCE DeserializerProofs
        WITH Nested <- Legible, Streams <- Slices, Pieces <- Nat,
             stack <- r_stack, room <- r_room, outcome <- r_outcome

(* The copies are the same: what codecs write, and the parts they hand on. *)
LEMMA SameWrites == \A it : SP!Own(it) = Own(it)
BY DEF Own, WritesOf, BoolWrites, NumberWrites, CastWrites, UnitWrites, BytesWrites,
       OptionWrites, ResultWrites, TupleWrites, DerivedWrites, ArrayWrites, VecWrites, BoxWrites, MapWrites,
       Part, Writes, Each, BigEndian, LittleEndian, DeterminantBits, Vlq, VlqBytes, ValueBits, UnaryBits, FlattenSeq, Value,
       SP!Own, SP!WritesOf, SP!BoolWrites, SP!NumberWrites, SP!CastWrites, SP!UnitWrites, SP!BytesWrites,
       SP!OptionWrites, SP!ResultWrites, SP!TupleWrites, SP!DerivedWrites, SP!ArrayWrites, SP!VecWrites, SP!BoxWrites, SP!MapWrites,
       SP!Part, SP!Writes, SP!Each, SP!BigEndian, SP!LittleEndian, SP!DeterminantBits, SP!Vlq, SP!VlqBytes, SP!ValueBits, SP!UnaryBits, SP!FlattenSeq, SP!Value

LEMMA SameItems ==
  /\ \A it : SP!Own(it) = Own(it) /\ DP!Own(it) = Own(it)
  /\ \A parts : SP!Joined(parts) = Joined(parts) /\ DP!Joined(parts) = Joined(parts)
<1>1. \A it : SP!Own(it) = Own(it)
  BY SameWrites
<1>2. \A it : DP!Own(it) = Own(it)
BY DEF Own, WritesOf, BoolWrites, NumberWrites, CastWrites, UnitWrites, BytesWrites,
       OptionWrites, ResultWrites, TupleWrites, DerivedWrites, ArrayWrites, VecWrites, BoxWrites, MapWrites,
       Part, Writes, Each, BigEndian, LittleEndian, DeterminantBits, Vlq, VlqBytes, ValueBits, UnaryBits, FlattenSeq, Value,
       DP!Own, DP!WritesOf, DP!BoolWrites, DP!NumberWrites, DP!CastWrites, DP!UnitWrites, DP!BytesWrites,
       DP!OptionWrites, DP!ResultWrites, DP!TupleWrites, DP!DerivedWrites, DP!ArrayWrites, DP!VecWrites, DP!BoxWrites, DP!MapWrites,
       DP!Part, DP!Writes, DP!Each, DP!BigEndian, DP!LittleEndian, DP!DeterminantBits, DP!Vlq, DP!VlqBytes, DP!ValueBits, DP!UnaryBits, DP!FlattenSeq, DP!Value
<1>3. \A parts : SP!Joined(parts) = Joined(parts)
  BY DEF SP!Joined, Joined, FlattenSeq, SP!FlattenSeq
<1>4. \A parts : DP!Joined(parts) = Joined(parts)
  BY DEF DP!Joined, Joined, FlattenSeq, DP!FlattenSeq
<1>. QED BY <1>1, <1>2, <1>3, <1>4

(* The frames of new codecs (MinCodecWrite::serialize,                     *)
(* MinCodecRead::deserialize).                                             *)
LEMMA SameFrames ==
  /\ \A it : S!FrameOf(it) = SP!FrameOf(it)
  /\ \A T : D!FrameFor(T) = DP!FrameFor(T)
<1>1. \A it : S!Own(it) = Own(it)
BY DEF Own, WritesOf, BoolWrites, NumberWrites, CastWrites, UnitWrites, BytesWrites,
       OptionWrites, ResultWrites, TupleWrites, DerivedWrites, ArrayWrites, VecWrites, BoxWrites, MapWrites,
       Part, Writes, Each, BigEndian, LittleEndian, DeterminantBits, Vlq, VlqBytes, ValueBits, UnaryBits, FlattenSeq, Value,
       S!Own, S!WritesOf, S!BoolWrites, S!NumberWrites, S!CastWrites, S!UnitWrites, S!BytesWrites,
       S!OptionWrites, S!ResultWrites, S!TupleWrites, S!DerivedWrites, S!ArrayWrites, S!VecWrites, S!BoxWrites, S!MapWrites,
       S!Part, S!Writes, S!Each, S!BigEndian, S!LittleEndian, S!DeterminantBits, S!Vlq, S!VlqBytes, S!ValueBits, S!UnaryBits, S!FlattenSeq, S!Value
<1>2. \A it : S!FrameOf(it) = SP!FrameOf(it)
  BY <1>1, SameWrites DEF S!FrameOf, SP!FrameOf
<1>3. \A T : D!FrameFor(T) = DP!FrameFor(T)
  BY DEF D!FrameFor, DP!FrameFor
<1>. QED BY <1>2, <1>3

(* What the serializers' proofs assume.                                    *)
LEMMA WriterAssumptions ==
  SP!FormatConstants /\ SP!ItemsAreEncoded /\ SP!SerializerConstants
<1>1. SP!FormatConstants
  BY FormatConstants DEF SP!FormatConstants
<1>2. SP!ItemsAreEncoded
  BY ItemsAreEncoded, SameItems DEF IsEncoded, SP!ItemsAreEncoded, SP!IsEncoded
<1>3. SP!SerializerConstants
  BY DEF SP!SerializerConstants
<1>. QED BY <1>1, <1>2, <1>3

(* What the deserializers' proofs assume: of a slice that holds an item,   *)
(* or only the beginning of one.                                           *)
LEMMA ReaderAssumptions ==
  DP!FormatConstants /\ DP!ItemsAreEncoded /\ DP!DeserializerConstants /\ DP!AllReadable
<1>1. DP!FormatConstants
  BY FormatConstants DEF DP!FormatConstants
<1>2. DP!ItemsAreEncoded
  <2>1. \A it \in Legible : IsEncoded(it) /\ Own(it).parts \in Seq(Legible)
    BY ItemsAreEncoded, ImmediateConstants
  <2>. QED BY <2>1, SameItems DEF IsEncoded, DP!ItemsAreEncoded, DP!IsEncoded
<1>3. \A it \in Legible : DP!IsValue(it) /\ DP!Readable(it)
  <2>1. \A it \in Legible : D!IsValue(it) /\ D!Readable(it)
    BY ImmediateConstants
  <2>2. \A it : D!IsValue(it) <=> DP!IsValue(it)
    BY DEF D!IsValue, DP!IsValue, D!Byte, DP!Byte, D!Lengths, DP!Lengths, D!Value, DP!Value,
           D!ValueBits, DP!ValueBits, D!UnaryBits, DP!UnaryBits
  <2>3. \A it : D!Readable(it) <=> DP!Readable(it)
    BY DEF D!Readable, DP!Readable
  <2>. QED BY <2>1, <2>2, <2>3
<1>4. \A T \in Types : DP!IsType(T)
  BY ImmediateConstants DEF D!IsType, DP!IsType
<1>5. ASSUME NEW s \in Slices
      PROVE  s.type \in Types /\ s.bits \in Seq({0, 1}) /\ DP!IsSent(s)
  <2>1. PICK it \in Legible, b \in Seq({0, 1}) :
          /\ s = [type |-> it.type, sent |-> <<it.value>>, size |-> Len(EncodingOf(it)), bits |-> b]
          /\ IsPrefix(EncodingOf(it), b) \/ IsPrefix(b, EncodingOf(it))
    BY DEF Slices
  <2>2. it = [type |-> it.type, value |-> it.value] /\ it.type \in Types
    BY ImmediateConstants DEF Part
  <2>3. DP!SentOn(s) = it
    BY <2>1, <2>2 DEF DP!SentOn
  <2>4. \A x, y : DP!IsPrefix(x, y) <=> IsPrefix(x, y)
    BY DEF DP!IsPrefix, IsPrefix
  <2>5. s.sent = <<it.value>> /\ s.sent[1] = it.value /\ s.bits = b /\ s.size = Len(EncodingOf(it))
    BY <2>1
  <2>6. DP!IsSent(s)
    BY <2>1, <2>3, <2>4, <2>5 DEF DP!IsSent
  <2>. QED BY <2>1, <2>2, <2>6
<1>6. DP!DeserializerConstants
  BY <1>3, <1>4, <1>5, ImmediateConstants DEF DP!DeserializerConstants
<1>. QED BY <1>1, <1>2, <1>3, <1>6 DEF DP!AllReadable

(* The steps of the serializer are those that SerializerProofs is about.   *)
LEMMA WriterSteps ==
  /\ S!LoopTurn => SP!LoopTurn
  /\ \A r : S!Poll(r) => SP!Poll(r)
  /\ S!Init => SP!Init
<1>. USE DEF S!Top, SP!Top, S!WithTop, SP!WithTop, S!Running, SP!Running
<1>1. S!Drain => SP!Drain
  BY DEF S!Drain, SP!Drain
<1>2. S!Insufficient \/ S!Suspend \/ S!Fail => SP!Insufficient \/ SP!Suspend \/ SP!Fail
  BY DEF S!Insufficient, SP!Insufficient, S!Suspend, SP!Suspend, S!Fail, SP!Fail
<1>3. S!Descend => SP!Descend
  BY SameFrames DEF S!Descend, SP!Descend
<1>4. S!Finish => SP!Finish
  BY DEF S!Finish, SP!Finish
<1>5. \A r : S!Poll(r) => SP!Poll(r)
  BY DEF S!Poll, SP!Poll, S!Resumed, SP!Resumed, S!Iterating, SP!Iterating
<1>6. S!Init => SP!Init
  BY SameFrames DEF S!Init, SP!Init
<1>. QED BY <1>1, <1>2, <1>3, <1>4, <1>5, <1>6 DEF S!LoopTurn, SP!LoopTurn

(* What a codec reads itself, and the parts it asks for.                   *)
LEMMA SameReads ==
  \A f : D!ReadsOf(f) = DP!ReadsOf(f)
BY DEF D!ReadsOf, DP!ReadsOf, D!Reads, DP!Reads, D!BoolReads, DP!BoolReads, D!NumberReads, DP!NumberReads,
  D!UnitReads, DP!UnitReads, D!CastReads, DP!CastReads, D!BoxReads, DP!BoxReads, D!MapReads, DP!MapReads,
  D!TupleReads, DP!TupleReads, D!ArrayReads, DP!ArrayReads, D!OptionReads, DP!OptionReads,
  D!ResultReads, DP!ResultReads, D!StringReads, DP!StringReads, D!VecReads, DP!VecReads,
  D!DerivedReads, DP!DerivedReads, D!LengthKnown, DP!LengthKnown, D!QuantityBits, DP!QuantityBits,
  D!QuantityDone, DP!QuantityDone, D!Determinant, DP!Determinant, D!DeterminantBits, DP!DeterminantBits,
  D!FromLittleEndian, DP!FromLittleEndian, D!FromBigEndian, DP!FromBigEndian, D!Reverse, DP!Reverse,
  D!FromVlq, DP!FromVlq, D!VlqLength, DP!VlqLength, D!UnaryBits, DP!UnaryBits

(* And those of the deserializer are those of DeserializerProofs.          *)
LEMMA ReaderSteps ==
  /\ D!LoopTurn => DP!LoopTurn
  /\ D!Insufficient => DP!Insufficient
  /\ \A r : D!Poll(r) => DP!Poll(r)
<1>1. \A f : /\ D!Missing(f) = DP!Missing(f) /\ (D!HeaderDone(f) <=> DP!HeaderDone(f))
             /\ D!PartsDue(f) = DP!PartsDue(f) /\ (D!Whole(f) <=> DP!Whole(f))
  BY SameReads DEF D!Missing, DP!Missing, D!HeaderDone, DP!HeaderDone, D!PartsDue, DP!PartsDue,
                   D!Whole, DP!Whole
<1>2. \A f : /\ D!InvalidDeterminant(f) <=> DP!InvalidDeterminant(f)
             /\ D!Determinant(f) = DP!Determinant(f) /\ D!BytesOf(f) = DP!BytesOf(f)
             /\ (D!TooLong(f) <=> DP!TooLong(f))
  BY <1>1 DEF D!InvalidDeterminant, DP!InvalidDeterminant, D!BytesOf, DP!BytesOf, D!TooLong, DP!TooLong,
   D!LengthKnown, DP!LengthKnown, D!QuantityBits, DP!QuantityBits, D!Value, DP!Value,
  D!QuantityDone, DP!QuantityDone, D!Determinant, DP!Determinant, D!DeterminantBits, DP!DeterminantBits,
  D!FromLittleEndian, DP!FromLittleEndian, D!FromBigEndian, DP!FromBigEndian, D!Reverse, DP!Reverse,
  D!FromVlq, DP!FromVlq, D!VlqLength, DP!VlqLength, D!UnaryBits, DP!UnaryBits
<1>3. \A f : D!Refuses(f) <=> DP!Refuses(f)
  BY <1>1, <1>2 DEF D!Refuses, DP!Refuses, D!InvalidUtf8, DP!InvalidUtf8, D!MapRefuses, DP!MapRefuses
<1>4. \A f : D!ValueOf(f) = DP!ValueOf(f)
  BY <1>2 DEF D!ValueOf, DP!ValueOf, D!Value, DP!Value, D!FromBigEndian, DP!FromBigEndian
<1>. USE DEF D!Top, DP!Top, D!WithTop, DP!WithTop, D!Running, DP!Running
<1>5. D!Fill => DP!Fill
  BY <1>1 DEF D!Fill, DP!Fill
<1>6. D!Insufficient => DP!Insufficient
  BY <1>1 DEF D!Insufficient, DP!Insufficient
<1>7. D!Suspend \/ D!Fail \/ D!Panic => DP!Suspend \/ DP!Fail \/ DP!Panic
  BY <1>1, <1>2, <1>3 DEF D!Suspend, DP!Suspend, D!Fail, DP!Fail, D!Panic, DP!Panic
<1>8. D!Descend => DP!Descend
  BY <1>1, <1>2, SameFrames DEF D!Descend, DP!Descend
<1>9. D!Finish => DP!Finish
  BY <1>1, <1>2, <1>3, <1>4 DEF D!Finish, DP!Finish
<1>10. \A r : D!Poll(r) => DP!Poll(r)
  BY DEF D!Poll, DP!Poll
<1>. QED BY <1>5, <1>6, <1>7, <1>8, <1>9, <1>10 DEF D!LoopTurn, DP!LoopTurn

-----------------------------------------------------------------------------
(* The bits of a batch: the encoding of one item behind the other.         *)
Bits == Seq({0, 1})

(* The bits of k items are those of one item less, and its encoding.       *)
LEMMA EncodingsGrow ==
  ASSUME batch \in Batches
  PROVE  /\ batch \in Seq(Nested) /\ Len(batch) \in Nat /\ Len(batch) > 0
         /\ Encodings(0) = <<>>
         /\ \A k \in 0 .. Len(batch) : Encodings(k) \in Bits /\ Len(Encodings(k)) \in Nat
         /\ \A k \in 1 .. Len(batch) :
              /\ batch[k] \in Nested /\ EncodingOf(batch[k]) \in Bits
              /\ Len(EncodingOf(batch[k])) \in Nat
              /\ Encodings(k) = Encodings(k - 1) \o EncodingOf(batch[k])
              /\ Len(Encodings(k)) = Len(Encodings(k - 1)) + Len(EncodingOf(batch[k]))
<1> DEFINE part(k) == [i \in 1 .. k |-> EncodingOf(batch[i])]
<1>1. batch \in Seq(Nested) /\ batch # <<>>
  BY ImmediateConstants
<1>2. Len(batch) \in Nat /\ Len(batch) > 0 /\ \A k \in 1 .. Len(batch) : batch[k] \in Nested
  BY <1>1, EmptySeq
<1>3. \A it \in Nested : EncodingOf(it) \in Bits /\ Len(EncodingOf(it)) \in Nat
  <2>1. \A it \in Nested : EncodingOf(it) \in Bits
    BY ItemsAreEncoded DEF IsEncoded, Bits
  <2>2. \A s \in Bits : Len(s) \in Nat
    BY LenProperties DEF Bits
  <2>. QED BY <2>1, <2>2
<1>4. ASSUME NEW k \in 0 .. Len(batch)
      PROVE  /\ part(k) \in Seq(Bits) /\ Len(part(k)) = k
             /\ Encodings(k) = FlattenSeq(part(k)) /\ FlattenSeq(part(k)) \in Bits
  <2>1. k \in Nat /\ k <= Len(batch)
    BY <1>2
  <2>2. /\ SubSeq(batch, 1, k) \in Seq(Nested) /\ Len(SubSeq(batch, 1, k)) = k
        /\ \A i \in 1 .. k : SubSeq(batch, 1, k)[i] = batch[i]
    BY <1>1, <2>1
  <2>3. part(k) \in Seq(Bits) /\ Len(part(k)) = k
    BY <1>2, <1>3, <2>1
  <2>4. part(k) = [i \in 1 .. Len(SubSeq(batch, 1, k)) |-> EncodingOf(SubSeq(batch, 1, k)[i])]
    BY <2>2
  <2>5. Encodings(k) = FlattenSeq(part(k))
    BY <2>4 DEF Encodings, Joined
  <2>6. FlattenSeq(part(k)) \in Bits
    <3>. HIDE DEF part
    <3>. QED BY <2>3, FlattenHeadTail DEF Bits
  <2>. QED BY <2>3, <2>5, <2>6
<1>5. Encodings(0) = <<>>
  <2>1. 0 \in 0 .. Len(batch)
    BY <1>2
  <2>2. Encodings(0) = FlattenSeq(part(0))
    <3>. HIDE DEF part
    <3>. QED BY <1>4, <2>1
  <2>3. part(0) = <<>>
    BY <1>4, <2>1, EmptySeq
  <2>4. FlattenSeq(<<>>) = <<>>
    BY DEF FlattenSeq
  <2>. QED BY <2>2, <2>3, <2>4, Zenon
<1>6. ASSUME NEW k \in 1 .. Len(batch)
      PROVE  Encodings(k) = Encodings(k - 1) \o EncodingOf(batch[k])
  <2> DEFINE last == EncodingOf(batch[k])
             before == part(k - 1)
  <2>1. k \in 0 .. Len(batch) /\ k - 1 \in 0 .. Len(batch) /\ (k - 1) + 1 = k
    BY <1>2
  <2>2. before \in Seq(Bits) /\ Len(before) = k - 1 /\ last \in Bits
    BY <1>2, <1>3, <1>4, <2>1
  <2>3. part(k) = Append(before, last)
    <3>1. part(k) \in Seq(Bits) /\ Len(part(k)) = k
      BY <1>4, <2>1
    <3>2. /\ Append(before, last) \in Seq(Bits) /\ Len(Append(before, last)) = (k - 1) + 1
          /\ Append(before, last)[(k - 1) + 1] = last
          /\ \A i \in 1 .. k - 1 : Append(before, last)[i] = before[i]
      <4>. HIDE DEF before, last
      <4>. QED BY <2>2, AppendProperties
    <3>3. ASSUME NEW i \in 1 .. k PROVE part(k)[i] = Append(before, last)[i]
      <4>1. CASE i = k
        BY <2>1, <3>2, <4>1
      <4>2. CASE i # k
        <5>1. i \in 1 .. k - 1
          BY <2>1, <4>2
        <5>2. before[i] = EncodingOf(batch[i]) /\ part(k)[i] = EncodingOf(batch[i])
          BY <5>1
        <5>3. Append(before, last)[i] = before[i]
          <6>. HIDE DEF before, last
          <6>. QED BY <3>2, <5>1
        <5>. QED BY <5>2, <5>3
      <4>. QED BY <4>1, <4>2
    <3>. HIDE DEF part, before, last
    <3>. QED BY <2>1, <3>1, <3>2, <3>3, SeqEqual
  <2>4. FlattenSeq(Append(before, last)) = FlattenSeq(before) \o last
    <3>. HIDE DEF before, last
    <3>. QED BY <2>2, FlattenAppend DEF Bits
  <2>5. Encodings(k) = FlattenSeq(part(k)) /\ Encodings(k - 1) = FlattenSeq(before)
    BY <1>4, <2>1
  <2>. HIDE DEF part, before
  <2>. QED BY <2>3, <2>4, <2>5, Zenon
<1>7. \A k \in 0 .. Len(batch) : Encodings(k) \in Bits /\ Len(Encodings(k)) \in Nat
  <2>. HIDE DEF part
  <2>. QED BY <1>4, LenProperties DEF Bits
<1>8. ASSUME NEW k \in 1 .. Len(batch)
      PROVE  Len(Encodings(k)) = Len(Encodings(k - 1)) + Len(EncodingOf(batch[k]))
  <2> DEFINE a == Encodings(k - 1)
             b == EncodingOf(batch[k])
  <2>1. k - 1 \in 0 .. Len(batch)
    BY <1>2
  <2>2. a \in Bits /\ b \in Bits /\ Encodings(k) = a \o b
    BY <1>2, <1>3, <1>6, <1>7, <2>1
  <2>. HIDE DEF a, b
  <2>3. Len(a \o b) = Len(a) + Len(b)
    BY <2>2, ConcatProperties DEF Bits
  <2>4. Len(Encodings(k)) = Len(a) + Len(b)
    BY <2>2, <2>3, Zenon
  <2>. QED BY <2>4 DEF a, b
<1>. QED BY <1>1, <1>2, <1>3, <1>5, <1>6, <1>7, <1>8

(* Where, among the bits of n items, the encoding of the k-th stands.      *)
LEMMA EncodingsHold ==
  ASSUME batch \in Batches
  PROVE  \A n \in 0 .. Len(batch) : \A k \in 1 .. n :
           Holds(Encodings(n), Len(Encodings(k - 1)), EncodingOf(batch[k]))
<1> DEFINE In(n) == n <= Len(batch) =>
             \A k \in 1 .. n : Holds(Encodings(n), Len(Encodings(k - 1)), EncodingOf(batch[k]))
           Shown == { n \in Nat : In(n) }
<1>1. 0 \in Shown
  OBVIOUS
<1>2. ASSUME NEW n \in Nat, n \in Shown PROVE n + 1 \in Shown
  <2>1. SUFFICES ASSUME n + 1 <= Len(batch), NEW k \in 1 .. n + 1
                 PROVE  Holds(Encodings(n + 1), Len(Encodings(k - 1)), EncodingOf(batch[k]))
    OBVIOUS
  <2> DEFINE a == Encodings(n)
             b == EncodingOf(batch[n + 1])
             c == Encodings(n + 1)
  <2>2. /\ n + 1 \in 1 .. Len(batch) /\ n \in 0 .. Len(batch) /\ (n + 1) - 1 = n
        /\ k \in 1 .. Len(batch) /\ k - 1 \in 0 .. Len(batch) /\ n + 1 \in 0 .. Len(batch)
    BY <2>1, EncodingsGrow
  <2>3. c = a \o b /\ a \in Bits /\ b \in Bits /\ c \in Bits
    BY <2>2, EncodingsGrow
  <2>4. Holds(a \o b, 0, a) /\ Holds(a \o b, Len(a), b)
    <3>. HIDE DEF a, b, c
    <3>. QED BY <2>3, ConcatHolds DEF Bits
  <2>5. CASE k = n + 1
    <3>1. k - 1 = n
      BY <2>5
    <3>. QED BY <2>3, <2>4, <2>5, <3>1, Zenon
  <2>6. CASE k # n + 1
    <3> DEFINE e == EncodingOf(batch[k])
               at == Len(Encodings(k - 1))
    <3>1. k \in 1 .. n /\ n <= Len(batch)
      BY <2>1, <2>6, EncodingsGrow
    <3>2. Holds(a, at, e) /\ e \in Bits /\ at \in Nat
      BY <1>2, <2>2, <3>1, EncodingsGrow
    <3> HIDE DEF a, b, c, e, at
    <3>3. Holds(c, 0, a)
      BY <2>3, <2>4, Zenon
    <3>4. Holds(c, 0 + at, e)
      BY <2>3, <3>2, <3>3, HoldsWithin DEF Bits
    <3>5. 0 + at = at
      BY <3>2
    <3>6. Holds(c, at, e)
      BY <3>4, <3>5, Zenon
    <3>. QED BY <3>6 DEF c, e, at
  <2>. QED BY <2>5, <2>6
<1>3. Nat \subseteq Shown
  <2>. HIDE DEF Shown
  <2>. QED BY <1>1, <1>2, NatSetInduction
<1>4. ASSUME NEW n \in 0 .. Len(batch) PROVE \A k \in 1 .. n :
           Holds(Encodings(n), Len(Encodings(k - 1)), EncodingOf(batch[k]))
  <2>1. n \in Nat /\ n <= Len(batch)
    BY EncodingsGrow
  <2>2. n \in Shown
    BY <1>3, <2>1
  <2>. QED BY <2>1, <2>2
<1>. QED BY <1>4

-----------------------------------------------------------------------------
(* The writer. A codec that refuses its value, or that has a part left     *)
(* that will be refused: an item that is not legible leaves one on the     *)
(* stack until the error is returned.                                      *)
Tainted(frame) == frame.refused \/ Illegible(frame.parts)

(* What holds of the writer in any case: the buffer's position and the     *)
(* room that its serializer sees are one and the same.                     *)
WriterInv ==
  /\ batch \in Batches /\ capacity \in Buffers
  /\ turn \in 1 .. Len(batch) /\ item = batch[turn]
  /\ SP!SerializerInv /\ memory \in Bits
  /\ Free \in Nat
  /\ w_outcome = "Running" => w_room = Free

(* What holds until an element is dropped: the buffer has the encodings of *)
(* the items that were written, all of them legible. With that, it is      *)
(* inductive: Held and Free follow from the bits that the serializer has   *)
(* written and owes (SerializerInv).                                       *)
WholeItems ==
  /\ memory = Encodings(turn - 1)
  /\ \A i \in 1 .. turn - 1 : batch[i] \in Legible
  /\ item \in Legible \/ \E i \in 1 .. Len(w_stack) : Tainted(w_stack[i])
  /\ w_outcome = "Insufficient" => Free = 0 /\ Len(out) < size

WriteInv == WriterInv /\ (~cut => WholeItems)

(* What every step of the writer needs to know of it.                      *)
LEMMA WriterFacts ==
  ASSUME WriterInv
  PROVE  /\ turn \in Nat /\ turn > 0 /\ turn <= Len(batch)
         /\ turn \in 1 .. Len(batch) /\ turn - 1 \in 0 .. Len(batch) /\ turn \in 0 .. Len(batch)
         /\ item \in Nested /\ out \in Bits /\ memory \in Bits /\ Held \in Bits
         /\ Len(out) \in Nat /\ Len(memory) \in Nat
         /\ Reported = Len(memory) + Len(out)
         /\ capacity \in Nat /\ ByteBits \in Nat /\ ByteBits * capacity \in Nat
         /\ w_stack \in Seq(SP!Frames) /\ Len(w_stack) \in Nat
         /\ w_room \in Nat /\ cut \in BOOLEAN
<1>1. batch \in Seq(Nested) /\ Len(batch) \in Nat /\ \A k \in 1 .. Len(batch) : batch[k] \in Nested
  BY EncodingsGrow DEF WriterInv
<1>2. /\ turn \in Nat /\ turn > 0 /\ turn <= Len(batch)
      /\ turn \in 1 .. Len(batch) /\ turn - 1 \in 0 .. Len(batch) /\ turn \in 0 .. Len(batch)
      /\ item \in Nested
  BY <1>1 DEF WriterInv
<1>3. out \in Bits /\ w_stack \in Seq(SP!Frames) /\ w_room \in Nat /\ cut \in BOOLEAN
  BY DEF WriterInv, SP!SerializerInv, SP!TypeOK, Bits
<1>4. Len(w_stack) \in Nat /\ memory \in Bits
  BY <1>3, LenProperties DEF WriterInv
<1>5. /\ Held \in Bits /\ Len(out) \in Nat /\ Len(memory) \in Nat
      /\ Reported = Len(memory) + Len(out)
  BY <1>3, <1>4, ConcatProperties, LenProperties DEF Held, Reported, Bits
<1>6. capacity \in Nat /\ ByteBits \in Nat
  BY ImmediateConstants, FormatConstants DEF WriterInv, FormatConstants
<1>7. ByteBits * capacity \in Nat
  BY <1>6
<1>. QED BY <1>2, <1>3, <1>4, <1>5, <1>6, <1>7

(* A loop turn finds a frame on top.                                       *)
LEMMA WriterTop ==
  ASSUME WriterInv, SP!Running
  PROVE  /\ Len(w_stack) \in 1 .. Len(w_stack) /\ Len(w_stack) \in Nat /\ w_stack # <<>>
         /\ SP!Top = w_stack[Len(w_stack)] /\ SP!Top \in SP!Frames
         /\ SP!Top.bits \in Bits /\ SP!Top.parts \in Seq(Nested) /\ SP!Top.refused \in BOOLEAN
<1>1. w_stack \in Seq(SP!Frames) /\ w_stack # <<>>
  BY DEF WriterInv, SP!SerializerInv, SP!TypeOK, SP!Running
<1>2. Len(w_stack) \in 1 .. Len(w_stack) /\ Len(w_stack) \in Nat
  BY <1>1, EmptySeq
<1>3. SP!Top = w_stack[Len(w_stack)] /\ SP!Top \in SP!Frames
  BY <1>1, <1>2 DEF SP!Top
<1>. QED BY <1>1, <1>2, <1>3 DEF SP!Frames, Bits

(* Bits are written: the position moves by as many as the room shrinks     *)
(* (BitSliceMut, and Drain::drain_into).                                   *)
LEMMA DrainKeepsWriter ==
  ASSUME WriteInv, SP!Drain, UNCHANGED <<batch, capacity, turn, memory>>
  PROVE  WriteInv'
<1>1. /\ SP!SerializerInv' /\ w_room' = w_room - (Len(out') - Len(out)) /\ w_room' \in Nat
      /\ Len(out) \in Nat /\ Len(out') \in Nat /\ Len(out) < Len(out')
  BY WriterAssumptions, SP!DrainKeepsInv DEF WriteInv, WriterInv
<1>2. w_outcome = "Running" /\ UNCHANGED <<item, size, w_outcome, cut>>
  BY DEF SP!Drain, SP!Running
<1>3. /\ memory \in Bits /\ Len(memory) \in Nat /\ ByteBits * capacity \in Nat
      /\ Reported = Len(memory) + Len(out) /\ w_room = ByteBits * capacity - Reported
  BY <1>2, WriterFacts DEF WriteInv, WriterInv, Free
<1>4. out' \in Bits
  BY <1>1 DEF SP!SerializerInv, Bits
<1>5. Reported' = Len(memory) + Len(out')
  BY <1>3, <1>4, ConcatProperties DEF Reported, Held, Bits
<1>6. Free' = w_room'
  <2> DEFINE all == ByteBits * capacity
  <2>1. Free' = all - Reported'
    BY DEF Free
  <2>. HIDE DEF all
  <2>. QED BY <1>1, <1>3, <1>5, <2>1 DEF all
<1>7. WriterInv'
  BY <1>1, <1>2, <1>6 DEF WriteInv, WriterInv
<1>8. ASSUME ~cut' PROVE WholeItems'
  <2>0. ~cut /\ WholeItems
    BY <1>2, <1>8 DEF WriteInv
  <2>1. (Encodings(turn - 1))' = Encodings(turn - 1)
    BY DEF Encodings
  <2>2. ASSUME NEW i \in 1 .. Len(w_stack), Tainted(w_stack[i])
        PROVE  i \in 1 .. Len(w_stack') /\ Tainted(w_stack'[i])
    <3> DEFINE n == Len(w_stack)
               k == IF Len(SP!Top.bits) < w_room THEN Len(SP!Top.bits) ELSE w_room
               b == SubSeq(SP!Top.bits, k + 1, Len(SP!Top.bits))
               g == [SP!Top EXCEPT !.bits = b]
    <3>1. SP!Top = w_stack[n] /\ SP!Top \in SP!Frames /\ n \in 1 .. n
          /\ w_stack \in Seq(SP!Frames) /\ n \in Nat
      BY <1>2, WriterTop, WriterFacts DEF WriteInv, SP!Running
    <3>2. w_stack' = [w_stack EXCEPT ![n] = g]
      BY DEF SP!Drain, SP!WithTop
    <3>3. g.refused = SP!Top.refused /\ g.parts = SP!Top.parts
      <4>. HIDE DEF b
      <4>. QED BY <3>1 DEF SP!Frames
    <3>. HIDE DEF g, n
    <3>4. Len(w_stack') = n /\ w_stack'[i] = IF i = n THEN g ELSE w_stack[i]
      BY <3>1, <3>2 DEF n
    <3>5. Tainted(w_stack'[i])
      BY <2>2, <3>1, <3>3, <3>4 DEF Tainted
    <3>. QED BY <2>2, <3>4, <3>5 DEF n
  <2>3. item' \in Legible \/ \E i \in 1 .. Len(w_stack') : Tainted(w_stack'[i])
    BY <1>2, <2>0, <2>2 DEF WholeItems
  <2>. QED BY <1>2, <2>0, <2>1, <2>3 DEF WholeItems, Tainted, Illegible
<1>. QED BY <1>7, <1>8 DEF WriteInv

(* A step that writes nothing leaves the buffer as it was.                 *)
LEMMA InBuffer ==
  ASSUME WriterInv, SP!SerializerInv', w_outcome' = "Running" => w_outcome = "Running",
         UNCHANGED <<batch, capacity, turn, memory, item, size, w_room, out>>
  PROVE  WriterInv' /\ (Free)' = Free /\ (Encodings(turn - 1))' = Encodings(turn - 1)
<1>1. Free' = Free /\ (Encodings(turn - 1))' = Encodings(turn - 1)
  BY DEF Free, Reported, Held, Encodings
<1>. QED BY <1>1 DEF WriterInv

(* sufficient!: no room is left, and bits are owed (lib.rs:293).           *)
LEMMA InsufficientKeepsWriter ==
  ASSUME WriteInv, SP!Insufficient, UNCHANGED <<batch, capacity, turn, memory>>
  PROVE  WriteInv'
<1>1. SP!SerializerInv'
  BY WriterAssumptions, SP!StepKeepsInv DEF WriteInv, WriterInv, SP!Next, SP!LoopTurn
<1>2. /\ SP!Running /\ SP!Top.bits # <<>> /\ w_room = 0 /\ w_outcome' = "Insufficient"
      /\ UNCHANGED <<item, size, w_stack, w_room, out, cut>>
  BY DEF SP!Insufficient
<1>3. /\ WriterInv' /\ Free' = Free /\ (Encodings(turn - 1))' = Encodings(turn - 1)
  BY <1>1, <1>2, InBuffer DEF WriteInv
<1>4. Free = 0
  BY <1>2 DEF WriteInv, WriterInv, SP!Running
<1>5. ASSUME ~cut PROVE Len(out) < size
  <2>1. Len(SP!Due(w_stack)) > 0
    BY <1>2, WriterAssumptions, SP!OwnBitsAreDue DEF WriteInv, WriterInv
  <2>2. /\ Len(out) \in Nat /\ Len(SP!Due(w_stack)) \in Nat
        /\ Len(out) + Len(SP!Due(w_stack)) = size
    BY <1>5, WriterAssumptions, SP!SizeIsWrittenAndDue DEF WriteInv, WriterInv
  <2>. QED BY <2>1, <2>2
<1>6. ASSUME ~cut' PROVE WholeItems'
  BY <1>2, <1>3, <1>4, <1>5, <1>6 DEF WriteInv, WholeItems, Tainted, Illegible
<1>. QED BY <1>3, <1>6 DEF WriteInv

(* A call ends with Pending or with an error.                              *)
LEMMA StopKeepsWriter ==
  ASSUME WriteInv, SP!Suspend \/ SP!Fail, UNCHANGED <<batch, capacity, turn, memory>>
  PROVE  WriteInv'
<1>1. SP!SerializerInv'
  BY WriterAssumptions, SP!StepKeepsInv DEF WriteInv, WriterInv, SP!Next, SP!LoopTurn
<1>2. /\ w_outcome' \in {"Pending", "Error"}
      /\ UNCHANGED <<item, size, w_stack, w_room, out, cut>>
  BY DEF SP!Suspend, SP!Fail
<1>3. /\ WriterInv' /\ Free' = Free /\ (Encodings(turn - 1))' = Encodings(turn - 1)
  BY <1>1, <1>2, InBuffer DEF WriteInv
<1>4. ASSUME ~cut' PROVE WholeItems'
  BY <1>2, <1>3, <1>4 DEF WriteInv, WholeItems, Tainted, Illegible
<1>. QED BY <1>3, <1>4 DEF WriteInv

(* A new serializer of an item that is not legible is tainted.             *)
LEMMA IllegibleTaints ==
  ASSUME NEW it \in Nested
  PROVE  it \in Legible \/ Tainted(SP!FrameOf(it))
<1>1. ASSUME it \notin Legible PROVE Tainted(SP!FrameOf(it))
  <2>1. S!FrameOf(it).refused \/ Illegible(Own(it).parts)
    BY <1>1, ImmediateConstants
  <2>2. SP!FrameOf(it).parts = Own(it).parts
    BY SameItems DEF SP!FrameOf
  <2>3. S!FrameOf(it) = SP!FrameOf(it)
    BY SameFrames
  <2>. QED BY <2>1, <2>2, <2>3 DEF Tainted
<1>. QED BY <1>1

(* The serializer of the next part: if that is what will be refused, the   *)
(* new frame is tainted, and otherwise the codec still is.                 *)
LEMMA DescendKeepsWriter ==
  ASSUME WriteInv, SP!Descend, UNCHANGED <<batch, capacity, turn, memory>>
  PROVE  WriteInv'
<1>1. SP!SerializerInv'
  BY WriterAssumptions, SP!StepKeepsInv DEF WriteInv, WriterInv, SP!Next, SP!LoopTurn
<1> DEFINE n == Len(w_stack)
           rest == Tail(SP!Top.parts)
           g == [SP!Top EXCEPT !.parts = rest]
           h == SP!FrameOf(Head(SP!Top.parts))
<1>2. /\ SP!Running /\ SP!Top.bits = <<>> /\ SP!Top.parts # <<>>
      /\ w_stack' = Append([w_stack EXCEPT ![n] = g], h)
      /\ UNCHANGED <<item, size, w_room, out, w_outcome, cut>>
  BY DEF SP!Descend, SP!WithTop
<1>3. /\ WriterInv' /\ Free' = Free /\ (Encodings(turn - 1))' = Encodings(turn - 1)
  BY <1>1, <1>2, InBuffer DEF WriteInv
<1>4. /\ n \in 1 .. n /\ n \in Nat /\ w_stack \in Seq(SP!Frames)
      /\ SP!Top = w_stack[n] /\ SP!Top \in SP!Frames /\ SP!Top.parts \in Seq(Nested)
  BY <1>2, WriterTop, WriterFacts DEF WriteInv
<1>5. /\ rest \in Seq(Nested) /\ Head(SP!Top.parts) \in Nested
      /\ Head(SP!Top.parts) = SP!Top.parts[1] /\ Len(rest) = Len(SP!Top.parts) - 1
      /\ Len(SP!Top.parts) \in Nat
      /\ \A j \in 1 .. Len(rest) : rest[j] = SP!Top.parts[j + 1]
  BY <1>2, <1>4
<1>6. g.refused = SP!Top.refused /\ g.parts = rest
  <2>. HIDE DEF rest
  <2>. QED BY <1>4 DEF SP!Frames
<1>7. Tainted(SP!Top) => Tainted(g) \/ Tainted(h)
  <2>1. SUFFICES ASSUME Illegible(SP!Top.parts) PROVE Illegible(rest) \/ Tainted(h)
    BY <1>6 DEF Tainted
  <2>2. PICK j \in 1 .. Len(SP!Top.parts) : SP!Top.parts[j] \notin Legible
    BY <2>1 DEF Illegible
  <2>3. CASE j = 1
    BY <1>5, <2>2, <2>3, IllegibleTaints
  <2>4. CASE j # 1
    <3>1. j - 1 \in 1 .. Len(rest) /\ (j - 1) + 1 = j
      BY <1>5, <2>2, <2>4
    <3>2. rest[j - 1] = SP!Top.parts[j]
      BY <1>5, <3>1
    <3>. HIDE DEF rest
    <3>. QED BY <2>2, <3>1, <3>2 DEF Illegible
  <2>. QED BY <2>3, <2>4
<1> HIDE DEF g, h
<1>8. /\ Len(w_stack') = n + 1 /\ w_stack'[n + 1] = h /\ w_stack'[n] = g
      /\ \A i \in 1 .. n : i # n => w_stack'[i] = w_stack[i]
  <2> DEFINE mid == [w_stack EXCEPT ![n] = g]
  <2>1. mid \in Seq(SP!Frames \cup {g}) /\ Len(mid) = n /\ mid[n] = g
        /\ \A i \in 1 .. n : i # n => mid[i] = w_stack[i]
    <3>. HIDE DEF n
    <3>1. n = Len(w_stack)
      BY DEF n
    <3>. QED BY <1>4, <3>1
  <2>. HIDE DEF mid, n
  <2>2. /\ Len(Append(mid, h)) = n + 1 /\ Append(mid, h)[n + 1] = h
        /\ \A i \in 1 .. n : Append(mid, h)[i] = mid[i]
    BY <1>4, <2>1
  <2>3. w_stack' = Append(mid, h)
    BY <1>2 DEF mid, n
  <2>. QED BY <1>4, <2>1, <2>2, <2>3
<1>9. ASSUME NEW i \in 1 .. n, Tainted(w_stack[i])
      PROVE  \E k \in 1 .. Len(w_stack') : Tainted(w_stack'[k])
  <2>. HIDE DEF n
  <2>1. CASE i = n
    <3>1. Tainted(w_stack'[n]) \/ Tainted(w_stack'[n + 1])
      BY <1>4, <1>7, <1>8, <1>9, <2>1
    <3>2. n \in 1 .. Len(w_stack') /\ n + 1 \in 1 .. Len(w_stack')
      BY <1>4, <1>8
    <3>. QED BY <3>1, <3>2
  <2>2. CASE i # n
    <3>1. i \in 1 .. Len(w_stack') /\ w_stack'[i] = w_stack[i]
      BY <1>4, <1>8, <2>2
    <3>. QED BY <1>9, <3>1
  <2>. QED BY <2>1, <2>2
<1>10. ASSUME ~cut' PROVE WholeItems'
  <2>1. WholeItems
    BY <1>2, <1>10 DEF WriteInv
  <2>2. item' \in Legible \/ \E k \in 1 .. Len(w_stack') : Tainted(w_stack'[k])
    BY <1>2, <1>9, <2>1 DEF WholeItems, n
  <2>. QED BY <1>2, <1>3, <2>1, <2>2 DEF WholeItems, SP!Running, Tainted, Illegible
<1>. QED BY <1>3, <1>10 DEF WriteInv

(* A codec that returns Ready(Ok) is not tainted.                          *)
LEMMA FinishKeepsWriter ==
  ASSUME WriteInv, SP!Finish, UNCHANGED <<batch, capacity, turn, memory>>
  PROVE  WriteInv'
<1>1. SP!SerializerInv'
  BY WriterAssumptions, SP!StepKeepsInv DEF WriteInv, WriterInv, SP!Next, SP!LoopTurn
<1> DEFINE n == Len(w_stack)
<1>2. /\ SP!Running /\ ~SP!Top.refused /\ SP!Top.parts = <<>>
      /\ w_stack' = SubSeq(w_stack, 1, n - 1) /\ w_outcome' \in {"Ready", "Running"}
      /\ UNCHANGED <<item, size, w_room, out, cut>>
  BY DEF SP!Finish, SP!Running
<1>3. /\ WriterInv' /\ Free' = Free /\ (Encodings(turn - 1))' = Encodings(turn - 1)
  BY <1>1, <1>2, InBuffer DEF WriteInv, SP!Running
<1>4. /\ n \in 1 .. n /\ n \in Nat /\ w_stack \in Seq(SP!Frames) /\ SP!Top = w_stack[n]
  BY <1>2, WriterTop, WriterFacts DEF WriteInv
<1>5. ~Tainted(w_stack[n])
  BY <1>2, <1>4 DEF Tainted, Illegible
<1>6. Len(w_stack') = n - 1 /\ \A i \in 1 .. n - 1 : w_stack'[i] = w_stack[i]
  <2>. HIDE DEF n
  <2>1. n = Len(w_stack)
    BY DEF n
  <2>. QED BY <1>2, <1>4, <2>1
<1>7. ASSUME NEW i \in 1 .. n, Tainted(w_stack[i])
      PROVE  \E k \in 1 .. Len(w_stack') : Tainted(w_stack'[k])
  <2>. HIDE DEF n
  <2>1. i \in 1 .. n - 1
    BY <1>4, <1>5, <1>7
  <2>. QED BY <1>6, <1>7, <2>1
<1>8. ASSUME ~cut' PROVE WholeItems'
  <2>1. WholeItems
    BY <1>2, <1>8 DEF WriteInv
  <2>2. item' \in Legible \/ \E k \in 1 .. Len(w_stack') : Tainted(w_stack'[k])
    BY <1>2, <1>7, <2>1 DEF WholeItems, n
  <2>. QED BY <1>2, <1>3, <2>1, <2>2 DEF WholeItems, SP!Running, Tainted, Illegible
<1>. QED BY <1>3, <1>8 DEF WriteInv

(* WriteImmediate::poll: the call is offered all that is free.             *)
LEMMA PollKeepsWriter ==
  ASSUME WriteInv, SP!Poll(Free), UNCHANGED <<batch, capacity, turn, memory>>
  PROVE  WriteInv'
<1>1. SP!SerializerInv'
  BY WriterAssumptions, SP!StepKeepsInv DEF WriteInv, WriterInv, SP!Next
<1>2. /\ w_outcome' = "Running" /\ w_room' = Free /\ w_stack' = SP!Resumed
      /\ cut' = (cut \/ SP!Resumed # w_stack) /\ UNCHANGED <<item, size, out>>
  BY DEF SP!Poll
<1>3. Free' = Free /\ (Encodings(turn - 1))' = Encodings(turn - 1)
  BY <1>2 DEF Free, Reported, Held, Encodings
<1>4. WriterInv'
  BY <1>1, <1>2, <1>3 DEF WriteInv, WriterInv
<1>5. ASSUME ~cut' PROVE WholeItems'
  <2>1. w_stack' = w_stack /\ ~cut
    BY <1>2, <1>5, WriterFacts DEF WriteInv
  <2>. QED BY <1>2, <1>3, <2>1 DEF WriteInv, WholeItems, Tainted, Illegible
<1>. QED BY <1>4, <1>5 DEF WriteInv

(* When an item has been written, the buffer holds all items so far.       *)
LEMMA ReadyHolds ==
  ASSUME WriteInv, w_outcome = "Ready", ~cut
  PROVE  /\ Held = Encodings(turn) /\ \A i \in 1 .. turn : batch[i] \in Legible
<1>1. w_stack = <<>> /\ item \in Legible
  <2>1. w_stack = <<>>
    BY DEF WriteInv, WriterInv, SP!SerializerInv, SP!TypeOK
  <2>. QED BY <2>1 DEF WriteInv, WholeItems
<1>2. out \o SP!Due(<<>>) = EncodingOf(item) /\ out \in Bits
  BY <1>1, WriterFacts DEF WriteInv, WriterInv, SP!SerializerInv
<1>3. SP!Due(<<>>) = <<>>
  <2>1. <<>> \in Seq(SP!Frames)
    OBVIOUS
  <2>. QED BY <2>1, WriterAssumptions, SP!DueTop
<1>4. out = EncodingOf(item)
  <2>1. out \o <<>> = out
    BY <1>2, ConcatEmptySeq DEF Bits
  <2>. QED BY <1>2, <1>3, <2>1, Zenon
<1>5. item = batch[turn] /\ memory = Encodings(turn - 1)
  BY DEF WriteInv, WriterInv, WholeItems
<1>6. Encodings(turn) = Encodings(turn - 1) \o EncodingOf(batch[turn])
  <2>1. turn \in 1 .. Len(batch) /\ batch \in Batches
    BY DEF WriteInv, WriterInv
  <2>. QED BY <2>1, EncodingsGrow
<1>7. Held = Encodings(turn)
  BY <1>4, <1>5, <1>6, Zenon DEF Held
<1>8. ASSUME NEW i \in 1 .. turn PROVE batch[i] \in Legible
  <2>1. i = turn \/ i \in 1 .. turn - 1
    BY WriterFacts DEF WriteInv
  <2>. QED BY <1>1, <1>5, <2>1 DEF WriteInv, WholeItems
<1>. QED BY <1>7, <1>8

(* write_immediate with the next item and the same buffer.                 *)
LEMMA NextKeepsWriter ==
  ASSUME WriteInv, NextWrite
  PROVE  WriteInv'
<1>1. /\ w_outcome = "Ready" /\ turn < Len(batch)
      /\ turn' = turn + 1 /\ memory' = Held
      /\ item' = batch[turn + 1] /\ size' = Len(EncodingOf(item'))
      /\ w_stack' = <<SP!FrameOf(item')>> /\ w_room' = 0 /\ out' = <<>> /\ w_outcome' = "New"
      /\ UNCHANGED <<batch, capacity, cut>>
  BY SameFrames DEF NextWrite
<1>2. /\ turn' \in 1 .. Len(batch) /\ turn' - 1 = turn /\ batch \in Batches
      /\ item' \in Nested
  <2>1. batch \in Batches
    BY DEF WriteInv, WriterInv
  <2>2. turn \in Nat /\ Len(batch) \in Nat /\ turn > 0
    BY <2>1, WriterFacts, EncodingsGrow DEF WriteInv
  <2>3. turn' \in 1 .. Len(batch) /\ turn' - 1 = turn
    BY <1>1, <2>2
  <2>. QED BY <1>1, <2>1, <2>3, EncodingsGrow
<1>3. Free' = Free /\ Free \in Nat /\ Held \in Bits
  <2>1. Held \in Bits /\ Free \in Nat
    BY WriterFacts DEF WriteInv, WriterInv
  <2>2. Held \o <<>> = Held
    BY <2>1, ConcatEmptySeq DEF Bits
  <2>3. Held' = Held
    <3>1. Held' = memory' \o out'
      BY DEF Held
    <3>. QED BY <1>1, <2>2, <3>1, Zenon
  <2>4. Free' = Free
    BY <1>1, <2>3 DEF Free, Reported
  <2>. QED BY <2>1, <2>4
<1>4. SP!SerializerInv'
  <2> DEFINE it == item'
             e == EncodingOf(item')
             frames == <<SP!FrameOf(item')>>
  <2>1. /\ frames \in Seq(SP!Frames) /\ frames # <<>> /\ e \in Bits /\ Len(e) \in Nat
        /\ <<>> \o SP!Due(frames) = e
    <3>. HIDE DEF it
    <3>1. it \in Nested
      BY <1>2 DEF it
    <3>2. /\ <<SP!FrameOf(it)>> \in Seq(SP!Frames) /\ <<SP!FrameOf(it)>> # <<>>
          /\ EncodingOf(it) \in SP!Bits /\ Len(EncodingOf(it)) \in Nat
          /\ <<>> \o SP!Due(<<SP!FrameOf(it)>>) = EncodingOf(it)
      BY <3>1, WriterAssumptions, SP!NewSerializer
    <3>. QED BY <3>2 DEF it, SP!Bits, Bits
  <2>2. w_stack' = frames /\ size' = Len(e)
    BY <1>1
  <2>. HIDE DEF frames, e
  <2>3. SP!TypeOK'
    BY <1>1, <2>1, <2>2, WriterFacts DEF WriteInv, SP!TypeOK
  <2>4. out' \in Seq({0, 1}) /\ out' \o SP!Due(w_stack') = e
    BY <1>1, <2>1, <2>2
  <2>5. item' \in Nested /\ w_stack' \in Seq(SP!Frames) /\ size' = Len(EncodingOf(item'))
        /\ out' \o SP!Due(w_stack') = EncodingOf(item')
    BY <1>1, <1>2, <2>1, <2>2, <2>4 DEF e
  <2>. QED BY <2>3, <2>4, <2>5 DEF SP!SerializerInv
<1>5. WriterInv'
  BY <1>1, <1>2, <1>3, <1>4 DEF WriteInv, WriterInv
<1>6. ASSUME ~cut' PROVE WholeItems'
  <2>1. Held = Encodings(turn) /\ \A i \in 1 .. turn : batch[i] \in Legible
    BY <1>1, <1>6, ReadyHolds
  <2>2. (Encodings(turn - 1))' = Encodings(turn)
    BY <1>1, <1>2 DEF Encodings
  <2>3. item' \in Legible \/ Tainted(SP!FrameOf(item'))
    BY <1>2, IllegibleTaints
  <2>4. item' \in Legible \/ \E i \in 1 .. Len(w_stack') : Tainted(w_stack'[i])
    <3> DEFINE h == SP!FrameOf(item')
    <3>1. w_stack' = <<h>>
      BY <1>1
    <3>. HIDE DEF h
    <3>2. 1 \in 1 .. Len(w_stack') /\ w_stack'[1] = h
      BY <3>1
    <3>. QED BY <2>3, <3>2 DEF h
  <2>. QED BY <1>1, <1>2, <2>1, <2>2, <2>4 DEF WholeItems, Tainted, Illegible
<1>. QED BY <1>5, <1>6 DEF WriteInv

(* The first item, and an empty buffer.                                    *)
LEMMA InitWriter == Init => WriteInv
<1> SUFFICES ASSUME Init PROVE WriteInv
  OBVIOUS
<1>1. /\ batch \in Batches /\ capacity \in Buffers /\ turn = 1 /\ memory = <<>>
      /\ item = batch[1] /\ SP!Init
  BY WriterSteps DEF Init
<1>2. /\ w_stack = <<SP!FrameOf(item)>> /\ w_room = 0 /\ out = <<>> /\ w_outcome = "New"
  BY <1>1 DEF SP!Init
<1>3. SP!SerializerInv
  BY <1>1, WriterAssumptions, SP!InitHasInv
<1>4. 1 \in 1 .. Len(batch) /\ batch[1] \in Nested /\ Encodings(0) = <<>>
  BY <1>1, EncodingsGrow
<1>5. Free \in Nat
  <2>1. Held = <<>> /\ Len(Held) = 0
    BY <1>1, <1>2 DEF Held
  <2>2. capacity \in Nat /\ ByteBits \in Nat
    BY <1>1, ImmediateConstants, FormatConstants
  <2>3. ByteBits * capacity \in Nat
    BY <2>2
  <2> DEFINE all == ByteBits * capacity
  <2>4. Free = all - 0
    BY <2>1 DEF Free, Reported
  <2>. HIDE DEF all
  <2>. QED BY <2>3, <2>4 DEF all
<1>6. WriterInv
  <2>1. memory \in Bits
    BY <1>1 DEF Bits
  <2>. QED BY <1>1, <1>2, <1>3, <1>4, <1>5, <2>1 DEF WriterInv
<1>7. WholeItems
  <2> DEFINE h == SP!FrameOf(item)
  <2>1. 1 \in 1 .. Len(w_stack) /\ w_stack[1] = h
    <3>1. w_stack = <<h>>
      BY <1>2
    <3>. HIDE DEF h
    <3>. QED BY <3>1
  <2>2. item \in Legible \/ Tainted(h)
    BY <1>1, <1>4, IllegibleTaints
  <2>. HIDE DEF h
  <2>3. item \in Legible \/ \E i \in 1 .. Len(w_stack) : Tainted(w_stack[i])
    BY <2>1, <2>2
  <2>4. turn - 1 = 0
    BY <1>1
  <2>. QED BY <1>1, <1>2, <1>4, <2>3, <2>4 DEF WholeItems
<1>. QED BY <1>6, <1>7 DEF WriteInv

(* With that, an item is written whole, or fails for want of room.         *)
LEMMA WriterFitsOrFails ==
  ASSUME WriteInv
  PROVE  FitsOrFails
<1> SUFFICES ASSUME ~cut
      PROVE  /\ w_outcome = "Ready" => Held = Encodings(turn)
             /\ w_outcome = "Insufficient" =>
                  Free = 0 /\ Held # Encodings(turn) /\ IsPrefix(Held, Encodings(turn))
             /\ IsPrefix(Held, Encodings(turn))
  BY DEF FitsOrFails
<1> DEFINE d == SP!Due(w_stack)
           before == Encodings(turn - 1)
           e == EncodingOf(item)
<1>1. w_outcome = "Ready" => Held = Encodings(turn)
  BY ReadyHolds
<1>2. /\ batch \in Batches /\ turn \in 1 .. Len(batch) /\ item = batch[turn]
      /\ memory = before /\ out \o d = e /\ size = Len(e)
      /\ w_outcome = "Insufficient" => Free = 0 /\ Len(out) < size
  BY DEF WriteInv, WriterInv, WholeItems, SP!SerializerInv
<1>3. d \in Bits
  <2>1. w_stack \in Seq(SP!Frames)
    BY WriterFacts DEF WriteInv
  <2>. QED BY <2>1, WriterAssumptions, SP!DueTop DEF SP!Bits, Bits
<1>4. /\ Encodings(turn) = before \o e /\ Len(Encodings(turn)) = Len(before) + Len(e)
      /\ before \in Bits /\ e \in Bits /\ Encodings(turn) \in Bits
  BY <1>2, EncodingsGrow, WriterFacts DEF WriteInv
<1>5. /\ out \in Bits /\ Held \in Bits /\ Held = before \o out
      /\ Len(Held) = Len(before) + Len(out) /\ Len(before) \in Nat /\ Len(out) \in Nat
  BY <1>2, WriterFacts DEF WriteInv, Held, Reported
<1> HIDE DEF d, before, e
<1>6. Encodings(turn) = Held \o d
  <2>1. before \o (out \o d) = (before \o out) \o d
    <3>1. \A x, y, z \in Bits : (x \o y) \o z = x \o (y \o z)
      BY ConcatAssociative DEF Bits
    <3>2. before \in Bits /\ out \in Bits /\ d \in Bits
      BY <1>3, <1>4, <1>5
    <3>. QED BY <3>1, <3>2, ZenonT(60)
  <2>2. out \o d = e /\ Encodings(turn) = before \o e /\ Held = before \o out
    BY <1>2, <1>4, <1>5
  <2>. QED BY <2>1, <2>2
<1>7. IsPrefix(Held, Encodings(turn))
  <2> DEFINE h == Held
  <2>. HIDE DEF h
  <2>1. Holds(h \o d, 0, h)
    BY <1>3, <1>5, ConcatHolds DEF Bits, h
  <2>2. h \o d \in Bits /\ h \in Bits
    BY <1>3, <1>5, ConcatProperties DEF Bits, h
  <2> DEFINE t == h \o d
  <2>. HIDE DEF t
  <2>3. Holds(t, 0, h) /\ t \in Bits /\ Len(h) \in Nat /\ Len(t) \in Nat
    BY <2>1, <2>2, LenProperties DEF t, Bits
  <2>4. Len(h) <= Len(t) /\ \A i \in 1 .. Len(h) : h[i] = t[i]
    <3>1. 0 + Len(h) <= Len(t) /\ \A i \in 1 .. Len(h) : t[0 + i] = h[i]
      BY <2>3 DEF Holds
    <3>2. \A i \in 1 .. Len(h) : 0 + i = i
      BY <2>3
    <3>. QED BY <2>3, <3>1, <3>2
  <2>5. SubSeq(h, 1, Len(h)) = h /\ SubSeq(t, 1, Len(h)) = h
    <3>1. SubSeq(h, 1, Len(h)) = h
      BY <2>2 DEF Bits
    <3>2. /\ SubSeq(t, 1, Len(h)) \in Bits /\ Len(SubSeq(t, 1, Len(h))) = Len(h)
          /\ \A i \in 1 .. Len(h) : SubSeq(t, 1, Len(h))[i] = t[i]
      BY <2>2, <2>3, <2>4 DEF Bits
    <3>. QED BY <2>2, <2>4, <3>1, <3>2, SeqEqual DEF Bits
  <2>6. IsPrefix(h, t)
    BY <2>4, <2>5 DEF IsPrefix
  <2>. QED BY <1>6, <2>6, Zenon DEF h, t
<1>8. w_outcome = "Insufficient" => Free = 0 /\ Held # Encodings(turn)
  <2> SUFFICES ASSUME w_outcome = "Insufficient" PROVE Free = 0 /\ Held # Encodings(turn)
    OBVIOUS
  <2>1. Free = 0 /\ Len(out) < Len(e)
    BY <1>2
  <2>2. Len(e) \in Nat
    BY <1>4, LenProperties DEF Bits
  <2>3. Len(Held) # Len(Encodings(turn))
    <3> DEFINE lb == Len(before)
               lo == Len(out)
               le == Len(e)
    <3>1. /\ Len(Held) = lb + lo /\ Len(Encodings(turn)) = lb + le
          /\ lb \in Nat /\ lo \in Nat /\ le \in Nat /\ lo < le
      BY <1>4, <1>5, <2>1, <2>2
    <3>. HIDE DEF lb, lo, le
    <3>. QED BY <3>1
  <2>. QED BY <2>1, <2>3
<1>. QED BY <1>1, <1>7, <1>8

-----------------------------------------------------------------------------
(* The reader. What holds whatever bits are in the buffer: the writer is   *)
(* through, and a call may read all that is left (ReadImmediate::poll).    *)
ReaderTypes ==
  /\ w_outcome \in {"Ready", "Insufficient", "Error"}
  /\ \E V : values \in Seq(V)
  /\ Len(values) < Written
  /\ DP!TypedInv
  /\ r_outcome = "Running" => pos + r_room = Len(stream.bits)

(* Bits that agree with those of n items, from a place on, as far as both  *)
(* go: behind the items the buffer holds zeros or part of an item, and the *)
(* slice may end early.                                                    *)
StandIn(bits, n, start) ==
  \A j \in 1 .. Len(bits) :
    start + j <= Len(Encodings(n)) => bits[j] = Encodings(n)[start + j]

(* What holds until an element is dropped while it is written: the items   *)
(* before the current one have been read, the next bit of the slice is the *)
(* first one of the current item, and its deserializer is at its place     *)
(* (ReadsInv).                                                             *)
ItemsRead ==
  /\ DP!ReadsInv
  /\ \A i \in 1 .. Len(values) : values[i] = batch[i].value
  /\ stream = [ type |-> batch[Len(values) + 1].type, sent |-> <<batch[Len(values) + 1].value>>,
                size |-> Len(EncodingOf(batch[Len(values) + 1])), bits |-> stream.bits ]
  /\ StandIn(stream.bits, Written, Len(Encodings(Len(values))))
  /\ r_outcome = "Insufficient" => Len(stream.bits) < stream.size

(* This is inductive together with WriteInv.                               *)
ReadInv ==
  /\ r_outcome = "Idle" => values = <<>>
  /\ r_outcome # "Idle" => ReaderTypes /\ (~cut => ItemsRead)

(* How many items are in the buffer, and that all of them are legible.     *)
LEMMA WrittenFacts ==
  ASSUME WriteInv
  PROVE  /\ Written \in Nat /\ Written <= turn /\ Written \in 0 .. Len(batch)
         /\ \A i \in 1 .. Written : i \in 1 .. Len(batch) /\ i - 1 \in 0 .. Len(batch)
         /\ ~cut => \A i \in 1 .. Written : batch[i] \in Legible
<1>1. turn \in Nat /\ turn > 0 /\ turn <= Len(batch) /\ Len(batch) \in Nat
  BY WriterFacts, EncodingsGrow DEF WriteInv, WriterInv
<1>2. Written \in Nat /\ Written <= turn /\ Written \in 0 .. Len(batch)
  BY <1>1 DEF Written
<1>3. ASSUME ~cut, NEW i \in 1 .. Written PROVE batch[i] \in Legible
  <2>1. CASE w_outcome = "Ready"
    BY <1>3, <2>1, ReadyHolds DEF Written
  <2>2. CASE w_outcome # "Ready"
    BY <1>3, <2>2 DEF Written, WriteInv, WholeItems
  <2>. QED BY <2>1, <2>2
<1>4. \A i \in 1 .. Written : i \in 1 .. Len(batch) /\ i - 1 \in 0 .. Len(batch)
  BY <1>1, <1>2
<1>. QED BY <1>2, <1>3, <1>4

(* A new deserializer has its type, whatever the bits.                     *)
LEMMA NewReader ==
  ASSUME batch \in Batches, NEW k \in 1 .. Len(batch), NEW bits \in Bits, Reads(k, bits)
  PROVE  DP!TypedInv' /\ r_outcome' = "New" /\ stream'.bits = bits
<1> DEFINE T == batch[k].type
           f == DP!FrameFor(T)
<1>1. /\ stream' = [ type |-> T, sent |-> <<batch[k].value>>,
                     size |-> Len(EncodingOf(batch[k])), bits |-> bits ]
      /\ r_stack' = <<f>> /\ pos' = 0 /\ r_room' = 0 /\ r_outcome' = "New" /\ result' = <<>>
  BY SameFrames DEF Reads
<1>2. T \in Types
  BY EncodingsGrow, ImmediateConstants
<1>3. DP!SomeFrame(f) /\ DP!Missing(f) \in Nat
  <2>. HIDE DEF T
  <2>. QED BY <1>2, ReaderAssumptions, DP!NewFrame
<1>4. stream'.type = T /\ stream'.bits = bits
  BY <1>1
<1>5. bits \in Seq(DP!Bit) /\ Len(bits) \in Nat
  BY LenProperties DEF Bits, DP!Bit
<1> HIDE DEF f, T
<1>6. r_stack' \in Seq({f}) /\ r_stack' # <<>> /\ \A i \in 1 .. Len(r_stack') : r_stack'[i] = f
  BY <1>1
<1>7. \A i \in 1 .. Len(r_stack') : DP!SomeFrame(r_stack'[i]) /\ DP!Missing(r_stack'[i]) \in Nat
  BY <1>3, <1>6
<1>8. pos' \in Nat /\ r_room' \in Nat /\ pos' <= Len(stream'.bits) /\ r_room' <= Len(stream'.bits)
  BY <1>1, <1>4, <1>5
<1>9. result' \in Seq({})
  BY <1>1
<1>10. DP!TypedInv'
  BY <1>1, <1>2, <1>4, <1>5, <1>6, <1>7, <1>8, <1>9 DEF DP!TypedInv
<1>. QED BY <1>1, <1>4, <1>10

(* Of bits that agree as far as both go, one begins with the other.        *)
LEMMA Comparable ==
  ASSUME NEW a \in Bits, NEW b \in Bits,
         \A j \in 1 .. Len(b) : j <= Len(a) => b[j] = a[j]
  PROVE  IsPrefix(a, b) \/ IsPrefix(b, a)
<1>1. Len(a) \in Nat /\ Len(b) \in Nat
  BY LenProperties DEF Bits
<1>2. \A s, t \in Bits : IsPrefix(s, t) <=> DP!IsPrefix(s, t)
  BY DEF IsPrefix, DP!IsPrefix
<1>3. /\ DP!IsPrefix(a, b) <=> Len(a) <= Len(b) /\ \A i \in 1 .. Len(a) : a[i] = b[i]
      /\ DP!IsPrefix(b, a) <=> Len(b) <= Len(a) /\ \A i \in 1 .. Len(b) : b[i] = a[i]
  BY ReaderAssumptions, DP!PrefixFacts DEF Bits
<1>4. CASE Len(a) <= Len(b)
  <2>1. \A i \in 1 .. Len(a) : a[i] = b[i]
    BY <1>1, <1>4
  <2>. QED BY <1>2, <1>3, <1>4, <2>1
<1>5. CASE Len(b) <= Len(a)
  <2>1. \A i \in 1 .. Len(b) : b[i] = a[i]
    BY <1>1, <1>5
  <2>. QED BY <1>2, <1>3, <1>5, <2>1
<1>. QED BY <1>1, <1>4, <1>5

(* A new deserializer of an item that is there, or the beginning of it.    *)
LEMMA NewReaderOfItem ==
  ASSUME NEW it \in Legible, NEW bits \in Bits,
         \A j \in 1 .. Len(bits) : j <= Len(EncodingOf(it)) => bits[j] = EncodingOf(it)[j],
         stream' = [ type |-> it.type, sent |-> <<it.value>>,
                     size |-> Len(EncodingOf(it)), bits |-> bits ],
         r_stack' = <<DP!FrameFor(it.type)>>, pos' = 0, r_room' = 0, r_outcome' = "New",
         result' = <<>>
  PROVE  DP!ReadsInv'
<1> DEFINE e == EncodingOf(it)
           s == [type |-> it.type, sent |-> <<it.value>>, size |-> Len(e), bits |-> bits]
<1>1. e \in Bits
  BY ItemsAreEncoded, ImmediateConstants DEF IsEncoded, Bits
<1>2. IsPrefix(e, bits) \/ IsPrefix(bits, e)
  <2>. HIDE DEF e
  <2>1. \A j \in 1 .. Len(bits) : j <= Len(e) => bits[j] = e[j]
    BY DEF e
  <2>. QED BY <1>1, <2>1, Comparable
<1>3. s \in Slices
  <2>1. bits \in { b \in Seq({0, 1}) : IsPrefix(e, b) \/ IsPrefix(b, e) }
    BY <1>2 DEF Bits
  <2>2. s \in { [type |-> it.type, sent |-> <<it.value>>, size |-> Len(EncodingOf(it)), bits |-> b] :
                  b \in { x \in Seq({0, 1}) : \/ IsPrefix(EncodingOf(it), x)
                                              \/ IsPrefix(x, EncodingOf(it)) } }
    BY <2>1
  <2>. QED BY <2>2, Zenon DEF Slices
<1>4. s.sent # <<>> /\ s.type = it.type /\ s.bits = bits
  OBVIOUS
<1> HIDE DEF s
<1>5. \E sources : DP!Placed(s, sources, <<DP!FrameFor(s.type)>>, 0)
  BY <1>3, <1>4, ReaderAssumptions, DP!SentCarries, DP!InitReads
<1>6. stream' = s /\ stream' \in Slices
  BY <1>3 DEF s
<1>7. \E sources : DP!Placed(stream', sources, r_stack', pos')
  BY <1>4, <1>5, <1>6
<1>8. /\ pos' \in Nat /\ r_room' \in Nat /\ pos' <= Len(stream'.bits) /\ r_room' <= Len(stream'.bits)
      /\ pos' + r_room' <= Len(stream'.bits)
  <2>1. Len(stream'.bits) \in Nat
    BY <1>4, <1>6, LenProperties DEF Bits
  <2>. QED BY <2>1
<1>9. DP!ReadsInPlace'
  BY <1>7, <1>8 DEF DP!ReadsInPlace
<1>. QED BY <1>6, <1>9 DEF DP!ReadsInv

(* Where the k-th of n items has its encoding, and the next item begins.   *)
LEMMA ItemStands ==
  ASSUME batch \in Batches, NEW n \in 0 .. Len(batch), NEW k \in 1 .. n, NEW bits \in Bits,
         StandIn(bits, n, Len(Encodings(k - 1)))
  PROVE  LET e == EncodingOf(batch[k])
         IN  /\ \A j \in 1 .. Len(bits) : j <= Len(e) => bits[j] = e[j]
             /\ Len(Encodings(k)) = Len(Encodings(k - 1)) + Len(e)
             /\ Len(Encodings(k - 1)) \in Nat /\ Len(e) \in Nat /\ e \in Bits
<1> DEFINE e == EncodingOf(batch[k])
           start == Len(Encodings(k - 1))
           whole == Encodings(n)
<1>1. n \in Nat /\ k \in 1 .. Len(batch) /\ k - 1 \in 0 .. Len(batch)
  BY EncodingsGrow
<1>2. /\ start \in Nat /\ Len(e) \in Nat /\ e \in Bits /\ Len(whole) \in Nat
      /\ Len(Encodings(k)) = start + Len(e)
  BY <1>1, EncodingsGrow
<1>3. Holds(whole, start, e)
  BY EncodingsHold
<1>4. \A j \in 1 .. Len(bits) : start + j <= Len(whole) => bits[j] = whole[start + j]
  BY DEF StandIn
<1>5. Len(bits) \in Nat
  BY LenProperties DEF Bits
<1> HIDE DEF e, start, whole
<1>6. ASSUME NEW j \in 1 .. Len(bits), j <= Len(e) PROVE bits[j] = e[j]
  <2>1. start + Len(e) <= Len(whole) /\ \A i \in 1 .. Len(e) : whole[start + i] = e[i]
    BY <1>3 DEF Holds
  <2>2. j \in 1 .. Len(e) /\ start + j <= Len(whole)
    BY <1>2, <1>5, <1>6, <2>1
  <2>. QED BY <1>4, <2>1, <2>2
<1>7. \A j \in 1 .. Len(bits) : j <= Len(e) => bits[j] = e[j]
  BY <1>6
<1>. QED BY <1>2, <1>7 DEF e, start

(* read_immediate of the k-th item: the invariant holds of it, if its bits *)
(* stand where its encoding was written.                                   *)
LEMMA ReadBegins ==
  ASSUME WriteInv, w_outcome \in {"Ready", "Insufficient", "Error"},
         NEW k \in 1 .. Written, NEW bits \in Bits, Reads(k, bits),
         UNCHANGED <<batch, capacity, turn, memory, writing>>,
         NEW V, values' \in Seq(V), Len(values') = k - 1,
         ~cut => /\ StandIn(bits, Written, Len(Encodings(k - 1)))
                 /\ \A i \in 1 .. k - 1 : values'[i] = batch[i].value
  PROVE  ReadInv'
<1>1. batch \in Batches /\ k \in 1 .. Len(batch) /\ Written \in Nat /\ Written \in 0 .. Len(batch)
  BY WrittenFacts DEF WriteInv, WriterInv
<1>2. DP!TypedInv' /\ r_outcome' = "New" /\ stream'.bits = bits
  BY <1>1, NewReader
<1>3. UNCHANGED <<batch, w_outcome, cut, turn>> /\ Written' = Written
      /\ \A i : (Encodings(i))' = Encodings(i)
  BY DEF writing, Written, Encodings
<1>4. Len(values') < Written'
  BY <1>1, <1>3
<1>5. ReaderTypes'
  BY <1>2, <1>3, <1>4 DEF ReaderTypes
<1>6. ASSUME ~cut' PROVE ItemsRead'
  <2> DEFINE it == batch[k]
  <2>1. /\ StandIn(bits, Written, Len(Encodings(k - 1)))
        /\ \A i \in 1 .. k - 1 : values'[i] = batch[i].value
        /\ it \in Legible
    BY <1>3, <1>6, WrittenFacts
  <2>2. \A j \in 1 .. Len(bits) : j <= Len(EncodingOf(it)) => bits[j] = EncodingOf(it)[j]
    BY <1>1, <2>1, ItemStands
  <2>3. /\ stream' = [ type |-> it.type, sent |-> <<it.value>>,
                       size |-> Len(EncodingOf(it)), bits |-> bits ]
        /\ r_stack' = <<DP!FrameFor(it.type)>> /\ pos' = 0 /\ r_room' = 0 /\ r_outcome' = "New"
        /\ result' = <<>>
    BY SameFrames DEF Reads
  <2>4. DP!ReadsInv'
    <3>. HIDE DEF it
    <3>. QED BY <2>1, <2>2, <2>3, NewReaderOfItem
  <2>5. Len(values') = k - 1 /\ Len(values') + 1 = k
    BY <1>1
  <2>6. StandIn(stream.bits, Written, Len(Encodings(Len(values))))'
    BY <1>2, <1>3, <2>1, <2>5 DEF StandIn
  <2>7. stream' = [ type |-> batch'[Len(values') + 1].type, sent |-> <<batch'[Len(values') + 1].value>>,
                    size |-> Len(EncodingOf(batch'[Len(values') + 1])), bits |-> stream'.bits ]
    BY <1>2, <1>3, <2>3, <2>5
  <2>8. \A i \in 1 .. Len(values') : values'[i] = batch'[i].value
    BY <1>3, <2>1, <2>5
  <2>. QED BY <1>2, <2>4, <2>6, <2>7, <2>8 DEF ItemsRead
<1>. QED BY <1>2, <1>5, <1>6 DEF ReadInv

(* The buffer begins with the items that have been written.                *)
LEMMA BufferBegins ==
  ASSUME WriteInv, ~cut
  PROVE  Holds(Held, 0, Encodings(Written))
<1>1. CASE w_outcome = "Ready"
  <2>1. Held = Encodings(Written) /\ Held \in Bits
    BY <1>1, ReadyHolds, WriterFacts DEF Written, WriteInv
  <2> DEFINE h == Held
  <2>2. Len(h) \in Nat
    BY <2>1, LenProperties DEF Bits
  <2>3. Holds(h, 0, h)
    <3>. HIDE DEF h
    <3>1. 0 + Len(h) <= Len(h) /\ \A j \in 1 .. Len(h) : 0 + j = j
      BY <2>2
    <3>. QED BY <3>1 DEF Holds
  <2>. HIDE DEF h
  <2>4. h = Encodings(Written)
    BY <2>1 DEF h
  <2>. QED BY <2>3, <2>4 DEF h
<1>2. CASE w_outcome # "Ready"
  <2>1. Held = Encodings(Written) \o out
    BY <1>2 DEF WriteInv, WholeItems, Written, Held
  <2>2. Encodings(Written) \in Bits /\ out \in Bits
    BY WrittenFacts, WriterFacts, EncodingsGrow DEF WriteInv, WriterInv
  <2> DEFINE a == Encodings(Written)
  <2>. HIDE DEF a
  <2>3. Holds(a \o out, 0, a)
    BY <2>2, ConcatHolds DEF a, Bits
  <2>. QED BY <2>1, <2>3 DEF a
<1>. QED BY <1>1, <1>2

(* read_immediate of the first item, from the first bytes of the buffer.   *)
LEMMA StartKeepsReader ==
  ASSUME WriteInv, ReadInv, NEW n \in Buffers, StartRead(n)
  PROVE  ReadInv'
<1> DEFINE zeros == [i \in 1 .. Free |-> 0]
           all == Held \o zeros
           m == ByteBits * n
           bits == SubSeq(all, 1, m)
<1>1. /\ r_outcome = "Idle" /\ n <= capacity /\ w_outcome \in {"Ready", "Insufficient", "Error"}
      /\ Written > 0 /\ Reads(1, bits)
      /\ UNCHANGED <<batch, capacity, turn, memory, writing, values>>
  BY DEF StartRead
<1>2. values = <<>>
  BY <1>1 DEF ReadInv
<1>3. /\ Held \in Bits /\ Free \in Nat /\ capacity \in Nat /\ ByteBits \in Nat /\ n \in Nat
      /\ Len(Held) \in Nat /\ ByteBits * capacity \in Nat
  <2>1. Held \in Bits /\ Free \in Nat /\ capacity \in Nat /\ ByteBits * capacity \in Nat
        /\ ByteBits \in Nat /\ n \in Nat
    BY WriterFacts, ImmediateConstants DEF WriteInv, WriterInv
  <2>. QED BY <2>1, LenProperties DEF Bits
<1>4. zeros \in Bits /\ Len(zeros) = Free
  BY <1>3 DEF Bits
<1>5. /\ all \in Bits /\ Len(all) = Len(Held) + Free
      /\ \A j \in 1 .. Len(Held) : all[j] = Held[j]
  <2>. HIDE DEF zeros
  <2>. QED BY <1>3, <1>4, ConcatProperties, ConcatParts DEF Bits
<1>6. Len(all) = ByteBits * capacity
  <2> DEFINE c == ByteBits * capacity
  <2>1. Free = c - Len(Held)
    BY DEF Free, Reported
  <2>. HIDE DEF c, all
  <2>. QED BY <1>3, <1>5, <2>1 DEF c
<1>7. m \in Nat /\ m <= ByteBits * capacity
  <2>1. \A a, b, c \in Nat : a <= b => c * a \in Nat /\ c * a <= c * b
    OBVIOUS
  <2>. QED BY <1>1, <1>3, <2>1
<1> HIDE DEF zeros, m
<1>8. bits \in Bits /\ Len(bits) = m /\ \A j \in 1 .. m : bits[j] = all[j]
  <2>. HIDE DEF all
  <2>1. m <= Len(all) /\ all \in Seq({0, 1})
    BY <1>5, <1>6, <1>7 DEF Bits
  <2>2. 1 \in 1 .. Len(all) + 1
    BY <1>5, LenProperties DEF Bits
  <2>. QED BY <1>7, <2>1 DEF Bits
<1>9. ASSUME ~cut PROVE StandIn(bits, Written, Len(Encodings(0)))
  <2>1. Encodings(0) = <<>> /\ Len(Encodings(0)) = 0
    BY EncodingsGrow DEF WriteInv, WriterInv
  <2> DEFINE e == Encodings(Written)
  <2>2. Holds(Held, 0, e) /\ Len(e) \in Nat
    BY <1>9, BufferBegins, EncodingsGrow, WrittenFacts DEF WriteInv, WriterInv
  <2>. HIDE DEF e, bits, all
  <2>3. ASSUME NEW j \in 1 .. Len(bits), 0 + j <= Len(e) PROVE bits[j] = e[0 + j]
    <3>1. 0 + j = j /\ j \in 1 .. Len(e) /\ j \in 1 .. m
      BY <1>7, <1>8, <2>2, <2>3
    <3>2. Len(e) <= Len(Held) /\ Held[0 + j] = e[j]
      <4>1. 0 + Len(e) <= Len(Held) /\ Held[0 + j] = e[j]
        BY <2>2, <3>1 DEF Holds
      <4>. QED BY <2>2, <4>1
    <3>3. bits[j] = all[j] /\ all[j] = Held[j]
      BY <1>3, <1>5, <1>8, <2>2, <3>1, <3>2
    <3>. QED BY <3>1, <3>2, <3>3
  <2>. QED BY <2>1, <2>3 DEF StandIn, e
<1> HIDE DEF bits, all
<1>10. 1 \in 1 .. Written /\ 1 - 1 = 0
  BY <1>1, WrittenFacts
<1>11. values' \in Seq({}) /\ Len(values') = 0
  BY <1>1, <1>2
<1>12. ~cut => /\ StandIn(bits, Written, Len(Encodings(1 - 1)))
               /\ \A i \in 1 .. 1 - 1 : values'[i] = batch[i].value
  BY <1>9, <1>10
<1>13. UNCHANGED <<batch, capacity, turn, memory, writing>>
  BY <1>1
<1>. QED BY <1>1, <1>8, <1>10, <1>11, <1>12, <1>13, ReadBegins

(* read_immediate of the next item, from where the one before it ended: at *)
(* the bit behind its encoding, wherever that is in a byte.                *)
LEMMA NextReadKeepsReader ==
  ASSUME WriteInv, ReadInv, NextRead
  PROVE  ReadInv'
<1> DEFINE k == Len(Received) + 1
           old == stream.bits
           bits == SubSeq(old, pos + 1, Len(old))
<1>1. /\ r_outcome = "Ready" /\ Len(Received) < Written /\ values' = Received
      /\ Reads(k, bits) /\ UNCHANGED <<batch, capacity, turn, memory, writing>>
  BY DEF NextRead
<1>2. ReaderTypes /\ (~cut => ItemsRead)
  BY <1>1 DEF ReadInv
<1>3. /\ old \in Bits /\ pos \in Nat /\ pos <= Len(old) /\ Len(old) \in Nat
      /\ w_outcome \in {"Ready", "Insufficient", "Error"}
  <2>1. old \in Bits /\ pos \in Nat /\ pos <= Len(old)
        /\ w_outcome \in {"Ready", "Insufficient", "Error"}
    BY <1>2 DEF ReaderTypes, DP!TypedInv, DP!Bit, Bits
  <2>. QED BY <2>1, LenProperties DEF Bits
<1>4. PICK V : values \in Seq(V)
  BY <1>2 DEF ReaderTypes
<1>5. PICK W : result \in Seq(W)
  BY <1>2 DEF ReaderTypes, DP!TypedInv
<1>6. /\ values' \in Seq(V \cup W) /\ Len(Received) \in Nat
      /\ Len(Received) = Len(values) + Len(result) /\ Len(values) \in Nat /\ Len(result) \in Nat
      /\ \A i \in 1 .. Len(values) : Received[i] = values[i]
      /\ \A i \in 1 .. Len(result) : Received[Len(values) + i] = result[i]
  <2>1. values \in Seq(V \cup W) /\ result \in Seq(V \cup W)
    BY <1>4, <1>5
  <2>2. values \o result \in Seq(V \cup W)
    BY <2>1, ConcatProperties
  <2>3. /\ Len(values \o result) = Len(values) + Len(result)
        /\ Len(values) \in Nat /\ Len(result) \in Nat
        /\ \A i \in 1 .. Len(values) : (values \o result)[i] = values[i]
        /\ \A i \in 1 .. Len(result) : (values \o result)[Len(values) + i] = result[i]
    BY <2>1, ConcatParts
  <2>4. Len(values) + Len(result) \in Nat
    BY <2>3
  <2>. QED BY <1>1, <2>2, <2>3, <2>4 DEF Received
<1>7. k \in 1 .. Written /\ Len(values') = k - 1 /\ k \in 1 .. Len(batch)
  BY <1>1, <1>6, WrittenFacts
<1>8. /\ bits \in Bits /\ Len(bits) = Len(old) - pos
      /\ \A j \in 1 .. Len(bits) : bits[j] = old[pos + j]
  <2>. HIDE DEF old
  <2>1. pos + 1 \in Nat /\ pos + 1 \in 1 .. Len(old) + 1
    BY <1>3
  <2>2. bits \in Bits /\ Len(bits) = Len(old) - pos
    BY <1>3, <2>1 DEF Bits
  <2>3. \A j \in 1 .. Len(old) - pos : bits[j] = old[pos + j]
    BY <1>3, <2>1 DEF Bits
  <2>. QED BY <2>2, <2>3
<1>9. ASSUME ~cut
      PROVE  /\ StandIn(bits, Written, Len(Encodings(k - 1)))
             /\ \A i \in 1 .. k - 1 : values'[i] = batch[i].value
  <2> DEFINE l == Len(values) + 1
             e == EncodingOf(batch[l])
             start == Len(Encodings(l - 1))
             whole == Encodings(Written)
  <2>1. ItemsRead
    BY <1>2, <1>9
  <2>2. /\ stream = [ type |-> batch[l].type, sent |-> <<batch[l].value>>,
                      size |-> Len(e), bits |-> stream.bits ]
        /\ \A i \in 1 .. Len(values) : values[i] = batch[i].value
        /\ StandIn(old, Written, Len(Encodings(Len(values)))) /\ DP!ReadsInv
    BY <2>1 DEF ItemsRead
  <2>3. stream.sent = <<batch[l].value>> /\ stream.size = Len(e) /\ stream.sent # <<>>
    <3>. HIDE DEF l, e
    <3>. QED BY <2>2
  <2>4. result = <<batch[l].value>> /\ pos = Len(e)
    BY <1>1, <2>2, <2>3 DEF DP!ReadsInv, DP!ReadsInPlace
  <2>5. Len(result) = 1 /\ k - 1 = l /\ l - 1 = Len(values) /\ l \in 1 .. Written
    <3>1. Len(result) = 1 /\ result[1] = batch[l].value
      <4>. HIDE DEF l
      <4>. QED BY <2>4
    <3>2. Len(Received) = l
      BY <1>6, <3>1
    <3>. QED BY <1>1, <1>6, <3>1, <3>2, WrittenFacts
  <2>6. /\ Len(Encodings(l)) = start + Len(e) /\ start \in Nat /\ Len(e) \in Nat
        /\ Len(whole) \in Nat
    <3>1. batch \in Batches /\ Written \in 0 .. Len(batch) /\ StandIn(old, Written, Len(Encodings(l - 1)))
      BY <2>2, <2>5, WrittenFacts DEF WriteInv, WriterInv
    <3>. HIDE DEF l, old
    <3>. QED BY <1>3, <2>5, <3>1, ItemStands, EncodingsGrow
  <2>7. StandIn(bits, Written, Len(Encodings(k - 1)))
    <3>1. \A j \in 1 .. Len(old) : start + j <= Len(whole) => old[j] = whole[start + j]
      BY <2>2, <2>5 DEF StandIn
    <3>2. Len(Encodings(k - 1)) = start + pos
      <4>. HIDE DEF l, start, e, k
      <4>. QED BY <2>4, <2>5, <2>6
    <3>. HIDE DEF start, whole, old, bits
    <3>3. ASSUME NEW j \in 1 .. Len(bits), (start + pos) + j <= Len(whole)
          PROVE  bits[j] = whole[(start + pos) + j]
      <4>1. pos + j \in 1 .. Len(old) /\ start + (pos + j) = (start + pos) + j
        BY <1>3, <1>8, <2>6
      <4>. QED BY <1>8, <3>1, <3>3, <4>1
    <3>. QED BY <3>2, <3>3 DEF StandIn, whole
  <2>8. ASSUME NEW i \in 1 .. k - 1 PROVE values'[i] = batch[i].value
    <3>1. CASE i \in 1 .. Len(values)
      BY <1>1, <1>6, <2>2, <3>1
    <3>2. CASE i \notin 1 .. Len(values)
      <4>1. i = Len(values) + 1 /\ 1 \in 1 .. Len(result)
        BY <1>6, <2>5, <3>2
      <4>2. Received[Len(values) + 1] = result[1]
        BY <1>6, <4>1
      <4>3. result[1] = batch[l].value
        BY <2>4
      <4>. QED BY <1>1, <4>1, <4>2, <4>3
    <3>. QED BY <3>1, <3>2
  <2>. QED BY <2>7, <2>8
<1>10. UNCHANGED <<batch, capacity, turn, memory, writing>> /\ values' \in Seq(V \cup W)
  BY <1>1, <1>6
<1> HIDE DEF k, bits
<1>. QED BY <1>1, <1>3, <1>7, <1>8, <1>9, <1>10, ReadBegins

(* A turn of the deserializer's loop, or a call of it.                     *)
LEMMA ReadStepKeepsReader ==
  ASSUME WriteInv, ReadInv, r_outcome # "Idle", [DP!Next]_(DP!vars),
         UNCHANGED <<batch, capacity, turn, memory, writing, values>>,
         r_outcome' = "Running" => pos' + r_room' = Len(stream'.bits),
         ~cut /\ r_outcome' = "Insufficient" => Len(stream.bits) < stream.size
  PROVE  ReadInv'
<1>1. ReaderTypes /\ (~cut => ItemsRead)
  BY DEF ReadInv
<1>2. /\ UNCHANGED <<batch, w_outcome, cut, turn, values, stream>> /\ Written' = Written
      /\ \A i : (Encodings(i))' = Encodings(i)
      /\ r_outcome' # "Idle"
  <2>1. UNCHANGED stream
    BY DEF DP!Next, DP!vars, DP!LoopTurn, DP!Fill, DP!Insufficient, DP!Suspend, DP!Descend,
           DP!Finish, DP!Fail, DP!Panic, DP!Poll
  <2>2. r_outcome' # "Idle"
    BY DEF DP!Next, DP!vars, DP!LoopTurn, DP!Fill, DP!Insufficient, DP!Suspend, DP!Descend,
           DP!Finish, DP!Fail, DP!Panic, DP!Poll, DP!Running
  <2>. QED BY <2>1, <2>2 DEF writing, Written, Encodings
<1>3. DP!TypedInv'
  BY <1>1, ReaderAssumptions, DP!StepKeepsTypes DEF ReaderTypes
<1>4. ReaderTypes'
  BY <1>1, <1>2, <1>3 DEF ReaderTypes
<1>5. ASSUME ~cut' PROVE ItemsRead'
  <2>1. ItemsRead
    BY <1>1, <1>2, <1>5
  <2>2. DP!ReadsInv'
    BY <2>1, ReaderAssumptions, DP!StepKeepsReads DEF ItemsRead
  <2>3. StandIn(stream.bits, Written, Len(Encodings(Len(values))))'
    BY <1>2, <2>1 DEF ItemsRead, StandIn
  <2>. QED BY <1>2, <1>5, <2>1, <2>2, <2>3 DEF ItemsRead
<1>. QED BY <1>2, <1>4, <1>5 DEF ReadInv

(* ReadImmediate::poll: all bits that are left are there.                  *)
LEMMA ReadPollKeepsReader ==
  ASSUME WriteInv, ReadInv, ReadPoll
  PROVE  ReadInv'
<1> DEFINE r == Len(stream.bits) - pos
<1>1. /\ r_outcome \in {"New", "Pending"} /\ DP!Poll(r)
      /\ UNCHANGED <<batch, capacity, turn, memory, writing, values>>
  BY ReaderSteps DEF ReadPoll
<1>2. ReaderTypes
  BY <1>1 DEF ReadInv
<1>3. pos \in Nat /\ Len(stream.bits) \in Nat /\ pos <= Len(stream.bits)
  <2>1. stream.bits \in Seq(DP!Bit) /\ pos \in Nat /\ pos <= Len(stream.bits)
    BY <1>2 DEF ReaderTypes, DP!TypedInv
  <2>. QED BY <2>1, LenProperties
<1>4. r \in Nat /\ pos + r = Len(stream.bits)
  BY <1>3
<1>5. r_outcome' = "Running" /\ r_room' = r /\ UNCHANGED <<stream, pos>>
  BY <1>1 DEF DP!Poll
<1>6. DP!Next
  BY <1>1, <1>4 DEF DP!Next
<1> HIDE DEF r
<1>. QED BY <1>1, <1>4, <1>5, <1>6, ReadStepKeepsReader

(* A loop turn reads on, and none is left only if the slice is too short:  *)
(* what a codec misses is among the bits of its item (PlacedRoom).         *)
LEMMA ReadTurnKeepsReader ==
  ASSUME WriteInv, ReadInv, ReadTurn
  PROVE  ReadInv'
<1>1. DP!LoopTurn /\ UNCHANGED <<batch, capacity, turn, memory, writing, values>>
  BY ReaderSteps DEF ReadTurn
<1>2. r_outcome = "Running" /\ DP!Next
  BY <1>1 DEF DP!LoopTurn, DP!Fill, DP!Insufficient, DP!Suspend, DP!Descend,
           DP!Finish, DP!Fail, DP!Panic, DP!Running, DP!Next
<1>3. ReaderTypes /\ (~cut => ItemsRead)
  BY <1>2 DEF ReadInv
<1>4. /\ pos \in Nat /\ r_room \in Nat /\ Len(stream.bits) \in Nat
      /\ pos + r_room = Len(stream.bits) /\ r_stack # <<>>
  <2>1. /\ stream.bits \in Seq(DP!Bit) /\ pos \in Nat /\ r_room \in Nat
        /\ pos + r_room = Len(stream.bits) /\ r_stack # <<>>
    BY <1>2, <1>3 DEF ReaderTypes, DP!TypedInv
  <2>. QED BY <2>1, LenProperties
<1>5. DP!Missing(DP!Top) \in Nat
  BY <1>3, <1>4, ReaderAssumptions, DP!TopTyped DEF ReaderTypes
<1>6. r_outcome' = "Running" => pos' + r_room' = Len(stream'.bits)
  <2>1. CASE DP!Fill
    <3> DEFINE missing == DP!Missing(DP!Top)
               k == IF missing < r_room THEN missing ELSE r_room
    <3>1. pos' = pos + k /\ r_room' = r_room - k /\ stream' = stream
      BY <2>1 DEF DP!Fill
    <3>2. missing \in Nat
      BY <1>5
    <3>. HIDE DEF missing
    <3>3. k \in Nat
      BY <1>4, <3>2
    <3>. HIDE DEF k
    <3>. QED BY <1>4, <3>1, <3>3
  <2>2. CASE ~DP!Fill
    <3>1. r_outcome' = "Running" => UNCHANGED <<stream, pos, r_room>>
      BY <1>1, <2>2 DEF DP!LoopTurn, DP!Insufficient, DP!Suspend, DP!Descend,
           DP!Finish, DP!Fail, DP!Panic
    <3>. QED BY <1>4, <3>1
  <2>. QED BY <2>1, <2>2
<1>7. ASSUME ~cut, r_outcome' = "Insufficient" PROVE Len(stream.bits) < stream.size
  <2>1. DP!Insufficient
    BY <1>1, <1>2, <1>7 DEF DP!LoopTurn, DP!Fill, DP!Insufficient, DP!Suspend, DP!Descend,
           DP!Finish, DP!Fail, DP!Panic
  <2>2. r_room = 0 /\ DP!Missing(DP!Top) > 0
    BY <2>1 DEF DP!Insufficient
  <2>3. stream \in Slices /\ stream.sent # <<>> /\ DP!ReadsInPlace
    <3> DEFINE it == batch[Len(values) + 1]
    <3>1. /\ stream = [ type |-> it.type, sent |-> <<it.value>>,
                        size |-> Len(EncodingOf(it)), bits |-> stream.bits ]
          /\ DP!ReadsInv
      BY <1>3, <1>7 DEF ItemsRead
    <3>. HIDE DEF it
    <3>2. stream.sent = <<it.value>>
      BY <3>1
    <3>3. stream.sent # <<>>
      BY <3>2
    <3>. QED BY <3>1, <3>3 DEF DP!ReadsInv
  <2>4. PICK sources : DP!Placed(stream, sources, r_stack, pos)
    BY <1>2, <2>3 DEF DP!ReadsInPlace
  <2>5. ~DP!HeaderDone(DP!Top) /\ DP!Top = r_stack[Len(r_stack)]
    BY <2>2 DEF DP!HeaderDone, DP!Top
  <2>6. pos + DP!Missing(DP!Top) <= stream.size
    BY <2>3, <2>4, <2>5, ReaderAssumptions, DP!SentCarries, DP!PlacedRoom
  <2>7. stream.size \in Nat
    BY <2>3, ReaderAssumptions, DP!SentCarries, DP!StreamFacts
  <2> DEFINE missing == DP!Missing(DP!Top)
             size1 == stream.size
             len == Len(stream.bits)
  <2>8. missing \in Nat /\ missing > 0 /\ pos + missing <= size1 /\ size1 \in Nat
        /\ pos + 0 = len /\ pos \in Nat /\ len \in Nat
    BY <1>4, <1>5, <2>2, <2>6, <2>7
  <2>9. len < size1
    <3>. HIDE DEF missing, size1, len
    <3>. QED BY <2>8
  <2>. QED BY <2>9
<1>8. [DP!Next]_(DP!vars) /\ r_outcome # "Idle"
  BY <1>2
<1>. QED BY <1>1, <1>6, <1>7, <1>8, ReadStepKeepsReader

-----------------------------------------------------------------------------
(* Both. No item is read before the writer is through, and then it takes   *)
(* no step.                                                                *)
LEMMA WriteKeepsReader ==
  ASSUME ReadInv, r_outcome = "Idle", UNCHANGED <<reading, values>>
  PROVE  ReadInv'
<1>1. r_outcome' = "Idle" /\ values' = values
  BY DEF reading
<1>. QED BY <1>1 DEF ReadInv

LEMMA ReadKeepsWriter ==
  ASSUME WriteInv, UNCHANGED <<batch, capacity, turn, memory, writing>>
  PROVE  WriteInv'
<1>1. UNCHANGED <<batch, capacity, turn, memory, item, w_stack, w_room, out, w_outcome, size, cut>>
  BY DEF writing
<1>2. UNCHANGED <<Free, Encodings(turn - 1)>>
  BY <1>1 DEF Free, Reported, Held, Encodings
<1>3. SP!SerializerInv'
  BY <1>1 DEF WriteInv, WriterInv, SP!SerializerInv, SP!TypeOK
<1>4. WriterInv'
  BY <1>1, <1>2, <1>3 DEF WriteInv, WriterInv
<1>5. (~cut => WholeItems)'
  BY <1>1, <1>2 DEF WriteInv, WholeItems, Tainted, Illegible
<1>. QED BY <1>4, <1>5 DEF WriteInv

(* Every step of either keeps the invariant of both.                       *)
LEMMA StepKeepsBoth ==
  ASSUME WriteInv, ReadInv, [Next]_vars
  PROVE  WriteInv' /\ ReadInv'
<1>0. w_outcome \notin {"Ready", "Insufficient", "Error"} => r_outcome = "Idle"
  BY DEF ReadInv, ReaderTypes
<1>1. CASE WritePoll
  <2>1. /\ w_outcome \in {"New", "Pending"} /\ SP!Poll(Free)
        /\ UNCHANGED <<batch, capacity, turn, memory, reading, values>>
    BY <1>1, WriterSteps DEF WritePoll
  <2>. QED BY <1>0, <2>1, PollKeepsWriter, WriteKeepsReader
<1>2. CASE WriteTurn
  <2>1. SP!LoopTurn /\ UNCHANGED <<batch, capacity, turn, memory, reading, values>>
    BY <1>2, WriterSteps DEF WriteTurn
  <2>2. w_outcome = "Running"
    BY <2>1 DEF SP!LoopTurn, SP!Drain, SP!Insufficient, SP!Suspend, SP!Fail, SP!Descend,
                SP!Finish, SP!Running
  <2>3. WriteInv'
    BY <2>1, DrainKeepsWriter, InsufficientKeepsWriter, StopKeepsWriter, DescendKeepsWriter,
       FinishKeepsWriter DEF SP!LoopTurn
  <2>. QED BY <1>0, <2>1, <2>2, <2>3, WriteKeepsReader
<1>3. CASE NextWrite
  <2>1. r_outcome = "Idle" /\ UNCHANGED <<reading, values>>
    BY <1>3 DEF NextWrite
  <2>. QED BY <1>3, <2>1, NextKeepsWriter, WriteKeepsReader
<1>4. ASSUME NEW n \in Buffers, StartRead(n) PROVE WriteInv' /\ ReadInv'
  <2>1. UNCHANGED <<batch, capacity, turn, memory, writing>>
    BY <1>4 DEF StartRead
  <2>. QED BY <1>4, <2>1, ReadKeepsWriter, StartKeepsReader
<1>5. CASE ReadPoll
  <2>1. UNCHANGED <<batch, capacity, turn, memory, writing>>
    BY <1>5 DEF ReadPoll
  <2>. QED BY <1>5, <2>1, ReadKeepsWriter, ReadPollKeepsReader
<1>6. CASE ReadTurn
  <2>1. UNCHANGED <<batch, capacity, turn, memory, writing>>
    BY <1>6 DEF ReadTurn
  <2>. QED BY <1>6, <2>1, ReadKeepsWriter, ReadTurnKeepsReader
<1>7. CASE NextRead
  <2>1. UNCHANGED <<batch, capacity, turn, memory, writing>>
    BY <1>7 DEF NextRead
  <2>. QED BY <1>7, <2>1, ReadKeepsWriter, NextReadKeepsReader
<1>8. CASE UNCHANGED vars
  <2>1. /\ UNCHANGED <<batch, capacity, turn, memory, writing>>
        /\ UNCHANGED <<reading, values>>
    BY <1>8 DEF vars
  <2>2. WriteInv'
    BY <2>1, ReadKeepsWriter
  <2>3. CASE r_outcome = "Idle"
    BY <2>1, <2>2, <2>3, WriteKeepsReader
  <2>4. CASE r_outcome # "Idle"
    <3>1. UNCHANGED <<stream, r_stack, pos, r_room, r_outcome, result>>
      BY <2>1 DEF reading
    <3>2. UNCHANGED DP!vars
      BY <3>1 DEF DP!vars
    <3>3. ReaderTypes /\ (~cut => ItemsRead)
      BY <2>4 DEF ReadInv
    <3>. QED BY <2>1, <2>2, <2>4, <3>1, <3>2, <3>3, ReadStepKeepsReader DEF ReaderTypes, ItemsRead
  <2>. QED BY <2>3, <2>4
<1>. QED BY <1>1, <1>2, <1>3, <1>4, <1>5, <1>6, <1>7, <1>8 DEF Next

LEMMA InitReader == Init => ReadInv
BY DEF Init, ReadInv

(* The inductive invariant of the adapters with their codecs.              *)
ImmediateInv == WriteInv /\ ReadInv

LEMMA AlwaysImmediate == Spec => []ImmediateInv
<1>1. Init => ImmediateInv
  BY InitWriter, InitReader DEF ImmediateInv
<1>2. ImmediateInv /\ [Next]_vars => ImmediateInv'
  BY StepKeepsBoth DEF ImmediateInv
<1>. QED BY <1>1, <1>2, PTL DEF Spec

(* The position of the buffer never passes its end, the room and the bits  *)
(* that codecs are offered are those of the buffer and of the slice, and   *)
(* no more items are read than were written (WriteImmediate::poll,         *)
(* ReadImmediate::poll).                                                   *)
THEOREM ImmediateTypeCorrect == Spec => []TypeOK
<1>1. ASSUME ImmediateInv PROVE TypeOK
  <2>1. WriteInv /\ ReadInv
    BY <1>1 DEF ImmediateInv
  <2>2. turn \in 1 .. Len(batch) /\ turn <= Len(batch) /\ turn \in Nat /\ Len(batch) \in Nat
    BY <2>1, WriterFacts, EncodingsGrow DEF WriteInv, WriterInv
  <2>3. Free \in 0 .. ByteBits * capacity
    <3> DEFINE all == ByteBits * capacity
               used == Len(memory) + Len(out)
    <3>1. all \in Nat /\ Free = all - used /\ used \in Nat /\ Free \in Nat
      <4>1. all \in Nat /\ Len(memory) \in Nat /\ Len(out) \in Nat /\ Reported = used
        BY <2>1, WriterFacts DEF WriteInv
      <4>. QED BY <2>1, <4>1 DEF Free, WriteInv, WriterInv
    <3>. HIDE DEF all, used
    <3>2. Free \in 0 .. all
      BY <3>1
    <3>. QED BY <3>2 DEF all
  <2>4. Len(values) < Len(batch)
    <3>1. CASE r_outcome = "Idle"
      <4>1. values = <<>>
        BY <2>1, <3>1 DEF ReadInv
      <4>. QED BY <2>1, <4>1, EncodingsGrow DEF WriteInv, WriterInv
    <3>2. CASE r_outcome # "Idle"
      <4>1. ReaderTypes
        BY <2>1, <3>2 DEF ReadInv
      <4>2. PICK V : values \in Seq(V)
        BY <4>1 DEF ReaderTypes
      <4>3. Len(values) \in Nat /\ Len(values) < Written
        BY <4>1, <4>2, LenProperties DEF ReaderTypes
      <4>. QED BY <2>1, <2>2, <4>3, WrittenFacts
    <3>. QED BY <3>1, <3>2
  <2>5. w_outcome = "Running" => w_room = Free
    BY <2>1 DEF WriteInv, WriterInv
  <2>6. r_outcome = "Running" => pos + r_room = Len(stream.bits)
    BY <2>1 DEF ReadInv, ReaderTypes
  <2>. QED BY <2>2, <2>3, <2>4, <2>5, <2>6 DEF TypeOK
<1>. QED BY <1>1, AlwaysImmediate, PTL

(* Whatever the items and the size of the buffer, an item is written       *)
(* whole, right behind those before it, or the write fails: with           *)
(* Insufficient only when the buffer is full and the item goes on          *)
(* (lib.rs:293), until an element is dropped.                              *)
THEOREM ImmediateFitsOrFails == Spec => []FitsOrFails
<1>1. ImmediateInv => FitsOrFails
  BY WriterFitsOrFails DEF ImmediateInv
<1>. QED BY <1>1, AlwaysImmediate, PTL

(* Whatever was written is read back, item by item, from a slice of any    *)
(* length: no read fails but for want of bits, and then the slice is too   *)
(* short for the item (round_trip, lib.rs:254).                            *)
THEOREM ImmediateReadsBack == Spec => []ReadsBack
<1>1. ASSUME ImmediateInv PROVE ReadsBack
  <2> DEFINE sent == [i \in 1 .. Written |-> batch[i].value]
  <2>1. SUFFICES ASSUME ~cut, r_outcome # "Idle"
                 PROVE  /\ IsPrefix(Received, sent)
                        /\ r_outcome \notin {"Error", "Panic"}
                        /\ r_outcome = "Insufficient" => Len(stream.bits) < stream.size
    BY DEF ReadsBack
  <2>2. WriteInv /\ ReaderTypes /\ ItemsRead
    BY <1>1, <2>1 DEF ImmediateInv, ReadInv
  <2> DEFINE it == batch[Len(values) + 1]
  <2>3. /\ stream = [ type |-> it.type, sent |-> <<it.value>>,
                      size |-> Len(EncodingOf(it)), bits |-> stream.bits ]
        /\ DP!ReadsInv /\ \A i \in 1 .. Len(values) : values[i] = batch[i].value
        /\ r_outcome = "Insufficient" => Len(stream.bits) < stream.size
    BY <2>2 DEF ItemsRead
  <2>4. stream.sent = <<it.value>> /\ stream.sent # <<>>
    <3>1. stream = [ type |-> it.type, sent |-> <<it.value>>,
                     size |-> Len(EncodingOf(it)), bits |-> stream.bits ]
      BY <2>3
    <3>. HIDE DEF it
    <3>2. stream.sent = <<it.value>>
      BY <3>1
    <3>. QED BY <3>2
  <2>5. /\ r_outcome \in {"New", "Running", "Insufficient", "Pending", "Ready"}
        /\ r_outcome = "Ready" <=> result # <<>>
        /\ r_outcome = "Ready" => result = <<it.value>>
    BY <2>3, <2>4 DEF DP!ReadsInv, DP!ReadsInPlace
  <2>6. PICK V : values \in Seq(V)
    BY <2>2 DEF ReaderTypes
  <2>7. Len(values) \in Nat /\ Written \in Nat /\ Len(values) + 1 <= Written
    <3>1. Len(values) \in Nat /\ Len(values) < Written
      BY <2>2, <2>6, LenProperties DEF ReaderTypes
    <3>. QED BY <2>2, <3>1, WrittenFacts
  <2> DEFINE X == V \cup { batch[i].value : i \in 1 .. Written } \cup {it.value}
  <2>8. sent \in Seq(X) /\ Len(sent) = Written /\ \A i \in 1 .. Written : sent[i] = batch[i].value
    <3>1. \A i \in 1 .. Written : batch[i].value \in X
      OBVIOUS
    <3>. HIDE DEF X
    <3>. QED BY <2>7, <3>1
  <2>9. /\ Received \in Seq(X) /\ Len(Received) <= Written
        /\ \A i \in 1 .. Len(Received) : Received[i] = batch[i].value
    <3>1. CASE result = <<>>
      <4>1. Received = values
        BY <2>6, <3>1, ConcatEmptySeq DEF Received
      <4>2. values \in Seq(X)
        BY <2>6
      <4>. QED BY <2>3, <2>7, <4>1, <4>2
    <3>2. CASE result # <<>>
      <4>1. result = <<it.value>> /\ Received = Append(values, it.value)
        <5>1. result = <<it.value>>
          BY <2>5, <3>2
        <5> DEFINE x == it.value
        <5>2. values \o <<x>> = Append(values, x)
          <6>. HIDE DEF x
          <6>. QED BY <2>6
        <5>. QED BY <5>1, <5>2 DEF Received
      <4>2. values \in Seq(X) /\ it.value \in X
        BY <2>6
      <4> DEFINE x == it.value
                 n == Len(values)
      <4>3. x = batch[n + 1].value
        OBVIOUS
      <4>. HIDE DEF X, x
      <4>4. /\ Append(values, x) \in Seq(X) /\ Len(Append(values, x)) = n + 1
            /\ Append(values, x)[n + 1] = x /\ \A i \in 1 .. n : Append(values, x)[i] = values[i]
        BY <4>2, AppendProperties DEF x
      <4>5. ASSUME NEW i \in 1 .. n + 1 PROVE Append(values, x)[i] = batch[i].value
        <5>1. i = n + 1 \/ i \in 1 .. n
          BY <2>7
        <5>. QED BY <2>3, <4>3, <4>4, <5>1
      <4>6. Received = Append(values, x)
        BY <4>1 DEF x
      <4>. QED BY <2>7, <4>4, <4>5, <4>6
    <3>. QED BY <3>1, <3>2
  <2> HIDE DEF sent, X
  <2>10. /\ Len(Received) <= Len(sent)
         /\ \A i \in 1 .. Len(Received) : Received[i] = sent[i]
    <3>1. Len(Received) \in Nat
      BY <2>9, LenProperties
    <3>2. \A i \in 1 .. Len(Received) : i \in 1 .. Written
      BY <2>7, <2>9, <3>1
    <3>. QED BY <2>8, <2>9, <3>2
  <2>11. IsPrefix(Received, sent)
    <3>1. DP!IsPrefix(Received, sent)
      BY <2>8, <2>9, <2>10, ReaderAssumptions, DP!PrefixFacts
    <3>. QED BY <3>1 DEF IsPrefix, DP!IsPrefix
  <2>. QED BY <2>3, <2>5, <2>11
<1>. QED BY <1>1, AlwaysImmediate, PTL

(* No encoding of a legible value begins with that of another value of its *)
(* type, so that items need no frames around them, provided that values    *)
(* are finite: what is nested in one is less deep than it is.              *)
THEOREM ImmediateSelfDelimiting ==
  ASSUME NEW depth, DP!IsDepth(depth)
  PROVE  Spec => []SelfDelimiting
<1>1. SelfDelimiting
  <2> SUFFICES ASSUME item \in Legible, NEW other \in Legible, other.type = item.type,
                      IsPrefix(EncodingOf(other), EncodingOf(item))
               PROVE  other.value = item.value
    BY DEF SelfDelimiting
  <2>1. DP!IsPrefix(EncodingOf(other), EncodingOf(item))
    BY DEF IsPrefix, DP!IsPrefix
  <2>. QED BY <2>1, ReaderAssumptions, DP!EncodingsDelimit
<1>. QED BY <1>1, PTL
================================================================================
