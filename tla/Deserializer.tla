---------------------------- MODULE Deserializer -----------------------------
(***************************************************************************)
(* The deserializers of the crate (option.rs, result.rs, tuple.rs,         *)
(* array.rs, allocated.rs, primitive.rs, empty.rs, OptionDeserialize and   *)
(* MapDeserialize of lib.rs, and the ones derive generates) as one         *)
(* machine: a stack of frames, one for each deserializer at work, the one  *)
(* the adapter polls at the bottom.  A frame has the bits its codec has    *)
(* read itself and the parts it has got so far.  A call of                 *)
(* poll_deserialize runs until the value is whole, the bits are used up or *)
(* a future is not ready; the next one goes on with the same frames.       *)
(***************************************************************************)
EXTENDS EncodedItems

CONSTANTS
  Types,    (* the types that are read, and all types they are built from    *)
  Streams,  (* [type, sent, size, bits]: a stream of bits, the type read from *)
            (* it, <<the value>> sent (<<>> if the bits are noise), and how  *)
            (* many bits there are to read: more than there are, if no value *)
            (* is encoded by the beginning of the stream                     *)
  Pieces,   (* how many new bits a call may be offered                       *)
  UsizeLimit (* lengths below it fit in a usize                              *)

(* What rustc checks of a type.                                            *)
IsType(T) ==
  /\ T.of \in Seq(Types)
  /\ \/ T.kind \in {"bool", "unit", "empty", "string", "tuple", "enum"}
     \/ T.kind = "number" /\ T.n \in Nat
     \/ T.kind = "array" /\ T.n \in Nat /\ Len(T.of) = 1
     \/ T.kind \in {"option", "vec", "box", "future"} /\ Len(T.of) = 1
     \/ T.kind = "mapped" /\ T.n \in Nat /\ Len(T.of) = 1
     \/ /\ T.kind \in {"char", "isize"} /\ T.n \in Nat /\ Len(T.of) = 1
        /\ T.of[1].kind = "number"
     \/ T.kind = "result" /\ Len(T.of) = 2

(* A stream on which a value was sent begins with its encoding, or ends    *)
(* within it (a slice that is too short, a peer that goes away).           *)
SentOn(s) == [type |-> s.type, value |-> s.sent[1]]
IsSent(s) ==
  /\ s.sent = <<s.sent[1]>> /\ SentOn(s) \in Nested
  /\ s.size = Len(EncodingOf(SentOn(s)))
  /\ IsPrefix(EncodingOf(SentOn(s)), s.bits) \/ IsPrefix(s.bits, EncodingOf(SentOn(s)))

ASSUME DeserializerConstants ==
  /\ Pieces \subseteq Nat /\ UsizeLimit \in Nat
  /\ \A it \in Nested : IsValue(it)
  /\ \A T \in Types : IsType(T)
  /\ \A s \in Streams :
       s.type \in Types /\ s.bits \in Seq({0, 1}) /\ (s.sent # <<>> => IsSent(s))

VARIABLES
  stream,   (* the stream being read                                         *)
  stack,    (* the frames, outermost first: [type, got, parts]               *)
  pos,      (* how many bits of the stream have been read                    *)
  room,     (* how many more bits the current call may read                  *)
  outcome,  (* "New", "Running", or what the last call returned or threw     *)
  result    (* <<the value>> once ready                                      *)

vars == <<stream, stack, pos, room, outcome, result>>

-----------------------------------------------------------------------------
(* MinCodecRead::deserialize: a new deserializer for a type.               *)
FrameFor(T) == [type |-> T, got |-> <<>>, parts |-> <<>>]

Top == stack[Len(stack)]
WithTop(frame) == [stack EXCEPT ![Len(stack)] = frame]

(* A quantity is as long as its first byte says, once that is there.       *)
QuantityBits(got) == IF Len(got) < ByteBits THEN ByteBits ELSE ByteBits * VlqLength(got)
QuantityDone(got) == Len(got) >= QuantityBits(got)

-----------------------------------------------------------------------------
(* The read sides: how many bits the deserializer reads itself, as far as  *)
(* it can tell from those it has got, and the types of the parts that it   *)
(* has its parts' deserializers read then.                                 *)

Reads(bits, parts) == [bits |-> bits, parts |-> parts]

BoolReads      == Reads(1, <<>>)
NumberReads(f) == Reads(ByteBits * f.type.n, <<>>)
UnitReads      == Reads(0, <<>>)
CastReads(f)   == Reads(0, f.type.of)
BoxReads(f)    == Reads(0, f.type.of)
MapReads(f)    == Reads(0, f.type.of)
TupleReads(f)  == Reads(0, f.type.of)
ArrayReads(f)  == Reads(0, [i \in 1 .. f.type.n |-> f.type.of[1]])
OptionReads(f) == Reads(1, IF f.got = <<1>> THEN f.type.of ELSE <<>>)
MutResultReads(f) == Reads(1, <<f.type.of[IF f.got = <<1>> THEN 2 ELSE 1]>>)
ResultReads(f) == Reads(1, <<f.type.of[IF f.got = <<1>> THEN 1 ELSE 2]>>)

(* The length of a string or Vec is there, and fits in a usize.            *)
LengthKnown(f) == QuantityDone(f.got) /\ FromVlq(f.got) < UsizeLimit

MutStringReads(f) == Reads(QuantityBits(f.got), <<>>)
StringReads(f) ==
  Reads(IF LengthKnown(f) THEN QuantityBits(f.got) + ByteBits * FromVlq(f.got)
                            ELSE QuantityBits(f.got), <<>>)

VecReads(f) ==
  Reads(QuantityBits(f.got),
        IF LengthKnown(f) THEN [i \in 1 .. FromVlq(f.got) |-> f.type.of[1]] ELSE <<>>)

(* The determinant, and the fields of the variant it names.                *)
Determinant(f) == FromLittleEndian(f.got)
DerivedReads(f) ==
  Reads(DeterminantBits(Len(f.type.of)),
        IF Determinant(f) < Len(f.type.of) THEN f.type.of[Determinant(f) + 1].of ELSE <<>>)

ReadsOf(f) ==
  CASE f.type.kind = "bool"                -> BoolReads
    [] f.type.kind = "number"              -> NumberReads(f)
    [] f.type.kind \in {"unit", "empty"}   -> UnitReads
    [] f.type.kind \in {"char", "isize"}   -> CastReads(f)
    [] f.type.kind = "string"              -> StringReads(f)
    [] f.type.kind = "option"              -> OptionReads(f)
    [] f.type.kind = "result"              -> ResultReads(f)
    [] f.type.kind = "tuple"               -> TupleReads(f)
    [] f.type.kind = "enum"                -> DerivedReads(f)
    [] f.type.kind = "array"               -> ArrayReads(f)
    [] f.type.kind = "vec"                 -> VecReads(f)
    [] f.type.kind \in {"box", "future"}   -> BoxReads(f)
    [] f.type.kind = "mapped"              -> MapReads(f)

Missing(f)    == ReadsOf(f).bits - Len(f.got)
HeaderDone(f) == Missing(f) = 0
PartsDue(f)   == ReadsOf(f).parts
Whole(f)      == HeaderDone(f) /\ Len(f.parts) = Len(PartsDue(f))

(* The determinant names no variant: `_ => panic!("invalid determinant")`. *)
InvalidDeterminant(f) ==
  f.type.kind = "enum" /\ HeaderDone(f) /\ Determinant(f) >= Len(f.type.of)

(* The bytes a string has read behind its quantity.                        *)
BytesOf(f) ==
  LET data == SubSeq(f.got, QuantityBits(f.got) + 1, Len(f.got))
  IN  [i \in 1 .. Len(data) \div ByteBits |->
         Value(FromBigEndian(SubSeq(data, ByteBits * (i - 1) + 1, ByteBits * i)), <<>>)]

(* What a deserializer does not accept.  A length beyond usize (TooLong),  *)
(* before anything behind it is read.  String::from_utf8: of single bytes, *)
(* those with the top bit are not UTF-8.  try_into, and the closure of a   *)
(* MapDeserialize.  EmptyCodec: there is no such value.                    *)
TooLong(f) ==
  f.type.kind \in {"string", "vec"} /\ QuantityDone(f.got) /\ ~LengthKnown(f)
InvalidUtf8(f) == \E i \in 1 .. Len(BytesOf(f)) : BytesOf(f)[i].n >= 2 ^ (ByteBits - 1)
MapRefuses(f)  == f.parts[1].n >= f.type.n
Refuses(f) ==
  /\ Whole(f)
  /\ \/ TooLong(f)
     \/ f.type.kind = "string" /\ InvalidUtf8(f)
     \/ f.type.kind \in {"char", "isize", "mapped"} /\ MapRefuses(f)
     \/ f.type.kind = "empty"

(* The value a whole frame stands for.                                     *)
ValueOf(f) ==
  CASE f.type.kind \in {"bool", "number"} -> Value(FromBigEndian(f.got), <<>>)
    [] f.type.kind = "result"             -> Value(FromBigEndian(f.got), f.parts)
    [] f.type.kind \in {"char", "isize"}  -> f.parts[1]
    [] f.type.kind = "string"             -> Value(0, BytesOf(f))
    [] f.type.kind = "enum"               -> Value(Determinant(f), f.parts)
    [] OTHER                              -> Value(0, f.parts)

-----------------------------------------------------------------------------
(* A call of poll_deserialize; r more bits of the stream have arrived.     *)
Poll(r) ==
  /\ outcome \in {"New", "Insufficient", "Pending"}
  /\ pos + r <= Len(stream.bits)
  /\ outcome' = "Running" /\ room' = r
  /\ UNCHANGED <<stream, stack, pos, result>>

Running == outcome = "Running"

(* The codec at work reads what there is of its own bits (read_bool,       *)
(* Fill::fill_from, poll_read of a quantity).  Mutated forms: what was     *)
(* read is kept only if it was all; all there is is read.                  *)
MutFillAll ==
  /\ Running /\ Missing(Top) > 0 /\ room > 0
  /\ stack' = WithTop([Top EXCEPT !.got = @ \o SubSeq(stream.bits, pos + 1, pos + room)])
  /\ pos' = pos + room /\ room' = 0
  /\ UNCHANGED <<stream, outcome, result>>

MutFill ==
  /\ Running /\ Missing(Top) > 0 /\ room > 0
  /\ LET k == IF Missing(Top) < room THEN Missing(Top) ELSE room
     IN  /\ stack' = IF k = Missing(Top)
                       THEN WithTop([Top EXCEPT !.got = @ \o SubSeq(stream.bits, pos + 1, pos + k)])
                       ELSE stack
         /\ pos' = pos + k /\ room' = room - k
  /\ UNCHANGED <<stream, outcome, result>>

Fill ==
  /\ Running /\ Missing(Top) > 0 /\ room > 0
  /\ LET k == IF Missing(Top) < room THEN Missing(Top) ELSE room
     IN  /\ stack' = WithTop([Top EXCEPT !.got = @ \o SubSeq(stream.bits, pos + 1, pos + k)])
         /\ pos' = pos + k /\ room' = room - k
  /\ UNCHANGED <<stream, outcome, result>>

(* sufficient!: there is no bit left where one has to be read.             *)
Insufficient ==
  /\ Running /\ Missing(Top) > 0 /\ room = 0
  /\ outcome' = "Insufficient"
  /\ UNCHANGED <<stream, stack, pos, room, result>>

(* buf_ready!: a future that a user's codec depends on is not ready, and   *)
(* Pending passes through every codec above; no bit is given back.         *)
Suspend ==
  /\ Running /\ Top.type.kind = "future" /\ ~Whole(Top)
  /\ outcome' = "Pending"
  /\ UNCHANGED <<stream, stack, pos, room, result>>

(* The codec polls the deserializer of its next part.                      *)
Descend ==
  /\ Running /\ HeaderDone(Top) /\ ~InvalidDeterminant(Top)
  /\ Len(Top.parts) < Len(PartsDue(Top))
  /\ stack' = Append(stack, FrameFor(PartsDue(Top)[Len(Top.parts) + 1]))
  /\ UNCHANGED <<stream, pos, room, outcome, result>>

(* Ready(Ok): the value goes to the codec above, or to the caller.         *)
Finish ==
  /\ Running /\ Whole(Top) /\ ~InvalidDeterminant(Top) /\ ~Refuses(Top)
  /\ IF Len(stack) = 1
       THEN /\ stack' = <<>>
            /\ result' = <<ValueOf(Top)>> /\ outcome' = "Ready"
       ELSE /\ stack' = [SubSeq(stack, 1, Len(stack) - 1)
                           EXCEPT ![Len(stack) - 1].parts = Append(@, ValueOf(Top))]
            /\ UNCHANGED <<result, outcome>>
  /\ UNCHANGED <<stream, pos, room>>

(* buf_try!: Ready(Err) passes through every codec above.                  *)
Fail ==
  /\ Running /\ Refuses(Top)
  /\ outcome' = "Error"
  /\ UNCHANGED <<stream, stack, pos, room, result>>

Panic ==
  /\ Running /\ InvalidDeterminant(Top)
  /\ outcome' = "Panic"
  /\ UNCHANGED <<stream, stack, pos, room, result>>

Init ==
  /\ stream \in Streams /\ stack = <<FrameFor(stream.type)>>
  /\ pos = 0 /\ room = 0 /\ outcome = "New" /\ result = <<>>

LoopTurn == Fill \/ Insufficient \/ Suspend \/ Descend \/ Finish \/ Fail \/ Panic
Next == LoopTurn \/ \E r \in Pieces : Poll(r)

Spec == Init /\ [][Next]_vars

(* A call runs to its end, one is made in the beginning, when nothing has  *)
(* arrived yet, and again and again when more bits have; a future does not *)
(* suspend its codec for ever.                                             *)
FairSpec ==
  /\ Spec /\ WF_vars(LoopTurn) /\ SF_vars(Descend)
  /\ WF_vars(Poll(0)) /\ SF_vars(\E r \in Pieces \ {0} : Poll(r))

-----------------------------------------------------------------------------
TypeOK ==
  /\ pos \in 0 .. Len(stream.bits) /\ room \in 0 .. Len(stream.bits)
  /\ \A i \in 1 .. Len(stack) : Missing(stack[i]) \in Nat
  /\ outcome \in {"New", "Running", "Insufficient", "Pending", "Ready", "Error", "Panic"}
  /\ (outcome = "Ready") <=> (result # <<>>)

(* The value that was sent is the value that is received, wherever the     *)
(* stream is cut, and not a bit of what follows it on the stream is used.  *)
RoundTrip ==
  stream.sent # <<>> =>
    /\ outcome \notin {"Error", "Panic"}
    /\ outcome = "Ready" =>
         result = stream.sent /\ pos = Len(EncodingOf(SentOn(stream)))

(* Whatever bits are read: a value that is accepted has been decoded from  *)
(* its own encoding, so no two readings of a stream are possible and a     *)
(* value passed on is serialized to the very bits it came from.            *)
Canonical ==
  outcome = "Ready" =>
    EncodingOf([type |-> stream.type, value |-> result[1]]) = SubSeq(stream.bits, 1, pos)

(* Once all bits of the item have arrived, its deserializer is ready.      *)
Arrives == stream.sent # <<>> /\ stream.size <= Len(stream.bits) => <>(outcome = "Ready")

(* The deserializer keeps the contract its adapter relies on: over noise   *)
(* as well, it reads the bits of a value or fails.                         *)
Contract ==
  INSTANCE CodecContract
    WITH Rooms <- Pieces, moved <- pos, want <- stream.size,
         outcome <- IF outcome = "Panic" THEN "Error" ELSE outcome
KeepsContract == Contract!Spec

-----------------------------------------------------------------------------
(* Why the value that was sent is received.                                *)

(* The values that a deserializer accepts: a string or Vec no longer than  *)
(* this machine can index, no negative isize, nothing that the closure of  *)
(* a MapDeserialize refuses.                                               *)
Readable(it) ==
  LET T == it.type  v == it.value
  IN  /\ T.kind \in {"string", "vec"} => Len(v.of) < UsizeLimit
      /\ T.kind = "isize"  => v.n < T.n
      /\ T.kind = "mapped" => T.n \in Nat /\ v.of[1].n \in 0 .. T.n - 1

Frames ==
  [ type  : { it.type : it \in Nested }, got : Seq({0, 1}),
    parts : Seq({ it.value : it \in Nested }) ]

(* Where, behind the first bit of an item, the part behind its k-th begins.*)
Offset(it, k) == Len(Own(it).bits) + Len(Joined(SubSeq(Own(it).parts, 1, k)))

(* For every frame, the item that it is reading, and how many bits of the  *)
(* stream are before that.                                                 *)
Sources ==
  LET source[i \in 1 .. Len(stack)] ==
        IF i = 1 THEN [item |-> SentOn(stream), start |-> 0]
        ELSE LET above == source[i - 1]
                 k     == Len(stack[i - 1].parts)
             IN  [ item  |-> Own(above.item).parts[k + 1],
                   start |-> above.start + Offset(above.item, k) ]
  IN  source

(* A frame has the beginning of what its item's codec wrote itself, and,   *)
(* once it has all of that, the values of the first parts.                 *)
ReadsItem(f, it) ==
  /\ f.type = it.type
  /\ IsPrefix(f.got, Own(it).bits)
  /\ f.parts # <<>> => f.got = Own(it).bits
  /\ Len(f.parts) <= Len(Own(it).parts)
  /\ \A j \in 1 .. Len(f.parts) : f.parts[j] = Own(it).parts[j].value

(* The encoding of an item stands at a place of what was sent, as far as   *)
(* that has arrived.                                                       *)
StandsAt(it, start) ==
  LET bits == EncodingOf(it)
  IN  /\ start \in Nat /\ start + Len(bits) <= stream.size
      /\ \A j \in 1 .. Len(bits) :
           start + j <= Len(stream.bits) => stream.bits[start + j] = bits[j]

(* Each frame reads an item from its place; those that wait for the frame  *)
(* above them know how many parts there are.                               *)
FramesInPlace(sources) ==
  \A i \in 1 .. Len(stack) :
    LET f == stack[i]  it == sources[i].item
    IN  /\ ReadsItem(f, it) /\ StandsAt(it, sources[i].start)
        /\ i < Len(stack) => f.got = Own(it).bits /\ Len(f.parts) < Len(Own(it).parts)

(* The next bit to be read is the next one of the codec at work.           *)
NextBitInPlace(source) ==
  pos = source.start + Len(Top.got)
          + Len(Joined(SubSeq(Own(source.item).parts, 1, Len(Top.parts))))

ReadsSent ==
  /\ outcome \notin {"Error", "Panic"}
  /\ stack \in Seq(Frames)
  /\ outcome # "Ready" =>
       LET sources == Sources
       IN  stack # <<>> /\ FramesInPlace(sources) /\ NextBitInPlace(sources[Len(stack)])
  /\ outcome = "Ready" => result = stream.sent /\ pos = stream.size

(* While a value that was sent is read, every deserializer at work is at   *)
(* its place in that value and in its encoding, however deep they nest and *)
(* wherever calls end: the state that OptionDeserialize, the tuples' enums *)
(* of states, the vectors' counts and derive's indices keep.  This is      *)
(* inductive.                                                              *)
DeserializerInv ==
  /\ TypeOK
  /\ outcome = "Running" => pos + room <= Len(stream.bits)
  /\ stream.sent # <<>> => ReadsSent
=============================================================================
