--------------------------- MODULE MCDeserializer ----------------------------
(* Instances of Deserializer for TLC.                                      *)
EXTENDS Deserializer, Encodings

Choice == Enum(<<Tuple(<<Bool>>), Tuple(<<>>), Tuple(<<Unit, Num(1)>>)>>)
MCTypes ==
  { Bool, Unit, Num(2), String, Choice, Option(Option(Bool)), Result(Bool, Num(1)),
    Tuple(<<Bool, Choice, Unit>>), Boxed(Tuple(<<Option(Boxed(Bool)), Result(String, Unit)>>)),
    Vec(Bool), Vec(Num(1)), Vec(Unit), Array(Bool, 2), Vec(Vec(Num(1))), Vec(String),
    Tuple(<<Array(Choice, 2), Bool>>), Array(Array(Bool, 2), 2),
    Tuple(<<Bool, Future(Char(1, 7)), Num(1)>>), Vec(Future(Bool)), Result(Bool, Empty), Option(Mapped(Num(1), 7)) }

(* Well-formed streams: an item, and the beginning of what follows it; and *)
(* some that end within their item.                                        *)
Tails == { <<>>, <<0, 0, 0>>, <<1, 1, 1>> }
MCItems == Items(MCTypes, {1, 6}, 0 .. 2)
StreamsOf(items) ==
  UNION { { [type |-> i.type, sent |-> <<i.value>>, size |-> Len(Encoding(i)),
             bits |-> Encoding(i) \o t] : t \in Tails } : i \in items }
CutShort(items) ==
  UNION { LET bits == Encoding(i)
          IN  { [type |-> i.type, sent |-> <<i.value>>, size |-> Len(bits),
                 bits |-> SubSeq(bits, 1, k)] :
                  k \in { l \in {Len(bits) \div 2, Len(bits) - 1} : l >= 0 } } : i \in items }
MCStreams == StreamsOf(MCItems) \cup CutShort(MCItems)
MCNested  == UNION { PartsOf(i) : i \in MCItems }

(* The hypothesis of DeserializerProofs holds for what these streams hold. *)
ASSUME MCReadable == \A it \in MCNested : Readable(it)

(* Signed numbers of the machine's width: 1, and the 6 that stands for -2. *)
MCSigned       == Items({ Isize(1) }, {1, 6}, {0})
MCIsize        == StreamsOf(MCSigned)
MCSignedTypes  == TypesIn(Isize(1))
MCSignedNested == UNION { PartsOf(i) : i \in MCSigned }

(* Noise: every sequence of five bits, read as types of every kind.  Five  *)
(* are too few for a quantity of two bytes, of which a longer form than    *)
(* needed may exist (bitbuf-vlq decides what becomes of it).               *)
NoiseTypes ==
  { Num(1), String, Choice, Option(Choice), Result(Bool, Num(1)),
    Tuple(<<Choice, Bool>>), Vec(Bool), Vec(Choice), Array(Option(Bool), 3),
    Char(1, 6), Result(Bool, Empty), Tuple(<<Bool, Mapped(Num(1), 5)>>) }
NoiseBits == [1 .. 5 -> {0, 1}]
SizeOf(T, values, bits) ==
  LET sizes == { Len(Enc(T, v)) : v \in { w \in values : IsPrefix(Enc(T, w), bits) } }
  IN  IF sizes = {} THEN Len(bits) + 1 ELSE CHOOSE s \in sizes : TRUE
MCNoise ==
  UNION { LET values == Samples(T, 0 .. 7, 0 .. 2)
          IN  { [type |-> T, sent |-> <<>>, size |-> SizeOf(T, values, b), bits |-> b] :
                  b \in NoiseBits } : T \in NoiseTypes }

MCAllStreams == MCStreams \cup MCNoise
MCAllTypes   == UNION { TypesIn(T) : T \in MCTypes \cup NoiseTypes }
=============================================================================
