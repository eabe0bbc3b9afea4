---------------------------- MODULE MCSerializer -----------------------------
(* Instances of Serializer for TLC.                                        *)
EXTENDS Serializer, Encodings

(* Types that hold no sequence, nested in one another.                     *)
Choice == Enum(<<Tuple(<<Bool>>), Tuple(<<>>), Tuple(<<Unit, Num(1)>>)>>)
FlatTypes ==
  { Bool, Unit, Num(2), String, Choice, Option(Option(Bool)), Result(Bool, Num(1)),
    Tuple(<<Bool, Choice, Unit>>), Tuple(<<String, Option(Num(1)), Unit>>),
    Boxed(Tuple(<<Option(Boxed(Bool)), Result(String, Unit)>>)),
    Tuple(<<Bool, Future(Char(1, 6)), Num(1)>>), Isize(1),
    Tuple(<<Option(Mapped(Bool, 2)), Bool>>), Result(Unit, Empty) }
(* A value in the middle of which a closure refuses.                       *)
Refused ==
  [ type  |-> Tuple(<<Option(Mapped(Bool, 2)), Bool>>),
    value |-> Value(0, <<Value(0, <<Value(1, <<>>)>>), Value(1, <<>>)>>) ]
MCFlat == Items(FlatTypes, {1, 6}, 0 .. 2) \cup {Refused}

(* Vecs and arrays, of elements with and without bits, and in one another. *)
SequenceTypes ==
  { Vec(Bool), Vec(Num(1)), Vec(Unit), Array(Bool, 2), Array(Num(1), 2),
    Vec(Vec(Num(1))), Tuple(<<Array(Choice, 2), Bool>>), Option(Vec(String)),
    Array(Array(Bool, 2), 2), Vec(Future(Bool)) }
MCSequences == Items(SequenceTypes, {1, 6}, 0 .. 2)

MCAll ==  MCFlat \cup MCSequences

(* They, and what is nested in them: PartsOf, unrolled as deep as they are, *)
(* which SerializerConstants confirms, for TLC to evaluate only once.      *)
Inside(S) == S \cup UNION { ToSet(WritesOf(i.type, i.value).parts) : i \in S }
MCNested  == Inside(Inside(Inside(Inside(MCAll))))

MCCutSequences == Items({ Vec(Num(1)), Array(Num(1), 2) }, {1, 6}, 0 .. 2)
=============================================================================
