----------------------------- MODULE MCImmediate -----------------------------
(* Instances of Immediate for TLC, with bytes of eight bits.               *)
EXTENDS Immediate, Encodings

Of(b)           == Value(b, <<>>)
Row(T, v, bits) == [item |-> Part(T, v), bits |-> bits]
Single(items)   == { <<it>> : it \in items }

(* One type of every kind, and nestings of them.                           *)
Choice == Enum(<<Tuple(<<Bool>>), Tuple(<<>>), Tuple(<<Unit, Num(1)>>),
                 Tuple(<<>>), Tuple(<<Option(Bool)>>)>>)
MCTypes ==
  { Bool, Unit, Num(1), Num(2), String, Choice, Char(1, 6), Isize(1),
    Option(Bool), Option(Option(Unit)), Result(Bool, Num(1)),
    Tuple(<<Bool, Num(1), Bool>>), Array(Result(Unit, Bool), 2),
    Vec(Bool), Vec(Unit), Vec(String), Vec(Vec(Bool)), Boxed(Vec(Choice)) }
Sampled == Items(MCTypes, {0, 1, 5, 7}, 0 .. 2)

(* The rows of the README's table, and lengths on both sides of the        *)
(* boundary the doc comments name for a length prefix ("values less than   *)
(* 2^7 occupy one byte", and two bytes below 2^14).                        *)
Custom      == Enum(<<Tuple(<<Bool>>), Tuple(<<>>)>>)
UnitEnum(k) == Enum([i \in 1 .. k |-> Tuple(<<>>)])
ReadmeRows ==
  { Row(Option(Bool), Value(0, <<Of(1)>>), 2),
    Row(Option(Bool), Value(0, <<Of(0)>>), 2),
    Row(Option(Bool), Value(0, <<>>), 1),
    Row(String, Value(0, <<Of(104), Of(101), Of(108), Of(108), Of(111)>>), 48),
    Row(Vec(Bool), Value(0, <<Of(1), Of(0), Of(1)>>), 11),
    Row(Tuple(<<Bool, Num(1)>>), Value(0, <<Of(0), Of(3)>>), 9),
    Row(Custom, Value(0, <<Of(1)>>), 2),
    Row(Unit, Of(0), 0),
    Row(Array(String, 0), Value(0, <<>>), 0),
    Row(Array(Bool, 2), Value(0, <<Of(1), Of(0)>>), 2),
    Row(UnitEnum(2), Of(0), 1),
    Row(UnitEnum(1), Of(0), 0) }
LengthRows ==
  { Row(Vec(Unit), Value(0, [i \in 1 .. l |-> Of(0)]), IF l < 2 ^ 7 THEN 8 ELSE 16) :
      l \in {0, 1, 2, 126, 127, 128, 129} }

(* Several items in one buffer, none but the first at a byte boundary; one *)
(* that waits for a future before its second element; one that is refused  *)
(* behind another.                                                         *)
Some(T) == Items({T}, {0, 1, 5}, 0 .. 2)
Waiting == Tuple(<<Bool, Future(Bool), Num(1)>>)
Refused ==
  Part(Tuple(<<Option(Mapped(Bool, 2)), Bool>>), Value(0, <<Value(0, <<Value(1, <<>>)>>), Of(1)>>))
Several ==
  { <<a, b>> : a \in Some(Choice), b \in Some(Waiting) }
  \cup { <<a, b, a>> : a \in Some(Option(Bool)), b \in Some(Vec(Bool)) }
  \cup { <<a, b>> : a \in Some(Vec(Future(Bool))), b \in Some(Unit) }
  \cup { <<a, Refused>> : a \in Some(Result(Bool, Num(1))) }

(* TLC computes a definition without parameters once, but what a .cfg puts *)
(* in the place of a CONSTANT whenever it is used.                         *)
DocumentedItems == ReadmeRows \cup LengthRows
AllBatches      == Single(Sampled \cup { row.item : row \in DocumentedItems }) \cup Several
AllNested       == UNION { UNION { PartsOf(b[i]) : i \in DOMAIN b } : b \in AllBatches }
Refusing(it)    == it.type.kind = "mapped" /\ it.value.n = 1
AllLegible      == { it \in AllNested : \A part \in PartsOf(it) : ~Refusing(part) }
AllTypes        == UNION { TypesIn(it.type) : it \in AllNested }

MCDocumented == DocumentedItems
MCBatches    == AllBatches
MCNested     == AllNested
MCLegible    == AllLegible
MCAllTypes   == AllTypes
=============================================================================
