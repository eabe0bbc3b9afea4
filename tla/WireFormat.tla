----------------------------- MODULE WireFormat ------------------------------
(***************************************************************************)
(* What every codec of the crate puts on the wire, as pure definitions.    *)
(*                                                                         *)
(* A type is [kind, of, n]: its kind, the types it is built from, and a    *)
(* number (the bytes of a number, the length of an array).  A value is     *)
(* [n, of]: a number and the values it contains.  An encoding is a         *)
(* sequence of 0 and 1: the bits a codec writes itself (a number, a        *)
(* predicate, a length, a determinant) followed by the encodings of the    *)
(* parts it hands to the codecs it is built from; Encodings puts them      *)
(* together.                                                               *)
(***************************************************************************)
EXTENDS Integers, Sequences, SequencesExt

CONSTANT ByteBits   (* bits in a byte: 8, or fewer to keep encodings short   *)

ASSUME FormatConstants == ByteBits \in Nat \ {0, 1}

-----------------------------------------------------------------------------
(* Types and values.                                                       *)

Type(kind, of, n) == [kind |-> kind, of |-> of, n |-> n]
Value(n, of)      == [n |-> n, of |-> of]

Bool         == Type("bool", <<>>, 0)
Unit         == Type("unit", <<>>, 0)
Empty        == Type("empty", <<>>, 0)      (* Void, Infallible: no value        *)
Num(bytes)   == Type("number", <<>>, bytes)
String       == Type("string", <<>>, 0)
Option(T)    == Type("option", <<T>>, 0)
Result(T, E) == Type("result", <<T, E>>, 0)
Tuple(Ts)    == Type("tuple", Ts, 0)        (* a derived struct as well          *)
Enum(Vs)     == Type("enum", Vs, 0)         (* Vs: a tuple type per variant      *)
Array(T, l)  == Type("array", <<T>>, l)
Vec(T)       == Type("vec", <<T>>, 0)
Boxed(T)     == Type("box", <<T>>, 0)
Future(T)    == Type("future", <<T>>, 0)    (* a user's: waits, then hands on    *)

(* Types that are converted to a number on the way out and back on the way *)
(* in.  A value is the number it is cast to, and `n` the numbers below     *)
(* which the way back accepts: the scalars of a char; for an isize, which  *)
(* is cast with `as u64` and back with try_into, those that are no         *)
(* negative number in two's complement.                                    *)
Char(bytes, scalars) == Type("char", <<Num(bytes)>>, scalars)
Isize(bytes)         == Type("isize", <<Num(bytes)>>, 2 ^ (ByteBits * bytes - 1))

(* A user's MapSerialize and MapDeserialize with closures that may refuse: *)
(* on the way out the values with number 1, on the way in every T whose    *)
(* number is not below `accepts`.                                          *)
Mapped(T, accepts)   == Type("mapped", <<T>>, accepts)

-----------------------------------------------------------------------------
(* Bits.                                                                   *)

(* Most significant bit first: to_be_bytes, drained from the top.          *)
BigEndian(n, k) == [i \in 1 .. k |-> (n \div 2 ^ (k - i)) % 2]

(* to_le_bytes with the bits of every byte reversed, then capped at k bits: *)
(* least significant bit first, over as many bytes as it takes.            *)
MutLittleEndian(n, k) == BigEndian(n \div 2, k)
LittleEndian(n, k) == [i \in 1 .. k |-> (n \div 2 ^ (i - 1)) % 2]

FromBigEndian(bits) ==
  LET read[i \in 0 .. Len(bits)] == IF i = 0 THEN 0 ELSE 2 * read[i - 1] + bits[i]
  IN  read[Len(bits)]
FromLittleEndian(bits) == FromBigEndian(Reverse(bits))

(* (len as f64).log2().ceil(): the bits of a determinant.  A mutated form: *)
(* the bits of the number of variants, and not of the greatest of them.    *)
MutDeterminantBits(variants) ==
  CHOOSE b \in 0 .. variants :
    2 ^ b > variants /\ \A c \in 0 .. variants : 2 ^ c > variants => b <= c
DeterminantBits(variants) ==
  CHOOSE b \in 0 .. variants :
    2 ^ b >= variants /\ \A c \in 0 .. variants : 2 ^ c >= variants => b <= c

(* A variable-length quantity (bitbuf-vlq): the first byte says in unary   *)
(* how many bytes there are, and the other bits hold the number.           *)
UnaryBits(k) == IF k <= ByteBits THEN k ELSE ByteBits
ValueBits(k) == ByteBits * k - UnaryBits(k)
VlqBytes(n) ==
  CHOOSE k \in 1 .. ByteBits + 1 :
    n < 2 ^ ValueBits(k) /\ (k > 1 => n >= 2 ^ ValueBits(k - 1))
Vlq(n) ==
  LET k == VlqBytes(n)
  IN  [i \in 1 .. UnaryBits(k) |-> IF i < k THEN 1 ELSE 0] \o BigEndian(n, ValueBits(k))

(* The bytes of a quantity once its first is there, and its value.         *)
VlqLength(bits) ==
  CHOOSE k \in 1 .. ByteBits + 1 :
    (k <= ByteBits => bits[k] = 0) /\ \A i \in 1 .. k - 1 : bits[i] = 1
FromVlq(bits) ==
  LET k == VlqLength(bits)
  IN  FromBigEndian(SubSeq(bits, UnaryBits(k) + 1, ByteBits * k))

-----------------------------------------------------------------------------
(* The write sides: what the serializer of a value writes itself, and the  *)
(* parts it hands on to their serializers then, in that order.             *)

Part(T, v)           == [type |-> T, value |-> v]
Writes(bits, parts)  == [bits |-> bits, parts |-> parts]
Each(T, sequence)    == [i \in 1 .. Len(sequence) |-> Part(T, sequence[i])]

BoolWrites(v)        == Writes(<<v.n>>, <<>>)
NumberWrites(T, v)   == Writes(BigEndian(v.n, ByteBits * T.n), <<>>)
UnitWrites           == Writes(<<>>, <<>>)
CastWrites(T, v)     == Writes(<<>>, <<Part(T.of[1], Value(v.n, <<>>))>>)
BytesWrites(v) ==
  Writes(Vlq(Len(v.of)) \o
           FlattenSeq([i \in 1 .. Len(v.of) |-> BigEndian(v.of[i].n, ByteBits)]), <<>>)
OptionWrites(T, v)   == Writes(<<Len(v.of)>>, Each(T.of[1], v.of))
ResultWrites(T, v)   == Writes(<<v.n>>, Each(T.of[IF v.n = 1 THEN 1 ELSE 2], v.of))
TupleWrites(T, v)    == Writes(<<>>, [i \in 1 .. Len(T.of) |-> Part(T.of[i], v.of[i])])
ArrayWrites(T, v)    == Writes(<<>>, Each(T.of[1], v.of))
VecWrites(T, v)      == Writes(Vlq(Len(v.of)), Each(T.of[1], v.of))
BoxWrites(T, v)      == Writes(<<>>, Each(T.of[1], v.of))
MapWrites(T, v)      == Writes(<<>>, IF v.n = 1 THEN <<>> ELSE Each(T.of[1], v.of))

(* A derived enum: the determinant, if there is more than one variant, and *)
(* the fields of the variant.                                              *)
DerivedWrites(T, v) ==
  Writes(LittleEndian(v.n, DeterminantBits(Len(T.of))),
         TupleWrites(T.of[v.n + 1], v).parts)

WritesOf(T, v) ==
  CASE T.kind = "bool"                -> BoolWrites(v)
    [] T.kind = "number"              -> NumberWrites(T, v)
    [] T.kind \in {"char", "isize"}   -> CastWrites(T, v)
    [] T.kind = "unit"                -> UnitWrites
    [] T.kind = "string"              -> BytesWrites(v)
    [] T.kind = "option"              -> OptionWrites(T, v)
    [] T.kind = "result"              -> ResultWrites(T, v)
    [] T.kind = "tuple"               -> TupleWrites(T, v)
    [] T.kind = "enum"                -> DerivedWrites(T, v)
    [] T.kind = "array"               -> ArrayWrites(T, v)
    [] T.kind = "vec"                 -> VecWrites(T, v)
    [] T.kind \in {"box", "future"}   -> BoxWrites(T, v)
    [] T.kind = "mapped"              -> MapWrites(T, v)
=============================================================================
