---------------------------- MODULE EncodedItems -----------------------------
(***************************************************************************)
(* The items that a codec machine works on, and their encodings.  How an   *)
(* encoding follows from what is nested in a value is stated here as an    *)
(* equation, IsEncoded, and computed in Encodings: computing it takes a    *)
(* RECURSIVE operator, which the modules that proofs use do without.       *)
(***************************************************************************)
EXTENDS WireFormat

CONSTANTS
  Nested,         (* items, [type, value], and all that is nested in them    *)
  EncodingOf(_)   (* the encodings of those                                  *)

(* One encoding behind the other.                                          *)
Joined(parts) == FlattenSeq([i \in 1 .. Len(parts) |-> EncodingOf(parts[i])])

(* What the codec of an item writes itself, and the parts it hands on.     *)
Own(it) == WritesOf(it.type, it.value)

(* An encoding is the one and the encodings of the others.                 *)
IsEncoded(it) ==
  /\ Own(it).bits \in Seq({0, 1}) /\ Own(it).parts \in Seq(Nested)
  /\ EncodingOf(it) \in Seq({0, 1})
  /\ EncodingOf(it) = Own(it).bits \o Joined(Own(it).parts)

ASSUME ItemsAreEncoded == \A it \in Nested : IsEncoded(it)

(* The values of a type (what rustc checks of them), as far as they are    *)
(* not those of the parts, which are items themselves: numbers that fit    *)
(* their width, scalars of a char, single-byte UTF-8, lengths that have a  *)
(* quantity.  `mapped`: a value that is not refused on the way out.        *)
Lengths == { l \in Nat : \E k \in 1 .. ByteBits + 1 : l < 2 ^ ValueBits(k) }
Byte    == [n : 0 .. 2 ^ (ByteBits - 1) - 1, of : {<<>>}]
IsValue(it) ==
  LET T == it.type  v == it.value
      HasParts == v.of \in Seq({ part.value : part \in Nested })
      IsPlain  == v = Value(v.n, <<>>)
      OfOne    == Len(T.of) = 1
  IN  /\ v = Value(v.n, v.of)
      /\ CASE T.kind = "bool"             -> IsPlain /\ v.n \in {0, 1}
           [] T.kind = "number"           -> /\ IsPlain /\ T.n \in Nat
                                             /\ v.n \in 0 .. 2 ^ (ByteBits * T.n) - 1
           [] T.kind = "char"             -> IsPlain /\ OfOne /\ T.n \in Nat /\ v.n \in 0 .. T.n - 1
           [] T.kind = "isize"            -> IsPlain /\ OfOne /\ T.n \in Nat /\ v.n \in Nat
           [] T.kind = "unit"             -> v = Value(0, <<>>)
           [] T.kind = "string"           -> /\ v.n = 0 /\ v.of \in Seq(Byte)
                                             /\ Len(v.of) \in Lengths
           [] T.kind = "option"           -> v.n = 0 /\ HasParts /\ OfOne /\ Len(v.of) \in {0, 1}
           [] T.kind = "result"           -> v.n \in {0, 1} /\ HasParts /\ Len(v.of) = 1
           [] T.kind = "tuple"            -> v.n = 0 /\ HasParts /\ Len(v.of) = Len(T.of)
           [] T.kind = "enum"             -> /\ Len(T.of) \in Nat /\ v.n \in 0 .. Len(T.of) - 1
                                             /\ HasParts /\ Len(v.of) = Len(T.of[v.n + 1].of)
           [] T.kind = "array"            -> v.n = 0 /\ HasParts /\ Len(v.of) = T.n
           [] T.kind = "vec"              -> v.n = 0 /\ HasParts /\ Len(v.of) \in Lengths
           [] T.kind \in {"box", "future", "mapped"}
                                          -> v.n = 0 /\ HasParts /\ OfOne /\ Len(v.of) = 1
           [] OTHER                       -> FALSE
=============================================================================
