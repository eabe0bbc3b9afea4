------------------------------ MODULE Encodings ------------------------------
(***************************************************************************)
(* The encodings of whole values, however deep they nest, and values to    *)
(* try them with.  RECURSIVE operators are used freely here: this module   *)
(* is evaluated by TLC only, no proof depends on it.                       *)
(***************************************************************************)
EXTENDS WireFormat

(* The encoding of a value: the reference both machines are held to.       *)
RECURSIVE Enc(_, _)
Enc(T, v) ==
  LET own == WritesOf(T, v)
  IN  own.bits \o FlattenSeq([i \in 1 .. Len(own.parts) |->
                                Enc(own.parts[i].type, own.parts[i].value)])

Encoding(it) == Enc(it.type, it.value)

(* An item and all that is nested in it.                                   *)
RECURSIVE PartsOf(_)
PartsOf(it) ==
  LET parts == WritesOf(it.type, it.value).parts
  IN  {it} \cup UNION { PartsOf(parts[i]) : i \in 1 .. Len(parts) }

(* A type and all that it is built from.                                   *)
RECURSIVE TypesIn(_)
TypesIn(T) == {T} \cup UNION { TypesIn(T.of[i]) : i \in DOMAIN T.of }

-----------------------------------------------------------------------------
(* Sample values: every value of T whose numbers are drawn from `numbers`  *)
(* and whose sequences have one of the lengths in `lengths`.               *)
Tuples(sets) == { f \in [1 .. Len(sets) -> UNION { sets[i] : i \in 1 .. Len(sets) }] :
                    \A i \in 1 .. Len(sets) : f[i] \in sets[i] }

RECURSIVE Samples(_, _, _)
Samples(T, numbers, lengths) ==
  LET Of(U)     == Samples(U, numbers, lengths)
      Seqs(S)   == UNION { [1 .. l -> S] : l \in lengths }
      Fields(U) == Tuples([i \in 1 .. Len(U.of) |-> Of(U.of[i])])
  IN  CASE T.kind = "bool"   -> { Value(b, <<>>) : b \in {0, 1} }
        [] T.kind = "number" -> { Value(x, <<>>) : x \in numbers }
        [] T.kind = "unit"   -> { Value(0, <<>>) }
        [] T.kind = "string" -> { Value(0, s) : s \in Seqs({ Value(1, <<>>), Value(2, <<>>) }) }
        [] T.kind = "option" -> { Value(0, <<>>) } \cup { Value(0, <<x>>) : x \in Of(T.of[1]) }
        [] T.kind = "result" -> { Value(1, <<x>>) : x \in Of(T.of[1]) }
                                  \cup { Value(0, <<x>>) : x \in Of(T.of[2]) }
        [] T.kind = "tuple"  -> { Value(0, f) : f \in Fields(T) }
        [] T.kind = "enum"   -> UNION { { Value(i - 1, f) : f \in Fields(T.of[i]) } :
                                          i \in 1 .. Len(T.of) }
        [] T.kind = "array"  -> { Value(0, f) : f \in [1 .. T.n -> Of(T.of[1])] }
        [] T.kind = "vec"    -> { Value(0, s) : s \in Seqs(Of(T.of[1])) }
        [] T.kind \in {"box", "future"} -> { Value(0, <<x>>) : x \in Of(T.of[1]) }
        [] T.kind = "empty"  -> {}
        [] T.kind = "char"   -> { Value(x, <<>>) : x \in { y \in numbers : y < T.n } }
        [] T.kind = "isize"  -> { Value(x, <<>>) : x \in numbers }
        [] T.kind = "mapped" -> { Value(0, <<x>>) : x \in Of(T.of[1]) }

Items(types, numbers, lengths) ==
  UNION { { [type |-> T, value |-> v] : v \in Samples(T, numbers, lengths) } : T \in types }
=============================================================================
