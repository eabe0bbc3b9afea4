----------------------------- MODULE DeriveIndex -----------------------------
(***************************************************************************)
(* The state machines that derive(MinCodec) generates                      *)
(* (src/derive/src/lib.rs:155-566), and the integers they are built from.  *)
(*                                                                         *)
(* The serializer of a variant with fields keeps the index of the part it  *)
(* is at: the determinant, if the type has more than one variant, then     *)
(* each field; an arm of a match polls that part and increments the index, *)
(* and an index without an arm means that all is done.  The deserializer   *)
(* reads the determinant in a state of its own, and its index counts the   *)
(* fields only.  Both indices are of the type that holds the number of     *)
(* fields.                                                                 *)
(*                                                                         *)
(* A part that is Insufficient or Pending returns with the index as it is: *)
(* no step of this module.                                                 *)
(***************************************************************************)
EXTENDS Integers

CONSTANTS
  U8, U16, U32,  (* how many values the types of these names have: 2 to the  *)
                 (* 8, 16 and 32, or fewer to reach their ends in few steps  *)
  Shapes         (* [variants, fields]: how many variants the type has (one, *)
                 (* for a struct), and fields the variant at hand            *)

ASSUME IndexConstants ==
  /\ U8 \in Nat /\ U16 \in Nat /\ U32 \in Nat
  /\ 1 < U8 /\ U8 < U16 /\ U16 < U32
  /\ Shapes \subseteq [variants : Nat \ {0}, fields : Nat]

VARIABLES
  shape,     (* the type and the variant                                     *)
  side,      (* which machine: "Serialize" or "Deserialize"                  *)
  checked,   (* whether the build panics where an integer overflows          *)
  state,     (* "Rejected" (there is no such machine: the macro or what it   *)
             (* generates does not compile), "Determinant" (deserializer     *)
             (* only), "Fields", "Complete" or "Panicked"                    *)
  idx,       (* the index                                                    *)
  finished,  (* history: how many parts have been finished, from the first   *)
  again      (* history: a part has been polled after it had finished        *)

vars == <<shape, side, checked, state, idx, finished, again>>

-----------------------------------------------------------------------------
(* What the macro computes.                                                *)

HasDeterminant == shape.variants > 1
Determinants   == IF HasDeterminant THEN 1 ELSE 0

(* b_ty, by the number of its values: `if bl < 2usize.pow(8)` and so on.   *)
(* A mutated form: a limit that is one too high.                           *)
MutIndexValues(fields) ==
  IF fields <= U8 THEN U8 ELSE IF fields <= U16 THEN U16 ELSE U32
IndexValues(fields) ==
  IF fields < U8 THEN U8 ELSE IF fields < U16 THEN U16 ELSE U32

TooManyBindings == shape.fields >= U32

(* (len as f64).log2().ceil(), and the bytes it is given in an array and   *)
(* those of i_ty, which from_le_bytes and to_le_bytes convert it to: where *)
(* they differ, the generated code has a type error.  A mutated form: the  *)
(* bytes that are needed, rounded up.                                      *)
Bits(variants)      == CHOOSE b \in 0 .. 30 :
                         2 ^ b >= variants /\ \A c \in 0 .. b - 1 : 2 ^ c < variants
MutArrayBytes(bits) == (bits + 7) \div 8
ArrayBytes(bits)    == bits \div 8 + 1
TypeBytes(bits)     == IF bits >= 16 THEN 4 ELSE IF bits >= 8 THEN 2 ELSE 1

Compiles ==
  /\ ~TooManyBindings
  /\ HasDeterminant => ArrayBytes(Bits(shape.variants)) = TypeBytes(Bits(shape.variants))

(* The parts of the machine at hand, and those that its arms are numbered  *)
(* by: `ser_idx as u8` would truncate.                                     *)
Offset  == IF side = "Serialize" THEN Determinants ELSE 0
Arm(i)  == (i + Offset) % IndexValues(shape.fields)
Parts   == shape.fields + Determinants

(* The index is matched by the arm of the determinant, the first one.      *)
DeterminantArm == side = "Serialize" /\ HasDeterminant /\ idx = 0

(* Serializer with a determinant and so many fields that the index ends    *)
(* where they do.                                                          *)
AtLimit ==
  /\ side = "Serialize" /\ HasDeterminant
  /\ shape.fields + 1 = IndexValues(shape.fields)

-----------------------------------------------------------------------------
(* `*idx += 1`.                                                            *)
Increment ==
  LET overflow == idx + 1 = IndexValues(shape.fields)
  IN  /\ idx'   = IF overflow THEN (IF checked THEN idx ELSE 0) ELSE idx + 1
      /\ state' = IF overflow /\ checked THEN "Panicked" ELSE state

(* Part p has been polled: the next one in order, or one that had finished *)
(* before.                                                                 *)
Polled(p) ==
  /\ finished' = IF p = finished THEN finished + 1 ELSE finished
  /\ again' = (again \/ p # finished)

(* Arm 0 of a serializer drains the determinant; once that is drained, the *)
(* arm writes nothing.                                                     *)
DrainDeterminant ==
  /\ state = "Fields" /\ shape.fields > 0 /\ DeterminantArm
  /\ Polled(0) /\ Increment
  /\ UNCHANGED <<shape, side, checked>>

(* Where there are no fields, there is no index either.                    *)
DrainBare ==
  /\ side = "Serialize" /\ state = "Fields" /\ shape.fields = 0
  /\ finished' = Parts /\ state' = "Complete"
  /\ UNCHANGED <<shape, side, checked, idx, again>>

(* determinant_arms: *this = Variant(0, ..).                               *)
FillDeterminant ==
  /\ side = "Deserialize" /\ state = "Determinant"
  /\ Polled(0) /\ idx' = 0 /\ state' = "Fields"
  /\ UNCHANGED <<shape, side, checked>>

(* The arm of a field.                                                     *)
PollField(i) ==
  /\ state = "Fields" /\ i < shape.fields /\ idx = Arm(i) /\ ~DeterminantArm
  /\ Polled(i + Determinants) /\ Increment
  /\ UNCHANGED <<shape, side, checked>>

(* Most codecs panic when they are polled after completion; that of bool   *)
(* writes its bit again, and that of () nothing.                           *)
PollFinishedField(i) ==
  /\ state = "Fields" /\ i < shape.fields /\ idx = Arm(i) /\ ~DeterminantArm
  /\ i + Determinants < finished
  /\ state' = "Panicked" /\ again' = TRUE
  /\ UNCHANGED <<shape, side, checked, idx, finished>>

(* `_ => return buf_ok!(..)`: the index has no arm.  A mutated form: the   *)
(* last field has none.                                                    *)
MutComplete ==
  /\ state = "Fields" /\ (side = "Serialize" => shape.fields > 0)
  /\ idx + 1 = Offset + shape.fields
  /\ state' = "Complete"
  /\ UNCHANGED <<shape, side, checked, idx, finished, again>>

Complete ==
  /\ state = "Fields" /\ (side = "Serialize" => shape.fields > 0)
  /\ \A i \in 0 .. shape.fields - 1 : idx # Arm(i)
  /\ ~DeterminantArm
  /\ state' = "Complete"
  /\ UNCHANGED <<shape, side, checked, idx, finished, again>>

Init ==
  /\ shape \in Shapes /\ side \in {"Serialize", "Deserialize"} /\ checked \in BOOLEAN
  /\ state = IF ~Compiles THEN "Rejected"
             ELSE IF side = "Deserialize" /\ HasDeterminant THEN "Determinant" ELSE "Fields"
  /\ idx = 0 /\ finished = 0 /\ again = FALSE

Fields == 0 .. shape.fields - 1
Next ==
  \/ DrainDeterminant \/ DrainBare \/ FillDeterminant \/ Complete
  \/ \E i \in Fields : PollField(i) \/ PollFinishedField(i)

Spec     == Init /\ [][Next]_vars
FairSpec == Spec /\ WF_vars(Next)    (* polled until it is ready             *)

-----------------------------------------------------------------------------
(* The index stays within its type and is where the parts finished so far  *)
(* end; at the limit, where it goes round, the machine never completes.    *)
IndexInv ==
  /\ idx \in 0 .. IndexValues(shape.fields) - 1
  /\ finished \in 0 .. Parts
  /\ state \in {"Rejected", "Determinant", "Fields", "Complete", "Panicked"}
  /\ state \in {"Determinant", "Fields"} /\ ~AtLimit =>
       finished + Offset = IF state = "Fields" THEN idx + Determinants ELSE 0
  /\ again \/ state = "Panicked" => AtLimit
  /\ AtLimit => state # "Complete"

(* A machine that reports that it is done has written, or read, the        *)
(* determinant and every field, in order, each once.                       *)
EachPartOnce == state = "Complete" => finished = Parts /\ ~again

(* No shape is refused that has at most 2 to the 15 variants and no more   *)
(* fields than the widest index counts; and a serializer overflows its     *)
(* index only where determinant and fields together are one more than it   *)
(* counts - the deserializer of the same type never does.                  *)
FailsOnlyAtLimits ==
  /\ state = "Rejected" => shape.variants > 32768 \/ TooManyBindings
  /\ state = "Panicked" \/ again => AtLimit

(* Below the limit, every machine completes.                               *)
Finishes == AtLimit \/ <>(state \in {"Complete", "Rejected"})

(* What the documentation promises of the macro: "for any struct or enum   *)
(* with fields that implement MinCodec" (src/src/lib.rs:25).               *)
NeverPanics == state # "Panicked"
=============================================================================
