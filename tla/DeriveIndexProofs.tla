-------------------------- MODULE DeriveIndexProofs --------------------------
(***************************************************************************)
(* Proofs about DeriveIndex, for every type and variant, every width of    *)
(* the integers, and both kinds of build.  An index is followed part by    *)
(* part: below the limit it never leaves its type, so that the arm it      *)
(* selects is the arm of the first part that is not finished.              *)
(***************************************************************************)
EXTENDS DeriveIndex, FiniteRecursion

(* The inductive invariant: IndexInv, what a completed machine has done,   *)
(* and which machines there are.                                           *)
Machines ==
  /\ shape \in [variants : Nat \ {0}, fields : Nat]
  /\ side \in {"Serialize", "Deserialize"} /\ checked \in BOOLEAN /\ again \in BOOLEAN
  /\ state # "Rejected" => shape.fields < U32
  /\ state = "Determinant" => side = "Deserialize" /\ HasDeterminant

IInv == Machines /\ IndexInv /\ EachPartOnce

(* The index type holds more values than there are fields.                 *)
LEMMA IndexHoldsFields ==
  ASSUME NEW n \in Nat, n < U32
  PROVE  IndexValues(n) \in Nat /\ n < IndexValues(n) /\ 1 < IndexValues(n)
  BY IndexConstants DEF IndexValues

(* No arm is truncated: field i has the arm with the number of its part.   *)
LEMMA ArmIsPart ==
  ASSUME IInv, state # "Rejected", NEW i \in Nat, i < shape.fields
  PROVE  Arm(i) = i + Offset
  <1>1. /\ shape.fields \in Nat /\ shape.fields < U32
    BY DEF IInv, Machines
  <1>2. /\ IndexValues(shape.fields) \in Nat \ {0}
        /\ shape.fields < IndexValues(shape.fields)
    BY <1>1, IndexHoldsFields
  <1>3. Offset \in {0, 1}
    BY DEF Offset, Determinants
  <1> DEFINE a == i + Offset
             m == IndexValues(shape.fields)
  <1>4. a \in Nat /\ m \in Nat \ {0} /\ a < m
    BY <1>1, <1>2, <1>3
  <1>5. a % m = a
    <2> HIDE DEF a, m
    <2> QED BY <1>4
  <1> QED BY <1>5 DEF Arm

LEMMA IndexInit == Init => IInv
  <1> SUFFICES ASSUME Init PROVE IInv
    OBVIOUS
  <1>1. shape \in [variants : Nat \ {0}, fields : Nat]
    BY IndexConstants DEF Init
  <1>2. Machines
    <2>1. state # "Rejected" => ~TooManyBindings
      BY DEF Init, Compiles
    <2>2. state # "Rejected" => shape.fields < U32
      BY <2>1, <1>1, IndexConstants DEF TooManyBindings
    <2> QED BY <1>1, <2>2 DEF Init, Machines
  <1>3. IndexValues(shape.fields) \in Nat /\ 0 < IndexValues(shape.fields)
    BY <1>1, IndexConstants DEF IndexValues
  <1>4. IndexInv
    BY <1>1, <1>2, <1>3 DEF Init, IndexInv, Parts, Determinants, Offset, AtLimit, Machines
  <1>5. EachPartOnce
    BY DEF Init, EachPartOnce
  <1> QED BY <1>2, <1>4, <1>5 DEF IInv

(* What all the steps below use of the invariant.                          *)
LEMMA Counted ==
  ASSUME IInv, state # "Rejected"
  PROVE  /\ shape.fields \in Nat /\ idx \in Nat /\ finished \in Nat
         /\ Determinants \in {0, 1} /\ Offset \in {0, 1} /\ Offset <= Determinants
         /\ Parts = shape.fields + Determinants
         /\ IndexValues(shape.fields) \in Nat /\ 1 < IndexValues(shape.fields)
         /\ shape.fields < IndexValues(shape.fields)
         /\ idx < IndexValues(shape.fields)
         /\ AtLimit <=> Offset = 1 /\ shape.fields + 1 = IndexValues(shape.fields)
  <1>1. shape.fields \in Nat /\ shape.fields < U32
    BY DEF IInv, Machines
  <1>2. /\ IndexValues(shape.fields) \in Nat /\ 1 < IndexValues(shape.fields)
        /\ shape.fields < IndexValues(shape.fields)
    BY <1>1, IndexHoldsFields
  <1>3. Determinants \in {0, 1} /\ Offset \in {0, 1} /\ Offset <= Determinants
    BY DEF Determinants, Offset
  <1>4. Parts \in Nat /\ Parts = shape.fields + Determinants
    BY <1>1, <1>3 DEF Parts
  <1>5. idx \in Nat /\ idx < IndexValues(shape.fields) /\ finished \in Nat
    BY <1>2, <1>4 DEF IInv, IndexInv
  <1>6. AtLimit <=> Offset = 1 /\ shape.fields + 1 = IndexValues(shape.fields)
    BY DEF AtLimit, Offset, Determinants
  <1> QED BY <1>1, <1>2, <1>3, <1>4, <1>5, <1>6

(* A step of a machine keeps the invariant if it keeps these parts of it.  *)
LEMMA Rebuilt ==
  ASSUME IInv, state # "Rejected", UNCHANGED <<shape, side, checked>>,
         idx' \in Nat, idx' < IndexValues(shape.fields),
         finished' \in Nat, finished' <= Parts, again' \in BOOLEAN,
         state' \in {"Fields", "Complete", "Panicked"},
         state' = "Fields" /\ ~AtLimit => finished' + Offset = idx' + Determinants,
         again' \/ state' = "Panicked" => AtLimit,
         state' = "Complete" => ~AtLimit /\ finished' = Parts /\ ~again'
  PROVE  IInv'
  <1>1. /\ IndexValues(shape.fields)' = IndexValues(shape.fields)
        /\ Parts' = Parts /\ Offset' = Offset /\ Determinants' = Determinants
        /\ AtLimit' = AtLimit
    BY DEF IndexValues, Parts, Offset, Determinants, HasDeterminant, AtLimit
  <1>2. Machines'
    BY DEF IInv, Machines
  <1>3. IndexInv'
    BY <1>1, Counted DEF IndexInv
  <1>4. EachPartOnce'
    BY <1>1 DEF EachPartOnce
  <1> QED BY <1>2, <1>3, <1>4 DEF IInv

(* Below the limit the index of an arm is followed by one that exists.     *)
LEMMA BelowLimit ==
  ASSUME IInv, state = "Fields", ~AtLimit
  PROVE  /\ finished + Offset = idx + Determinants /\ ~again
         /\ idx < shape.fields + Offset => idx + 1 < IndexValues(shape.fields)
  <1>1. finished + Offset = idx + Determinants /\ ~again
    BY DEF IInv, IndexInv
  <1>2. idx < shape.fields + Offset => idx + 1 < IndexValues(shape.fields)
    BY Counted
  <1> QED BY <1>1, <1>2

(* The arm of part p: the one the index selects.                           *)
LEMMA ArmKeeps ==
  ASSUME IInv, state = "Fields", NEW p \in Nat, p < Parts,
         idx + Determinants = p + Offset,
         Polled(p), Increment, UNCHANGED <<shape, side, checked>>
  PROVE  IInv'
  <1>1. again \in BOOLEAN /\ again' \in BOOLEAN
    BY DEF IInv, Machines, Polled
  <1>2. CASE AtLimit
    <2>1. idx' \in Nat /\ idx' < IndexValues(shape.fields)
      BY Counted DEF Increment
    <2>2. finished' \in Nat /\ finished' <= Parts
      <3>1. finished <= Parts
        BY Counted DEF IInv, IndexInv
      <3> QED BY <3>1, Counted DEF Polled
    <2>3. state' \in {"Fields", "Panicked"}
      BY DEF Increment
    <2> QED BY <1>1, <1>2, <2>1, <2>2, <2>3, Rebuilt
  <1>3. CASE ~AtLimit
    <2>1. finished + Offset = idx + Determinants /\ ~again
      BY <1>3, BelowLimit
    <2>2. p = finished
      BY <2>1, Counted
    <2>3. idx + 1 < IndexValues(shape.fields)
      BY <1>3, BelowLimit, Counted
    <2>4. idx' = idx + 1 /\ state' = "Fields"
      BY <2>3, Counted DEF Increment
    <2>5. finished' = finished + 1 /\ ~again'
      BY <2>1, <2>2 DEF Polled
    <2>6. finished' <= Parts /\ finished' \in Nat /\ idx' \in Nat
      BY <2>2, <2>4, <2>5, Counted
    <2>7. finished' + Offset = idx' + Determinants
      BY <2>1, <2>4, <2>5, Counted
    <2> QED BY <1>1, <1>3, <2>3, <2>4, <2>5, <2>6, <2>7, Rebuilt
  <1> QED BY <1>2, <1>3

LEMMA IndexStep == IInv /\ [Next]_vars => IInv'
  <1> SUFFICES ASSUME IInv, [Next]_vars PROVE IInv'
    OBVIOUS
  <1>1. CASE DrainDeterminant
    <2>1. state = "Fields" /\ idx = 0 /\ Determinants = 1 /\ Offset = 1
      BY <1>1 DEF DrainDeterminant, DeterminantArm, Determinants, Offset
    <2>2. 0 < Parts
      BY <2>1, Counted
    <2>3. Polled(0) /\ Increment /\ UNCHANGED <<shape, side, checked>>
      BY <1>1 DEF DrainDeterminant
    <2> QED BY <2>1, <2>2, <2>3, ArmKeeps
  <1>2. CASE DrainBare
    <2>1. /\ state = "Fields" /\ shape.fields = 0 /\ finished' = Parts /\ state' = "Complete"
          /\ UNCHANGED <<shape, side, checked, idx, again>>
      BY <1>2 DEF DrainBare
    <2>2. ~AtLimit
      BY <2>1, Counted
    <2>3. ~again /\ again \in BOOLEAN
      BY <2>1, <2>2, BelowLimit DEF IInv, Machines
    <2>4. Parts \in Nat
      BY <2>1, Counted
    <2> QED BY <2>1, <2>2, <2>3, <2>4, Counted, Rebuilt
  <1>3. CASE FillDeterminant
    <2>1. /\ state = "Determinant" /\ Polled(0) /\ idx' = 0 /\ state' = "Fields"
          /\ UNCHANGED <<shape, side, checked>>
      BY <1>3 DEF FillDeterminant
    <2>2. Determinants = 1 /\ Offset = 0 /\ ~AtLimit
      BY <2>1 DEF IInv, Machines, Determinants, Offset, AtLimit
    <2>3. finished + Offset = 0 /\ ~again
      BY <2>1, <2>2 DEF IInv, IndexInv
    <2>4. finished = 0
      BY <2>1, <2>2, <2>3, Counted
    <2>5. finished' = 1 /\ ~again' /\ again' \in BOOLEAN
      <3>1. finished' = 1
        BY <2>1, <2>4 DEF Polled
      <3>2. again' = (again \/ 0 # finished)
        BY <2>1 DEF Polled
      <3>3. ~(again \/ 0 # finished)
        BY <2>3, <2>4
      <3> QED BY <3>1, <3>2, <3>3
    <2>6. 1 <= Parts
      BY <2>1, <2>2, Counted
    <2> QED BY <2>1, <2>2, <2>5, <2>6, Counted, Rebuilt
  <1>4. CASE Complete
    <2>1. /\ state = "Fields" /\ ~DeterminantArm /\ state' = "Complete"
          /\ \A i \in 0 .. shape.fields - 1 : idx # Arm(i)
          /\ UNCHANGED <<shape, side, checked, idx, finished, again>>
      BY <1>4 DEF Complete
    <2>2. shape.fields + Offset <= idx
      <3>1. SUFFICES ASSUME idx < shape.fields + Offset PROVE FALSE
        BY <2>1, Counted
      <3>2. Offset <= idx
        BY <2>1, Counted DEF DeterminantArm, Offset, Determinants
      <3>3. idx - Offset \in 0 .. shape.fields - 1
        BY <2>1, <3>1, <3>2, Counted
      <3>4. Arm(idx - Offset) = idx
        BY <2>1, <3>3, ArmIsPart, Counted
      <3> QED BY <2>1, <3>3, <3>4
    <2>3. ~AtLimit
      BY <2>1, <2>2, Counted
    <2>4. finished = Parts /\ ~again
      <3>1. finished + Offset = idx + Determinants /\ ~again /\ finished <= Parts
        BY <2>1, <2>3, BelowLimit, Counted DEF IInv, IndexInv
      <3> QED BY <2>1, <2>2, <3>1, Counted
    <2>5. again \in BOOLEAN
      BY DEF IInv, Machines
    <2> QED BY <2>1, <2>3, <2>4, <2>5, Counted, Rebuilt
  <1>5. ASSUME NEW i \in Fields, PollField(i) PROVE IInv'
    <2>1. /\ state = "Fields" /\ i < shape.fields /\ idx = Arm(i)
          /\ Polled(i + Determinants) /\ Increment /\ UNCHANGED <<shape, side, checked>>
      BY <1>5 DEF PollField
    <2>2. i \in Nat
      BY <2>1, Counted DEF Fields
    <2>3. idx = i + Offset
      BY <2>1, <2>2, ArmIsPart
    <2>4. i + Determinants \in Nat /\ i + Determinants < Parts
      BY <2>1, <2>2, Counted
    <2> QED BY <2>1, <2>2, <2>3, <2>4, Counted, ArmKeeps
  <1>6. ASSUME NEW i \in Fields, PollFinishedField(i) PROVE IInv'
    <2>1. /\ state = "Fields" /\ i < shape.fields /\ idx = Arm(i)
          /\ i + Determinants < finished
          /\ state' = "Panicked" /\ again' = TRUE
          /\ UNCHANGED <<shape, side, checked, idx, finished>>
      BY <1>6 DEF PollFinishedField
    <2>2. i \in Nat
      BY <2>1, Counted DEF Fields
    <2>3. idx = i + Offset
      BY <2>1, <2>2, ArmIsPart
    <2>4. AtLimit
      BY <2>1, <2>2, <2>3, BelowLimit, Counted
    <2>5. finished <= Parts
      BY <2>1, Counted DEF IInv, IndexInv
    <2> QED BY <2>1, <2>4, <2>5, Counted, Rebuilt
  <1>7. CASE UNCHANGED vars
    BY <1>7 DEF vars, IInv, Machines, IndexInv, EachPartOnce, IndexValues, Parts, Offset,
                Determinants, HasDeterminant, AtLimit
  <1> QED BY <1>1, <1>2, <1>3, <1>4, <1>5, <1>6, <1>7 DEF Next

-----------------------------------------------------------------------------
(* Every machine keeps the inductive invariant.                            *)
LEMMA Invariant == Spec => []IInv
  <1> QED BY IndexInit, IndexStep, PTL DEF Spec

(* The index stays within its type and at the first part that has not been *)
(* finished, whatever the type and the width of the integers: `*idx += 1`  *)
(* in the machines of derive(MinCodec).                                    *)
THEOREM IndexInvariant == Spec => []IndexInv
  <1>1. IInv => IndexInv
    BY DEF IInv
  <1> QED BY <1>1, Invariant, PTL

(* A derived machine that returns Ready has polled the determinant and     *)
(* every field of its variant, in order, each until it was done and never  *)
(* again.                                                                  *)
THEOREM PartsInOrder == Spec => []EachPartOnce
  <1>1. IInv => EachPartOnce
    BY DEF IInv
  <1> QED BY <1>1, Invariant, PTL

-----------------------------------------------------------------------------
(* Determinants.                                                           *)

(* A sequence of numbers that reaches v has a first that does.             *)
LEMMA FirstToReach ==
  ASSUME NEW n \in Nat, NEW f \in [0 .. n -> Int], NEW v \in Int, f[n] >= v
  PROVE  \E b \in 0 .. n : f[b] >= v /\ \A c \in 0 .. b - 1 : f[c] < v
  <1> DEFINE S == { b \in 0 .. n : f[b] >= v }
  <1>1. S \subseteq Nat /\ S # {}
    OBVIOUS
  <1>2. PICK b \in S : \A c \in S : b <= c
    <2> HIDE DEF S
    <2> QED BY <1>1, LeastOf
  <1>3. ASSUME NEW c \in 0 .. b - 1 PROVE f[c] < v
    <2>1. c \in 0 .. n /\ ~(b <= c)
      OBVIOUS
    <2>2. c \notin S
      BY <1>2, <2>1
    <2> QED BY <2>1, <2>2
  <1> QED BY <1>3

(* Up to 2 to the 15 variants have a determinant of at most 15 bits, ...   *)
LEMMA DeterminantIsShort ==
  ASSUME NEW v \in Nat, v <= 2 ^ 15
  PROVE  Bits(v) \in 0 .. 15
  <1> DEFINE pow == [b \in 0 .. 15 |-> 2 ^ b]
             First(b) == 2 ^ b >= v /\ \A c \in 0 .. b - 1 : 2 ^ c < v
             chosen == Bits(v)
  <1>1. pow \in [0 .. 15 -> Int] /\ pow[15] >= v
    OBVIOUS
  <1>2. PICK b \in 0 .. 15 : pow[b] >= v /\ \A c \in 0 .. b - 1 : pow[c] < v
    <2>1. 15 \in Nat /\ v \in Int
      OBVIOUS
    <2> HIDE DEF pow
    <2> QED BY <1>1, <2>1, FirstToReach
  <1>3. b \in 0 .. 30 /\ \A c \in 0 .. b - 1 : c \in 0 .. 15
    OBVIOUS
  <1>4. First(b)
    BY <1>2, <1>3, Zenon
  <1>5. chosen \in 0 .. 30 /\ First(chosen)
    BY <1>3, <1>4, Zenon DEF Bits
  <1> HIDE DEF chosen
  <1>6. chosen <= 15
    <2> SUFFICES ASSUME chosen > 15 PROVE FALSE
      BY <1>5
    <2>1. 15 \in 0 .. chosen - 1
      BY <1>5
    <2>2. 2 ^ 15 < v
      BY <1>5, <2>1, Zenon
    <2>3. 2 ^ 15 \in Int
      OBVIOUS
    <2> QED BY <2>2, <2>3
  <1> QED BY <1>5, <1>6 DEF chosen

(* ... for which the array and the integer it is converted to agree.       *)
LEMMA ShortDeterminantsCompile ==
  ASSUME NEW b \in 0 .. 15
  PROVE  ArrayBytes(b) = TypeBytes(b)
  <1>1. CASE b < 8
    BY <1>1 DEF ArrayBytes, TypeBytes
  <1>2. CASE b >= 8
    BY <1>2 DEF ArrayBytes, TypeBytes
  <1> QED BY <1>1, <1>2

(* No type of up to 2 to the 15 variants, with no more fields than the     *)
(* widest index counts, is refused by the macro or by the compiler, and no *)
(* machine but a serializer at the limit panics or polls a part again.     *)
THEOREM OnlyLimitsFail == Spec => []FailsOnlyAtLimits
  <1> DEFINE RefusedInv == state = "Rejected" => ~Compiles
  <1>1. Init => RefusedInv
    BY DEF Init
  <1>2. RefusedInv /\ [Next]_vars => RefusedInv'
    BY DEF Next, vars, DrainDeterminant, DrainBare, FillDeterminant, Complete, PollField,
           PollFinishedField, Increment, Compiles, TooManyBindings, HasDeterminant
  <1>3. IInv /\ RefusedInv => FailsOnlyAtLimits
    <2> SUFFICES ASSUME IInv, RefusedInv, state = "Rejected", shape.variants <= 32768,
                        ~TooManyBindings
                 PROVE  FALSE
      BY DEF FailsOnlyAtLimits, IInv, IndexInv, Machines
    <2>1. shape.variants \in Nat /\ 0 < shape.variants
      BY DEF IInv, Machines
    <2>2. shape.variants <= 2 ^ 15
      <3>1. 2 ^ 15 = 32768
        OBVIOUS
      <3> QED BY <3>1
    <2>3. ArrayBytes(Bits(shape.variants)) = TypeBytes(Bits(shape.variants))
      BY <2>1, <2>2, DeterminantIsShort, ShortDeterminantsCompile
    <2> QED BY <2>3 DEF Compiles
  <1> QED BY <1>1, <1>2, <1>3, Invariant, PTL DEF Spec

=============================================================================
