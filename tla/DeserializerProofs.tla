-------------------------- MODULE DeserializerProofs --------------------------
(***************************************************************************)
(* What the deserializers of the crate guarantee for every set of values,  *)
(* however deep they nest, and for streams that are cut anywhere: the      *)
(* value that was sent is received, from its own bits and no others.       *)
(* Of noise, nothing is accepted but the encoding of a value.              *)
(*                                                                         *)
(* First, what is written as bits is read back from them, whatever its     *)
(* size: the numbers, determinants and quantities of the wire format.      *)
(***************************************************************************)
EXTENDS Deserializer, FiniteRecursion, FiniteSetTheorems

-----------------------------------------------------------------------------
(* Powers of two.  The provers know nothing about exponents; that a set of *)
(* n elements has 2 to the n subsets (FS_SUBSET) says what is needed.      *)

(* One more element makes twice as many subsets.                           *)
LEMMA SubsetsDouble ==
  ASSUME NEW S, IsFiniteSet(S), NEW x, x \notin S
  PROVE  Cardinality(SUBSET (S \cup {x})) = 2 * Cardinality(SUBSET S)
<1> DEFINE with == { A \cup {x} : A \in SUBSET S }
           f == [A \in SUBSET S |-> A \cup {x}]
<1>1. IsFiniteSet(SUBSET S)
  BY FS_SUBSET
<1>2. f \in Bijection(SUBSET S, with)
  <2>1. \A A, B \in SUBSET S : A \cup {x} = B \cup {x} => A = B
    OBVIOUS
  <2>2. f \in [SUBSET S -> with] /\ \A A \in SUBSET S : f[A] = A \cup {x}
    OBVIOUS
  <2>3. \A t \in with : \E A \in SUBSET S : t = A \cup {x}
    OBVIOUS
  <2>4. IsInjective(f)
    <3>. HIDE DEF f, with
    <3>. QED BY <2>1, <2>2 DEF IsInjective
  <2>5. \A t \in with : \E A \in SUBSET S : f[A] = t
    <3>. HIDE DEF f, with
    <3>. QED BY <2>2, <2>3
  <2>. HIDE DEF f, with
  <2>. QED BY <2>2, <2>4, <2>5 DEF Bijection, Injection, Surjection
<1>3. IsFiniteSet(with) /\ Cardinality(with) = Cardinality(SUBSET S)
  <2>. HIDE DEF f, with
  <2>. QED BY <1>1, <1>2, FS_Bijection DEF ExistsBijection
<1>4. SUBSET (S \cup {x}) = (SUBSET S) \cup with
  <2>1. ASSUME NEW A \in SUBSET (S \cup {x}) PROVE A \in (SUBSET S) \cup with
    <3>1. CASE x \in A
      <4>1. A \ {x} \in SUBSET S /\ A = (A \ {x}) \cup {x}
        BY <3>1
      <4>. QED BY <4>1
    <3>2. CASE x \notin A
      BY <3>2
    <3>. QED BY <3>1, <3>2
  <2>2. (SUBSET S) \cup with \subseteq SUBSET (S \cup {x})
    OBVIOUS
  <2>. QED BY <2>1, <2>2
<1>5. (SUBSET S) \cap with = {}
  OBVIOUS
<1>6. Cardinality(SUBSET S) \in Nat /\ Cardinality({}) = 0
  BY <1>1, FS_CardinalityType, FS_EmptySet
<1> HIDE DEF with
<1>7. Cardinality((SUBSET S) \cup with)
        = Cardinality(SUBSET S) + Cardinality(with) - Cardinality((SUBSET S) \cap with)
  BY <1>1, <1>3, FS_Union
<1>8. Cardinality((SUBSET S) \cup with) = 2 * Cardinality(SUBSET S)
  <2>1. Cardinality((SUBSET S) \cap with) = 0
    BY <1>5, <1>6, Zenon
  <2>. QED BY <1>3, <1>6, <1>7, <2>1
<1>. QED BY <1>4, <1>8

(* Powers of two are positive and double.                                  *)
LEMMA Powers ==
  /\ 2 ^ 0 = 1
  /\ \A n \in Nat : 2 ^ n \in Nat /\ 2 ^ n > 0 /\ 2 ^ (n + 1) = 2 * 2 ^ n
<1>1. ASSUME NEW n \in Nat
      PROVE  /\ IsFiniteSet(1 .. n) /\ Cardinality(1 .. n) = n
             /\ Cardinality(SUBSET (1 .. n)) = 2 ^ n /\ 2 ^ n \in Nat
  <2>1. IsFiniteSet(1 .. n) /\ Cardinality(1 .. n) = n
    BY FS_Interval
  <2>2. IsFiniteSet(SUBSET (1 .. n)) /\ Cardinality(SUBSET (1 .. n)) = 2 ^ n
    BY <2>1, FS_SUBSET
  <2>. QED BY <2>1, <2>2, FS_CardinalityType
<1>2. 2 ^ 0 = 1
  OBVIOUS
<1>3. ASSUME NEW n \in Nat PROVE 2 ^ (n + 1) = 2 * 2 ^ n
  <2>1. 1 .. n + 1 = (1 .. n) \cup {n + 1} /\ n + 1 \notin 1 .. n /\ n + 1 \in Nat
    OBVIOUS
  <2>2. Cardinality(SUBSET (1 .. n + 1)) = 2 * Cardinality(SUBSET (1 .. n))
    BY <1>1, <2>1, SubsetsDouble
  <2>. QED BY <1>1, <2>1, <2>2
<1>4. ASSUME NEW n \in Nat PROVE 2 ^ n > 0
  <2> DEFINE S == { k \in Nat : 2 ^ k > 0 }
  <2>1. 0 \in S
    BY <1>2
  <2>2. \A k \in Nat : k \in S => k + 1 \in S
    BY <1>1, <1>3
  <2>3. Nat \subseteq S
    <3>. HIDE DEF S
    <3>. QED BY <2>1, <2>2, NatSetInduction
  <2>. QED BY <2>3
<1>. QED BY <1>1, <1>2, <1>3, <1>4

-----------------------------------------------------------------------------
(* Numbers.                                                                *)

Bit == {0, 1}

(* How a number is read from its bits: the first of them as often as need  *)
(* be, one at a time.                                                      *)
LEMMA ReadingBits ==
  ASSUME NEW bits \in Seq(Bit)
  PROVE  \E read \in [0 .. Len(bits) -> Nat] :
           /\ read[0] = 0 /\ FromBigEndian(bits) = read[Len(bits)]
           /\ \A i \in 1 .. Len(bits) : read[i] = 2 * read[i - 1] + bits[i]
<1> DEFINE n == Len(bits)
           reads(f) == [i \in 0 .. Len(bits) |-> IF i = 0 THEN 0 ELSE 2 * f[i - 1] + bits[i]]
           step == [i \in 1 .. n |-> [x \in Nat |-> 2 * x + bits[i]]]
           read == CHOOSE f : f = reads(f)
<1>1. n \in Nat /\ 0 \in Nat /\ \A i \in 1 .. n : bits[i] \in Nat
  BY DEF Bit
<1>2. step \in [1 .. n -> [Nat -> Nat]]
  <2>1. ASSUME NEW i \in 1 .. n, NEW x \in Nat PROVE 2 * x + bits[i] \in Nat
    BY <1>1
  <2>. QED BY <2>1
<1>3. PICK g \in [0 .. n -> Nat] : Follows(g, 0, step, n)
  <2>. HIDE DEF step, n
  <2>. QED BY <1>1, <1>2, RecursionExists
<1>4. \A i \in 1 .. n : g[i] = 2 * g[i - 1] + bits[i]
  <2>1. ASSUME NEW i \in 1 .. n PROVE g[i] = 2 * g[i - 1] + bits[i]
    <3>1. g[i] = step[i][g[i - 1]] /\ i - 1 \in 0 .. n
      <4>. HIDE DEF step
      <4>. QED BY <1>1, <1>3 DEF Follows
    <3>2. g[i - 1] \in Nat
      BY <1>3, <3>1
    <3>. QED BY <3>1, <3>2
  <2>. QED BY <2>1
<1>5. g[0] = 0
  BY <1>3 DEF Follows
<1>6. g = reads(g)
  <2>. HIDE DEF step
  <2>. QED BY <1>1, <1>3, <1>4, <1>5
<1>7. read = reads(read)
  <2>. HIDE DEF reads
  <2>. QED BY <1>6
<1> HIDE DEF read
<1>8. \A i \in 0 .. n : read[i] = IF i = 0 THEN 0 ELSE 2 * read[i - 1] + bits[i]
  BY <1>7
<1>9. \A i \in 0 .. n : read[i] = g[i]
  <2> DEFINE S == { i \in Nat : i <= n => read[i] = g[i] }
  <2>1. 0 \in S
    BY <1>1, <1>5, <1>8
  <2>2. ASSUME NEW i \in Nat, i \in S PROVE i + 1 \in S
    <3>1. SUFFICES ASSUME i + 1 <= n PROVE read[i + 1] = g[i + 1]
      OBVIOUS
    <3>2. i + 1 \in 1 .. n /\ i + 1 \in 0 .. n /\ i + 1 # 0 /\ (i + 1) - 1 = i /\ i <= n
      BY <1>1, <3>1
    <3>3. read[i + 1] = 2 * read[i] + bits[i + 1] /\ g[i + 1] = 2 * g[i] + bits[i + 1]
      BY <1>4, <1>8, <3>2
    <3>. QED BY <2>2, <3>2, <3>3
  <2>3. Nat \subseteq S
    <3>. HIDE DEF S
    <3>. QED BY <2>1, <2>2, NatSetInduction
  <2>. QED BY <1>1, <2>3
<1>10. FromBigEndian(bits) = g[n]
  <2>1. FromBigEndian(bits) = read[n]
    BY DEF FromBigEndian, read
  <2>. QED BY <1>1, <1>9, <2>1
<1>. QED BY <1>3, <1>4, <1>5, <1>10

(* A quotient is the only number that fits.                                *)
LEMMA DivisionIsUnique ==
  ASSUME NEW n \in Nat, NEW p \in Nat, p > 0
  PROVE  /\ n \div p \in Nat /\ p * (n \div p) <= n /\ n < p * (n \div p) + p
         /\ \A q \in Nat : p * q <= n /\ n < p * q + p => n \div p = q
<1>1. n \div p \in Nat
  OBVIOUS
<1>2. p * (n \div p) <= n
  OBVIOUS
<1>3. n < p * (n \div p) + p
  OBVIOUS
<1>4. ASSUME NEW q \in Nat, p * q <= n, n < p * q + p PROVE n \div p = q
  BY <1>4
<1>. QED BY <1>1, <1>2, <1>3, <1>4

(* Dividing by twice as much drops the last bit.                           *)
LEMMA LastBit ==
  ASSUME NEW n \in Nat, NEW p \in Nat, p > 0
  PROVE  n \div p = 2 * (n \div (2 * p)) + ((n \div p) % 2)
<1> DEFINE q == n \div p
           h == q \div 2
           b == q % 2
<1>1. q \in Nat /\ p * q <= n /\ n < p * q + p
  BY DivisionIsUnique
<1> HIDE DEF q
<1>2. h \in Nat /\ b \in {0, 1} /\ q = 2 * h + b
  BY <1>1
<1> HIDE DEF h, b
<1>3. p * q = (2 * p) * h + p * b
  BY <1>2
<1>4. (2 * p) * h <= n /\ n < (2 * p) * h + 2 * p
  <2>1. p * b \in {0, p}
    BY <1>2
  <2>2. p * q \in Nat /\ (2 * p) * h \in Nat
    BY <1>1, <1>2
  <2>. QED BY <1>1, <1>3, <2>1, <2>2
<1>5. n \div (2 * p) = h
  <2>1. 2 * p \in Nat /\ 2 * p > 0
    OBVIOUS
  <2>. QED BY <1>2, <1>4, <2>1, DivisionIsUnique
<1>. QED BY <1>2, <1>5 DEF q, b

(* Numbers are read back from their bits, however many (read_aligned_be,   *)
(* from_be_bytes).                                                         *)
THEOREM BigEndianReadsBack ==
  ASSUME NEW k \in Nat, NEW n \in 0 .. 2 ^ k - 1
  PROVE  /\ BigEndian(n, k) \in Seq(Bit) /\ Len(BigEndian(n, k)) = k
         /\ FromBigEndian(BigEndian(n, k)) = n
<1> DEFINE bits == BigEndian(n, k)
<1>1. \A c \in Nat : 2 ^ c \in Nat /\ 2 ^ c > 0 /\ 2 ^ (c + 1) = 2 * 2 ^ c
  BY Powers
<1>2. n \in Nat /\ n < 2 ^ k
  BY <1>1
<1>3. \A i \in 1 .. k : bits[i] = (n \div 2 ^ (k - i)) % 2 /\ bits[i] \in Bit
  <2>1. ASSUME NEW i \in 1 .. k PROVE bits[i] = (n \div 2 ^ (k - i)) % 2 /\ bits[i] \in Bit
    <3>1. bits[i] = (n \div 2 ^ (k - i)) % 2
      BY DEF BigEndian
    <3>2. 2 ^ (k - i) \in Nat /\ 2 ^ (k - i) > 0
      BY <1>1
    <3>3. n \div 2 ^ (k - i) \in Nat
      BY <1>2, <3>2, DivisionIsUnique
    <3>. QED BY <3>1, <3>3 DEF Bit
  <2>. QED BY <2>1
<1>4. bits \in Seq(Bit) /\ Len(bits) = k
  <2>1. bits = [i \in 1 .. k |-> bits[i]]
    BY DEF BigEndian
  <2>. HIDE DEF bits
  <2>. QED BY <1>3, <2>1
<1> HIDE DEF bits
<1>5. PICK read \in [0 .. k -> Nat] :
         /\ read[0] = 0 /\ FromBigEndian(bits) = read[k]
         /\ \A i \in 1 .. k : read[i] = 2 * read[i - 1] + bits[i]
  BY <1>4, ReadingBits
<1> DEFINE S == { i \in Nat : i <= k => read[i] = n \div 2 ^ (k - i) }
<1>6. 0 \in S
  <2>1. 2 ^ k \in Nat /\ 2 ^ k > 0 /\ k - 0 = k
    BY <1>1
  <2>2. n \div 2 ^ k = 0
    BY <1>2, <2>1, DivisionIsUnique
  <2>. QED BY <1>5, <2>1, <2>2
<1>7. ASSUME NEW i \in Nat, i \in S PROVE i + 1 \in S
  <2>1. SUFFICES ASSUME i + 1 <= k PROVE read[i + 1] = n \div 2 ^ (k - (i + 1))
    OBVIOUS
  <2> DEFINE c == k - (i + 1)
             p == 2 ^ c
  <2>2. c \in Nat /\ c + 1 = k - i /\ i + 1 \in 1 .. k /\ (i + 1) - 1 = i
    BY <2>1
  <2>3. p \in Nat /\ p > 0 /\ 2 ^ (c + 1) = 2 * p
    <3>. HIDE DEF c
    <3>. QED BY <1>1, <2>2
  <2>4. read[i] = n \div (2 * p)
    <3>1. read[i] = n \div 2 ^ (k - i)
      BY <1>7, <2>1
    <3>. HIDE DEF c, p
    <3>. QED BY <2>2, <2>3, <3>1
  <2>5. read[i + 1] = 2 * read[i] + bits[i + 1] /\ bits[i + 1] = (n \div p) % 2
    BY <1>3, <1>5, <2>2
  <2>6. n \div p = 2 * (n \div (2 * p)) + ((n \div p) % 2)
    <3>. HIDE DEF p
    <3>. QED BY <1>2, <2>3, LastBit
  <2>. QED BY <2>4, <2>5, <2>6
<1>8. Nat \subseteq S
  <2>. HIDE DEF S
  <2>. QED BY <1>6, <1>7, NatSetInduction
<1>9. read[k] = n
  <2>1. read[k] = n \div 2 ^ (k - k) /\ k - k = 0
    <3>1. k \in S
      BY <1>8
    <3>. QED BY <3>1
  <2>2. 2 ^ (k - k) = 1
    BY <2>1, Powers
  <2>. QED BY <1>2, <2>1, <2>2
<1>. QED BY <1>4, <1>5, <1>9 DEF bits

(* ... also with the bits in the reverse order (the determinants that      *)
(* derive drains and fills).                                               *)
THEOREM LittleEndianReadsBack ==
  ASSUME NEW k \in Nat, NEW n \in 0 .. 2 ^ k - 1
  PROVE  /\ LittleEndian(n, k) \in Seq(Bit) /\ Len(LittleEndian(n, k)) = k
         /\ FromLittleEndian(LittleEndian(n, k)) = n
<1> DEFINE little == LittleEndian(n, k)
           big == BigEndian(n, k)
<1>1. big \in Seq(Bit) /\ Len(big) = k /\ FromBigEndian(big) = n
  BY BigEndianReadsBack
<1>2. \A i \in 1 .. k : little[i] = big[k + 1 - i] /\ big[i] = little[k + 1 - i]
  <2>1. ASSUME NEW i \in 1 .. k
        PROVE  little[i] = big[k + 1 - i] /\ big[i] = little[k + 1 - i]
    <3>1. /\ k - (k + 1 - i) = i - 1 /\ (k + 1 - i) - 1 = k - i
          /\ k + 1 - i \in 1 .. k
      OBVIOUS
    <3>. QED BY <3>1 DEF LittleEndian, BigEndian
  <2>. QED BY <2>1
<1>3. little \in Seq(Bit) /\ Len(little) = k
  <2>1. little = [i \in 1 .. k |-> little[i]]
    BY DEF LittleEndian
  <2>2. \A i \in 1 .. k : little[i] \in Bit
    <3>1. \A i \in 1 .. k : k + 1 - i \in 1 .. k
      OBVIOUS
    <3>. HIDE DEF little, big
    <3>. QED BY <1>1, <1>2, <3>1
  <2>. HIDE DEF little
  <2>. QED BY <2>1, <2>2
<1>4. Reverse(little) = big
  <2>1. Reverse(little) = [i \in 1 .. k |-> little[k - i + 1]]
    <3>. HIDE DEF little
    <3>. QED BY <1>3 DEF Reverse
  <2>2. big = [i \in 1 .. k |-> big[i]]
    BY DEF BigEndian
  <2>3. \A i \in 1 .. k : k - i + 1 = k + 1 - i
    OBVIOUS
  <2>. HIDE DEF little, big
  <2>. QED BY <1>2, <2>1, <2>2, <2>3
<1>. QED BY <1>1, <1>3, <1>4 DEF FromLittleEndian

(* A determinant has room for the number of every variant.                 *)
LEMMA DeterminantsFit ==
  ASSUME NEW variants \in Nat
  PROVE  DeterminantBits(variants) \in Nat /\ variants <= 2 ^ DeterminantBits(variants)
<1>1. \A c \in Nat : 2 ^ c \in Nat /\ 2 ^ c > 0 /\ 2 ^ (c + 1) = 2 * 2 ^ c
  BY Powers
<1> DEFINE S == { c \in Nat : c < 2 ^ c }
           Enough == { c \in 0 .. variants : variants <= 2 ^ c }
<1>2. variants \in Enough
  <2>1. 0 \in S
    BY Powers
  <2>2. ASSUME NEW c \in Nat, c \in S PROVE c + 1 \in S
    BY <1>1, <2>2
  <2>3. Nat \subseteq S
    <3>. HIDE DEF S
    <3>. QED BY <2>1, <2>2, NatSetInduction
  <2>4. variants \in S
    <3>. HIDE DEF S
    <3>. QED BY <2>3
  <2>. QED BY <1>1, <2>4
<1>3. PICK least \in Enough : \A c \in Enough : least <= c
  <2>1. Enough \subseteq Nat /\ Enough # {}
    BY <1>2
  <2>. HIDE DEF Enough
  <2>. QED BY <2>1, LeastOf
<1> DEFINE Fits(b) == 2 ^ b >= variants /\ \A c \in 0 .. variants : 2 ^ c >= variants => b <= c
<1>4. least \in 0 .. variants /\ Fits(least)
  BY <1>1, <1>3
<1>5. DeterminantBits(variants) = CHOOSE b \in 0 .. variants : Fits(b)
  BY DEF DeterminantBits
<1>6. DeterminantBits(variants) \in 0 .. variants /\ Fits(DeterminantBits(variants))
  <2>. HIDE DEF Fits
  <2>. QED BY <1>4, <1>5
<1>. QED BY <1>1, <1>6

-----------------------------------------------------------------------------
(* Variable-length quantities.                                             *)

(* The bits of k bytes are those that count them and those of the value.   *)
LEMMA QuantityParts ==
  ASSUME NEW k \in 1 .. ByteBits + 1
  PROVE  /\ UnaryBits(k) \in 1 .. ByteBits /\ ValueBits(k) \in Nat
         /\ UnaryBits(k) + ValueBits(k) = ByteBits * k
         /\ ByteBits * k \in Nat /\ ByteBits <= ByteBits * k
<1>1. ByteBits \in Nat /\ ByteBits > 0 /\ k \in Nat /\ k >= 1
  BY FormatConstants
<1>2. UnaryBits(k) \in 1 .. ByteBits
  BY <1>1 DEF UnaryBits
<1>3. ByteBits * k \in Nat /\ ByteBits <= ByteBits * k
  <2>1. ByteBits * k = ByteBits * (k - 1) + ByteBits /\ ByteBits * (k - 1) \in Nat
    BY <1>1
  <2>. QED BY <1>1, <2>1
<1>. QED BY <1>1, <1>2, <1>3 DEF ValueBits

(* Every quantity has a shortest form.                                     *)
LEMMA QuantityFits ==
  ASSUME NEW n \in Lengths
  PROVE  VlqBytes(n) \in 1 .. ByteBits + 1 /\ n \in 0 .. 2 ^ ValueBits(VlqBytes(n)) - 1
<1> DEFINE Suffices(k) == n < 2 ^ ValueBits(k)
           Enough == { k \in 1 .. ByteBits + 1 : Suffices(k) }
           Shortest(k) == n < 2 ^ ValueBits(k) /\ (k > 1 => n >= 2 ^ ValueBits(k - 1))
<1>1. ByteBits \in Nat /\ ByteBits > 0
  BY FormatConstants
<1>2. \A k \in 1 .. ByteBits + 1 : 2 ^ ValueBits(k) \in Nat
  BY QuantityParts, Powers
<1>3. n \in Nat /\ Enough # {}
  BY DEF Lengths
<1>4. PICK least \in Enough : \A k \in Enough : least <= k
  <2>1. Enough \subseteq Nat /\ Enough # {}
    BY <1>3
  <2>. HIDE DEF Enough
  <2>. QED BY <2>1, LeastOf
<1>5. Shortest(least)
  <2>1. least \in 1 .. ByteBits + 1 /\ n < 2 ^ ValueBits(least)
    BY <1>4
  <2>2. ASSUME least > 1 PROVE n >= 2 ^ ValueBits(least - 1)
    <3>1. least - 1 \in 1 .. ByteBits + 1 /\ ~(least <= least - 1)
      BY <1>1, <2>1, <2>2
    <3>2. ~Suffices(least - 1)
      <4>. HIDE DEF Suffices
      <4>. QED BY <1>4, <3>1
    <3>. QED BY <1>2, <1>3, <3>1, <3>2
  <2>. QED BY <2>1, <2>2
<1>6. VlqBytes(n) = CHOOSE k \in 1 .. ByteBits + 1 : Shortest(k)
  BY DEF VlqBytes
<1>7. VlqBytes(n) \in 1 .. ByteBits + 1 /\ Shortest(VlqBytes(n))
  <2>1. least \in 1 .. ByteBits + 1
    BY <1>4
  <2>. HIDE DEF Shortest
  <2>. QED BY <1>5, <1>6, <2>1
<1>. QED BY <1>2, <1>3, <1>7

(* The bits of a quantity: as many ones as further bytes, then a zero      *)
(* unless the first byte is full, then its number.                         *)
LEMMA QuantityBitsOf ==
  ASSUME NEW n \in Lengths
  PROVE  /\ Vlq(n) \in Seq(Bit) /\ Len(Vlq(n)) = ByteBits * VlqBytes(n)
         /\ \A i \in 1 .. UnaryBits(VlqBytes(n)) :
              Vlq(n)[i] = IF i < VlqBytes(n) THEN 1 ELSE 0
         /\ \A i \in 1 .. ValueBits(VlqBytes(n)) :
              Vlq(n)[UnaryBits(VlqBytes(n)) + i] = BigEndian(n, ValueBits(VlqBytes(n)))[i]
<1> DEFINE k == VlqBytes(n)
           u == UnaryBits(k)
           ones == [i \in 1 .. UnaryBits(k) |-> IF i < k THEN 1 ELSE 0]
           big == BigEndian(n, ValueBits(k))
<1>1. k \in 1 .. ByteBits + 1 /\ n \in 0 .. 2 ^ ValueBits(k) - 1
  BY QuantityFits
<1>2. Vlq(n) = ones \o big
  BY DEF Vlq
<1> HIDE DEF k
<1>3. /\ u \in 1 .. ByteBits /\ ValueBits(k) \in Nat /\ u + ValueBits(k) = ByteBits * k
      /\ u \in Nat
  BY <1>1, QuantityParts, FormatConstants
<1>4. big \in Seq(Bit) /\ Len(big) = ValueBits(k)
  BY <1>1, <1>3, BigEndianReadsBack
<1>5. ones \in Seq(Bit) /\ Len(ones) = u /\ \A i \in 1 .. u : ones[i] = IF i < k THEN 1 ELSE 0
  <2>. HIDE DEF u
  <2>. QED BY <1>3 DEF Bit, u
<1> HIDE DEF u, ones, big
<1>6. /\ ones \o big \in Seq(Bit) /\ Len(ones \o big) = u + ValueBits(k)
      /\ \A i \in 1 .. u : (ones \o big)[i] = ones[i]
      /\ \A i \in 1 .. ValueBits(k) : (ones \o big)[u + i] = big[i]
  BY <1>3, <1>4, <1>5
<1>. QED BY <1>2, <1>3, <1>5, <1>6 DEF k, u, big

(* The first byte of a quantity tells how long it is, and the rest is its  *)
(* number, whatever is behind it on the stream.                            *)
THEOREM QuantityReadsBack ==
  ASSUME NEW n \in Lengths, NEW bits \in Seq(Bit), ByteBits <= Len(bits),
         \A i \in 1 .. ByteBits : bits[i] = Vlq(n)[i]
  PROVE  /\ VlqLength(bits) = VlqBytes(n)
         /\ Len(Vlq(n)) <= Len(bits) /\ (\A i \in 1 .. Len(Vlq(n)) : bits[i] = Vlq(n)[i])
              => FromVlq(bits) = n
<1> DEFINE k == VlqBytes(n)
           u == UnaryBits(k)
           w == ValueBits(k)
           Length(j) == (j <= ByteBits => bits[j] = 0) /\ \A i \in 1 .. j - 1 : bits[i] = 1
<1>1. /\ ByteBits \in Nat /\ ByteBits > 0 /\ Len(bits) \in Nat
      /\ k \in 1 .. ByteBits + 1 /\ n \in 0 .. 2 ^ w - 1
  BY QuantityFits, FormatConstants
<1>2. u \in 1 .. ByteBits /\ w \in Nat /\ u + w = ByteBits * k /\ ByteBits <= ByteBits * k
  BY <1>1, QuantityParts
<1>3. /\ Vlq(n) \in Seq(Bit) /\ Len(Vlq(n)) = u + w
      /\ \A i \in 1 .. u : Vlq(n)[i] = IF i < k THEN 1 ELSE 0
      /\ \A i \in 1 .. w : Vlq(n)[u + i] = BigEndian(n, w)[i]
  BY <1>2, QuantityBitsOf
<1>4. (k <= ByteBits => u = k) /\ (k > ByteBits => u = ByteBits /\ k = ByteBits + 1)
  BY <1>1 DEF UnaryBits
<1>5. VlqLength(bits) = CHOOSE j \in 1 .. ByteBits + 1 : Length(j)
  BY DEF VlqLength
<1> HIDE DEF k, u, w
<1>6. Length(k)
  <2>1. ASSUME k <= ByteBits PROVE bits[k] = 0
    <3>1. k \in 1 .. u /\ k \in 1 .. ByteBits
      BY <1>1, <1>4, <2>1
    <3>. QED BY <1>3, <3>1
  <2>2. ASSUME NEW i \in 1 .. k - 1 PROVE bits[i] = 1
    <3>1. i \in 1 .. u /\ i \in 1 .. ByteBits /\ i < k
      BY <1>1, <1>2, <1>4
    <3>. QED BY <1>3, <3>1
  <2>. QED BY <2>1, <2>2
<1>7. ASSUME NEW j \in 1 .. ByteBits + 1, Length(j) PROVE j = k
  <2>1. ASSUME NEW a \in 1 .. ByteBits + 1, NEW b \in 1 .. ByteBits + 1,
               Length(a), Length(b), a < b
        PROVE  FALSE
    <3>1. a <= ByteBits /\ a \in 1 .. b - 1
      BY <1>1, <2>1
    <3>2. bits[a] = 0 /\ bits[a] = 1
      BY <2>1, <3>1
    <3>. QED BY <3>2
  <2>2. ~(j < k) /\ ~(k < j)
    <3>. HIDE DEF Length
    <3>. QED BY <1>1, <1>6, <1>7, <2>1
  <2>. QED BY <1>1, <2>2
<1>8. VlqLength(bits) = k
  <2>. HIDE DEF Length
  <2>. QED BY <1>1, <1>5, <1>6, <1>7
<1>9. ASSUME Len(Vlq(n)) <= Len(bits), \A i \in 1 .. Len(Vlq(n)) : bits[i] = Vlq(n)[i]
      PROVE  FromVlq(bits) = n
  <2> DEFINE big == BigEndian(n, w)
             data == SubSeq(bits, u + 1, ByteBits * k)
  <2>1. FromVlq(bits) = FromBigEndian(data)
    BY <1>8 DEF FromVlq, u
  <2>2. big \in Seq(Bit) /\ Len(big) = w /\ FromBigEndian(big) = n
    BY <1>1, <1>2, BigEndianReadsBack
  <2> HIDE DEF big
  <2>3. data \in Seq(Bit) /\ Len(data) = w /\ \A i \in 1 .. w : data[i] = bits[u + i]
    <3>1. ByteBits * k <= Len(bits) /\ u \in Nat /\ ByteBits * k = u + w
      BY <1>2, <1>3, <1>9
    <3> DEFINE m == ByteBits * k
    <3>2. data = SubSeq(bits, u + 1, m)
      OBVIOUS
    <3>. HIDE DEF m, data
    <3>3. m = u + w /\ m <= Len(bits)
      BY <3>1 DEF m
    <3> DEFINE l == u + 1
    <3>4. /\ l \in 1 .. Len(bits) + 1 /\ m \in l - 1 .. Len(bits) /\ m - l + 1 = w
          /\ \A i \in 1 .. w : l + i - 1 = u + i
      BY <1>1, <1>2, <3>1, <3>3
    <3>5. data = SubSeq(bits, l, m)
      BY <3>2
    <3>. HIDE DEF l
    <3>6. data \in Seq(Bit) /\ Len(data) = w /\ \A i \in 1 .. w : data[i] = bits[l + i - 1]
      BY <3>4, <3>5, SubSeqProperties
    <3>. QED BY <3>4, <3>6
  <2> HIDE DEF data
  <2>4. ASSUME NEW i \in 1 .. w PROVE data[i] = big[i]
    <3>1. u + i \in 1 .. Len(Vlq(n))
      BY <1>2, <1>3
    <3>. QED BY <1>3, <1>9, <2>3, <3>1 DEF big
  <2>5. data = big
    BY <2>2, <2>3, <2>4, SeqEqual
  <2>. QED BY <2>1, <2>2, <2>5
<1>. QED BY <1>8, <1>9 DEF k

-----------------------------------------------------------------------------
(* The two sides of each codec agree.                                      *)

Values == { it.value : it \in Nested }

(* A frame that reads an item: it has the beginning of what the codec of   *)
(* the item wrote.                                                         *)
Reading(f, it) ==
  /\ it \in Nested /\ IsValue(it) /\ Readable(it)
  /\ f \in Frames /\ f.type = it.type /\ IsPrefix(f.got, Own(it).bits)

(* The deserializer wants more as long as the serializer wrote more; it    *)
(* has as many parts, of the same types, read; and it makes of the bits    *)
(* and of the values of the parts the value that was written.              *)
HasValues(f, it) ==
  /\ Len(f.parts) = Len(Own(it).parts)
  /\ \A j \in 1 .. Len(Own(it).parts) : f.parts[j] = Own(it).parts[j].value
Agrees(f, it) ==
  /\ f.got # Own(it).bits => ReadsOf(f).bits \in Len(f.got) + 1 .. Len(Own(it).bits)
  /\ f.got = Own(it).bits =>
       /\ ReadsOf(f).bits = Len(Own(it).bits)
       /\ Len(ReadsOf(f).parts) = Len(Own(it).parts)
       /\ \A j \in 1 .. Len(Own(it).parts) : ReadsOf(f).parts[j] = Own(it).parts[j].type
       /\ ~InvalidDeterminant(f)
       /\ HasValues(f, it) => ~Refuses(f) /\ ValueOf(f) = it.value

(* The beginnings of a sequence.                                           *)
LEMMA PrefixFacts ==
  ASSUME NEW S, NEW s \in Seq(S), NEW t \in Seq(S)
  PROVE  /\ IsPrefix(s, t) <=> Len(s) <= Len(t) /\ \A i \in 1 .. Len(s) : s[i] = t[i]
         /\ IsPrefix(s, t) /\ s # t => Len(s) < Len(t)
<1>1. Len(s) \in Nat /\ Len(t) \in Nat
  OBVIOUS
<1>2. SubSeq(s, 1, Len(s)) = s
  OBVIOUS
<1>3. ASSUME Len(s) <= Len(t)
      PROVE  /\ SubSeq(t, 1, Len(s)) \in Seq(S) /\ Len(SubSeq(t, 1, Len(s))) = Len(s)
             /\ \A i \in 1 .. Len(s) : SubSeq(t, 1, Len(s))[i] = t[i]
  BY <1>1, <1>3
<1>4. ASSUME Len(s) <= Len(t), \A i \in 1 .. Len(s) : s[i] = t[i]
      PROVE  SubSeq(t, 1, Len(s)) = s
  BY <1>1, <1>3, <1>4, SeqEqual
<1>5. ASSUME IsPrefix(s, t) PROVE Len(s) <= Len(t) /\ \A i \in 1 .. Len(s) : s[i] = t[i]
  BY <1>2, <1>3, <1>5 DEF IsPrefix
<1>6. ASSUME IsPrefix(s, t), s # t PROVE Len(s) < Len(t)
  BY <1>1, <1>5, <1>6, SeqEqual
<1>. QED BY <1>2, <1>4, <1>5, <1>6 DEF IsPrefix

(* What there is to know of every frame that reads an item.                *)
LEMMA ReadingFacts ==
  ASSUME NEW f, NEW it, Reading(f, it)
  PROVE  /\ Own(it).bits \in Seq(Bit) /\ Own(it).parts \in Seq(Nested)
         /\ f.got \in Seq(Bit) /\ f.parts \in Seq(Values)
         /\ Len(f.got) <= Len(Own(it).bits)
         /\ \A i \in 1 .. Len(f.got) : f.got[i] = Own(it).bits[i]
         /\ f.got # Own(it).bits => Len(f.got) < Len(Own(it).bits)
         /\ \A j \in 1 .. Len(Own(it).parts) : Own(it).parts[j].value \in Values
<1>1. Own(it).bits \in Seq(Bit) /\ Own(it).parts \in Seq(Nested)
  BY ItemsAreEncoded DEF IsEncoded, Reading, Bit
<1>2. f.got \in Seq(Bit) /\ f.parts \in Seq(Values)
  BY DEF Reading, Frames, Bit, Values
<1>3. \A j \in 1 .. Len(Own(it).parts) : Own(it).parts[j].value \in Values
  BY <1>1 DEF Values
<1> DEFINE b == Own(it).bits
<1>4. IsPrefix(f.got, b)
  BY DEF Reading
<1>5. b \in Seq(Bit)
  BY <1>1
<1> HIDE DEF b
<1>6. Len(f.got) <= Len(b) /\ (\A i \in 1 .. Len(f.got) : f.got[i] = b[i])
      /\ (f.got # b => Len(f.got) < Len(b))
  BY <1>2, <1>4, <1>5, PrefixFacts
<1>. QED BY <1>1, <1>2, <1>3, <1>6 DEF b

(* One bit stands for itself.                                              *)
LEMMA OneBit ==
  ASSUME NEW bit \in Bit
  PROVE  <<bit>> \in Seq(Bit) /\ Len(<<bit>>) = 1 /\ FromBigEndian(<<bit>>) = bit
<1> DEFINE bits == <<bit>>
<1>1. bits \in Seq(Bit) /\ Len(bits) = 1 /\ bits[1] = bit /\ bit \in Nat
  BY DEF Bit
<1> HIDE DEF bits
<1>2. PICK read \in [0 .. 1 -> Nat] :
        /\ read[0] = 0 /\ FromBigEndian(bits) = read[1]
        /\ \A i \in 1 .. 1 : read[i] = 2 * read[i - 1] + bits[i]
  BY <1>1, ReadingBits
<1>3. read[1] = 2 * read[1 - 1] + bits[1] /\ 1 - 1 = 0
  BY <1>2
<1>. QED BY <1>1, <1>2, <1>3 DEF bits

(* The parts of a sequence of values.                                      *)
LEMMA EachPart ==
  ASSUME NEW T, NEW values \in Seq(Values)
  PROVE  /\ Len(values) \in Nat /\ Len(Each(T, values)) = Len(values)
         /\ \A j \in 1 .. Len(values) : /\ Each(T, values)[j].type = T
                                        /\ Each(T, values)[j].value = values[j]
<1>1. Len(values) \in Nat
  OBVIOUS
<1>. QED BY <1>1 DEF Each, Part

(* Parts with the same values are the same.                                *)
LEMMA SameValues ==
  ASSUME NEW f, NEW it, NEW values \in Seq(Values), f.parts \in Seq(Values), HasValues(f, it),
         Len(Own(it).parts) = Len(values),
         \A j \in 1 .. Len(values) : Own(it).parts[j].value = values[j]
  PROVE  f.parts = values
<1> DEFINE parts == f.parts
<1>1. /\ parts \in Seq(Values) /\ Len(parts) = Len(values)
      /\ \A j \in 1 .. Len(values) : parts[j] = values[j]
  BY DEF HasValues
<1> HIDE DEF parts
<1>2. parts = values
  BY <1>1, SeqEqual
<1>. QED BY <1>2 DEF parts

(* Codecs that only hand on: unit, Box, Map, a user's future.              *)
LEMMA HandingOnAgrees ==
  ASSUME NEW f, NEW it, Reading(f, it), it.type.kind \in {"unit", "box", "future", "mapped"}
  PROVE  Agrees(f, it)
<1>1. /\ f.got \in Seq(Bit) /\ f.parts \in Seq(Values) /\ f.type = it.type
      /\ \A j \in 1 .. Len(Own(it).parts) : Own(it).parts[j].value \in Values
      /\ IsValue(it) /\ Readable(it)
      /\ f.got # Own(it).bits => Len(f.got) < Len(Own(it).bits)
  BY ReadingFacts DEF Reading
<1>2. CASE it.type.kind = "unit"
  <2>1. it.value = Value(0, <<>>)
    BY <1>1, <1>2 DEF IsValue
  <2>2. Own(it).bits = <<>> /\ Own(it).parts = <<>>
    BY <1>2 DEF Own, WritesOf, UnitWrites, Writes
  <2>3. ReadsOf(f).bits = 0 /\ ReadsOf(f).parts = <<>>
    BY <1>1, <1>2 DEF ReadsOf, UnitReads, Reads
  <2>4. f.got = <<>>
    BY <1>1, <2>2
  <2>5. ~InvalidDeterminant(f) /\ ~Refuses(f)
    BY <1>1, <1>2 DEF InvalidDeterminant, Refuses, TooLong
  <2>6. ValueOf(f) = Value(0, f.parts)
    BY <1>1, <1>2 DEF ValueOf
  <2>7. HasValues(f, it) => f.parts = <<>>
    BY <1>1, <2>2 DEF HasValues
  <2>. QED BY <2>1, <2>2, <2>3, <2>4, <2>5, <2>6, <2>7 DEF Agrees
<1>3. CASE it.type.kind \in {"box", "future", "mapped"}
  <2> DEFINE T == it.type.of[1]
             values == it.value.of
  <2>1. /\ it.value = Value(0, values) /\ values \in Seq(Values) /\ Len(values) = 1
        /\ Len(it.type.of) = 1
    <3>1. it.value.n = 0 /\ it.value = Value(it.value.n, values)
      BY <1>1, <1>3 DEF IsValue
    <3>. QED BY <1>1, <1>3, <3>1 DEF IsValue, Values
  <2>2. Own(it).bits = <<>> /\ Own(it).parts = Each(T, values)
    BY <1>3, <2>1 DEF Own, WritesOf, BoxWrites, MapWrites, Writes, Value
  <2>3. ReadsOf(f).bits = 0 /\ ReadsOf(f).parts = it.type.of
    BY <1>1, <1>3 DEF ReadsOf, BoxReads, MapReads, Reads
  <2> HIDE DEF values
  <2>4. /\ Len(Own(it).parts) = 1 /\ Own(it).parts[1].type = T
        /\ Own(it).parts[1].value = values[1]
    BY <2>1, <2>2, EachPart
  <2>5. f.got = <<>>
    BY <1>1, <2>2
  <2>6. ~InvalidDeterminant(f)
    BY <1>1, <1>3 DEF InvalidDeterminant
  <2>7. ASSUME HasValues(f, it) PROVE f.parts = values
    BY <1>1, <2>1, <2>4, <2>7, SameValues
  <2>8. ASSUME HasValues(f, it) PROVE ~Refuses(f)
    <3>1. it.type.kind = "mapped" => ~MapRefuses(f)
      <4> SUFFICES ASSUME it.type.kind = "mapped" PROVE ~MapRefuses(f)
        OBVIOUS
      <4>1. f.type.n \in Nat /\ values[1].n \in 0 .. f.type.n - 1
        BY <1>1 DEF Readable, values
      <4>. QED BY <2>7, <2>8, <4>1 DEF MapRefuses
    <3>. QED BY <1>1, <1>3, <3>1 DEF Refuses, TooLong
  <2>9. ValueOf(f) = Value(0, f.parts)
    BY <1>1, <1>3 DEF ValueOf
  <2>. QED BY <2>1, <2>2, <2>3, <2>4, <2>5, <2>6, <2>7, <2>8, <2>9 DEF Agrees
<1>. QED BY <1>2, <1>3

(* Codecs that convert: char, isize.                                       *)
LEMMA CastsAgree ==
  ASSUME NEW f, NEW it, Reading(f, it), it.type.kind \in {"char", "isize"}
  PROVE  Agrees(f, it)
<1> DEFINE plain == Value(it.value.n, <<>>)
<1>1. /\ f.got \in Seq(Bit) /\ f.parts \in Seq(Values) /\ f.type = it.type
      /\ IsValue(it) /\ Readable(it)
      /\ f.got # Own(it).bits => Len(f.got) < Len(Own(it).bits)
  BY ReadingFacts DEF Reading
<1>2. /\ it.value = plain /\ Len(it.type.of) = 1
      /\ it.type.n \in Nat /\ it.value.n \in 0 .. it.type.n - 1
  BY <1>1 DEF IsValue, Readable
<1>3. Own(it).bits = <<>> /\ Own(it).parts = <<Part(it.type.of[1], plain)>>
  BY DEF Own, WritesOf, CastWrites, Writes
<1>4. ReadsOf(f).bits = 0 /\ ReadsOf(f).parts = it.type.of
  BY <1>1 DEF ReadsOf, CastReads, Reads
<1>5. /\ Len(Own(it).parts) = 1 /\ Own(it).parts[1].type = it.type.of[1]
      /\ Own(it).parts[1].value = plain
  BY <1>3 DEF Part
<1>6. f.got = <<>> /\ ~InvalidDeterminant(f) /\ ValueOf(f) = f.parts[1]
  BY <1>1, <1>3 DEF InvalidDeterminant, ValueOf
<1>7. ASSUME HasValues(f, it) PROVE f.parts[1] = it.value /\ ~Refuses(f)
  <2>1. f.parts[1] = it.value
    BY <1>2, <1>5, <1>7 DEF HasValues
  <2>2. ~MapRefuses(f)
    BY <1>1, <1>2, <2>1 DEF MapRefuses
  <2>. QED BY <1>1, <2>1, <2>2 DEF Refuses, TooLong
<1>8. \A j \in 1 .. Len(Own(it).parts) : ReadsOf(f).parts[j] = Own(it).parts[j].type
  BY <1>4, <1>5
<1>9. Own(it).bits = <<>> /\ Len(ReadsOf(f).parts) = Len(Own(it).parts)
  BY <1>2, <1>3, <1>4, <1>5
<1> HIDE DEF plain
<1>. QED BY <1>4, <1>6, <1>7, <1>8, <1>9 DEF Agrees

(* Codecs of plain bits: bool, numbers.                                    *)
LEMMA PlainBitsAgree ==
  ASSUME NEW f, NEW it, Reading(f, it), it.type.kind \in {"bool", "number"}
  PROVE  Agrees(f, it)
<1> DEFINE n == it.value.n
           k == IF it.type.kind = "bool" THEN 1 ELSE ByteBits * it.type.n
<1>1. /\ f.got \in Seq(Bit) /\ f.parts \in Seq(Values) /\ f.type = it.type
      /\ IsValue(it)
      /\ f.got # Own(it).bits => Len(f.got) < Len(Own(it).bits)
  BY ReadingFacts DEF Reading
<1>2. it.value = Value(n, <<>>)
  BY <1>1 DEF IsValue
<1>3. k \in Nat /\ Len(Own(it).bits) = k /\ FromBigEndian(Own(it).bits) = n
  <2>1. CASE it.type.kind = "bool"
    <3>1. n \in Bit
      BY <1>1, <2>1 DEF IsValue, Bit
    <3>2. Own(it).bits = <<n>>
      BY <2>1 DEF Own, WritesOf, BoolWrites, Writes
    <3>. QED BY <2>1, <3>1, <3>2, OneBit
  <2>2. CASE it.type.kind = "number"
    <3>1. it.type.n \in Nat /\ n \in 0 .. 2 ^ (ByteBits * it.type.n) - 1
      BY <1>1, <2>2 DEF IsValue
    <3>2. Own(it).bits = BigEndian(n, ByteBits * it.type.n)
      BY <2>2 DEF Own, WritesOf, NumberWrites, Writes
    <3>3. k = ByteBits * it.type.n /\ k \in Nat
      BY <2>2, <3>1, FormatConstants
    <3>. HIDE DEF n, k
    <3>. QED BY <3>1, <3>2, <3>3, BigEndianReadsBack
  <2>. QED BY <2>1, <2>2
<1>4. Own(it).parts = <<>>
  BY DEF Own, WritesOf, BoolWrites, NumberWrites, Writes
<1>5. ReadsOf(f).bits = k /\ ReadsOf(f).parts = <<>>
  BY <1>1 DEF ReadsOf, BoolReads, NumberReads, Reads
<1>6. ~InvalidDeterminant(f) /\ ~Refuses(f)
  BY <1>1 DEF InvalidDeterminant, Refuses, TooLong
<1>7. ValueOf(f) = Value(FromBigEndian(f.got), <<>>)
  BY <1>1 DEF ValueOf
<1>8. Len(f.got) \in Nat
  BY <1>1
<1> HIDE DEF n, k
<1>. QED BY <1>1, <1>2, <1>3, <1>4, <1>5, <1>6, <1>7, <1>8 DEF Agrees

(* Codecs of parts only: tuples, derived structs, arrays.                  *)
LEMMA ProductsAgree ==
  ASSUME NEW f, NEW it, Reading(f, it), it.type.kind \in {"tuple", "array"}
  PROVE  Agrees(f, it)
<1> DEFINE values == it.value.of
           T(j) == it.type.of[IF it.type.kind = "tuple" THEN j ELSE 1]
<1>1. /\ f.got \in Seq(Bit) /\ f.parts \in Seq(Values) /\ f.type = it.type
      /\ IsValue(it)
      /\ f.got # Own(it).bits => Len(f.got) < Len(Own(it).bits)
  BY ReadingFacts DEF Reading
<1>2. it.value = Value(0, values) /\ values \in Seq(Values)
  <2>1. it.value.n = 0 /\ it.value = Value(it.value.n, values)
    BY <1>1 DEF IsValue
  <2>. QED BY <1>1, <2>1 DEF IsValue, Values
<1>3. /\ it.type.kind = "tuple" => Len(values) = Len(it.type.of)
      /\ it.type.kind = "array" => Len(values) = it.type.n
  BY <1>1 DEF IsValue
<1>4. Own(it).bits = <<>>
  BY DEF Own, WritesOf, TupleWrites, ArrayWrites, Writes
<1>5. /\ Len(Own(it).parts) = Len(values)
      /\ \A j \in 1 .. Len(values) : /\ Own(it).parts[j].type = T(j)
                                     /\ Own(it).parts[j].value = values[j]
  <2>1. CASE it.type.kind = "tuple"
    <3>1. Own(it).parts = [j \in 1 .. Len(it.type.of) |-> Part(it.type.of[j], values[j])]
      BY <2>1 DEF Own, WritesOf, TupleWrites, Writes
    <3>. HIDE DEF values
    <3>. QED BY <1>2, <1>3, <2>1, <3>1 DEF Part
  <2>2. CASE it.type.kind = "array"
    <3>1. Own(it).parts = Each(it.type.of[1], values)
      BY <2>2 DEF Own, WritesOf, ArrayWrites, Writes
    <3>. HIDE DEF values
    <3>. QED BY <1>2, <2>2, <3>1, EachPart
  <2>. QED BY <2>1, <2>2
<1>6. /\ ReadsOf(f).bits = 0 /\ Len(ReadsOf(f).parts) = Len(values)
      /\ \A j \in 1 .. Len(values) : ReadsOf(f).parts[j] = T(j)
  <2>1. CASE it.type.kind = "tuple"
    <3>1. ReadsOf(f).bits = 0 /\ ReadsOf(f).parts = it.type.of
      BY <1>1, <2>1 DEF ReadsOf, TupleReads, Reads
    <3>. QED BY <1>3, <2>1, <3>1
  <2>2. CASE it.type.kind = "array"
    <3>1. /\ ReadsOf(f).bits = 0
          /\ ReadsOf(f).parts = [i \in 1 .. it.type.n |-> it.type.of[1]]
      BY <1>1, <2>2 DEF ReadsOf, ArrayReads, Reads
    <3>. HIDE DEF values
    <3>. QED BY <1>2, <1>3, <2>2, <3>1
  <2>. QED BY <2>1, <2>2
<1>7. f.got = <<>> /\ ~InvalidDeterminant(f) /\ ~Refuses(f) /\ ValueOf(f) = Value(0, f.parts)
  BY <1>1, <1>4 DEF InvalidDeterminant, Refuses, TooLong, ValueOf
<1>8. ASSUME HasValues(f, it) PROVE f.parts = values
  <2>. HIDE DEF values
  <2>. QED BY <1>1, <1>2, <1>5, <1>8, SameValues
<1> HIDE DEF T, values
<1>. QED BY <1>2, <1>4, <1>5, <1>6, <1>7, <1>8 DEF Agrees

(* Codecs of one bit that says what comes: Option, Result.                 *)
LEMMA OptionsAgree ==
  ASSUME NEW f, NEW it, Reading(f, it), it.type.kind = "option"
  PROVE  Agrees(f, it)
<1> DEFINE values == it.value.of
           T == it.type.of[1]
           l == Len(values)
<1>1. /\ f.got \in Seq(Bit) /\ f.parts \in Seq(Values) /\ f.type = it.type
      /\ IsValue(it)
      /\ f.got # Own(it).bits => Len(f.got) < Len(Own(it).bits)
  BY ReadingFacts DEF Reading
<1>2. it.value = Value(0, values) /\ values \in Seq(Values) /\ l \in Bit /\ Len(it.type.of) = 1
  <2>1. it.value.n = 0 /\ it.value = Value(it.value.n, values)
    BY <1>1 DEF IsValue
  <2>. QED BY <1>1, <2>1 DEF IsValue, Values, Bit
<1>3. Own(it).bits = <<l>> /\ Own(it).parts = Each(T, values)
  BY DEF Own, WritesOf, OptionWrites, Writes
<1>4. /\ ReadsOf(f).bits = 1
      /\ ReadsOf(f).parts = IF f.got = <<1>> THEN it.type.of ELSE <<>>
  BY <1>1 DEF ReadsOf, OptionReads, Reads
<1>5. /\ ~InvalidDeterminant(f) /\ ~Refuses(f) /\ ValueOf(f) = Value(0, f.parts)
  BY <1>1 DEF InvalidDeterminant, Refuses, TooLong, ValueOf
<1> HIDE DEF values
<1>6. /\ Len(Own(it).parts) = l
      /\ \A j \in 1 .. l : Own(it).parts[j].type = T /\ Own(it).parts[j].value = values[j]
  BY <1>2, <1>3, EachPart
<1>7. Len(Own(it).bits) = 1 /\ Len(f.got) \in Nat
  BY <1>1, <1>2, <1>3, OneBit
<1>8. ASSUME f.got = Own(it).bits
      PROVE  /\ Len(ReadsOf(f).parts) = l
             /\ \A j \in 1 .. l : ReadsOf(f).parts[j] = T
  <2>1. CASE l = 1
    <3>1. ReadsOf(f).parts = it.type.of
      BY <1>3, <1>4, <1>8, <2>1
    <3>. HIDE DEF l
    <3>. QED BY <1>2, <2>1, <3>1
  <2>2. CASE l = 0
    <3>1. f.got # <<1>>
      <4>1. f.got[1] = 0 /\ <<1>>[1] = 1
        BY <1>3, <1>8, <2>2
      <4>. QED BY <4>1
    <3>2. ReadsOf(f).parts = <<>>
      BY <1>4, <3>1
    <3>. HIDE DEF l
    <3>. QED BY <2>2, <3>2
  <2>. QED BY <1>2, <2>1, <2>2 DEF Bit
<1>9. ASSUME HasValues(f, it) PROVE f.parts = values
  BY <1>1, <1>2, <1>6, <1>9, SameValues
<1> HIDE DEF l, T
<1>. QED BY <1>1, <1>2, <1>4, <1>5, <1>6, <1>7, <1>8, <1>9 DEF Agrees

LEMMA ResultsAgree ==
  ASSUME NEW f, NEW it, Reading(f, it), it.type.kind = "result"
  PROVE  Agrees(f, it)
<1> DEFINE values == it.value.of
           n == it.value.n
           T == it.type.of[IF n = 1 THEN 1 ELSE 2]
<1>1. /\ f.got \in Seq(Bit) /\ f.parts \in Seq(Values) /\ f.type = it.type
      /\ IsValue(it)
      /\ f.got # Own(it).bits => Len(f.got) < Len(Own(it).bits)
  BY ReadingFacts DEF Reading
<1>2. it.value = Value(n, values) /\ values \in Seq(Values) /\ n \in Bit /\ Len(values) = 1
  BY <1>1 DEF IsValue, Values, Bit
<1>3. Own(it).bits = <<n>> /\ Own(it).parts = Each(T, values)
  BY DEF Own, WritesOf, ResultWrites, Writes
<1>4. /\ ReadsOf(f).bits = 1
      /\ ReadsOf(f).parts = <<it.type.of[IF f.got = <<1>> THEN 1 ELSE 2]>>
  BY <1>1 DEF ReadsOf, ResultReads, Reads
<1>5. /\ ~InvalidDeterminant(f) /\ ~Refuses(f)
      /\ ValueOf(f) = Value(FromBigEndian(f.got), f.parts)
  BY <1>1 DEF InvalidDeterminant, Refuses, TooLong, ValueOf
<1> HIDE DEF values
<1>6. /\ Len(Own(it).parts) = 1
      /\ Own(it).parts[1].type = T /\ Own(it).parts[1].value = values[1]
  BY <1>2, <1>3, EachPart
<1>7. Len(Own(it).bits) = 1 /\ Len(f.got) \in Nat /\ FromBigEndian(Own(it).bits) = n
  BY <1>1, <1>2, <1>3, OneBit
<1>8. ASSUME f.got = Own(it).bits
      PROVE  Len(ReadsOf(f).parts) = 1 /\ ReadsOf(f).parts[1] = T
  <2>1. f.got = <<1>> <=> n = 1
    <3>1. f.got[1] = n /\ <<1>>[1] = 1
      BY <1>3, <1>8
    <3>. QED BY <1>3, <1>8, <3>1
  <2>. QED BY <1>4, <2>1
<1>9. ASSUME HasValues(f, it) PROVE f.parts = values
  BY <1>1, <1>2, <1>6, <1>9, SameValues
<1> HIDE DEF n, T
<1>. QED BY <1>1, <1>2, <1>4, <1>5, <1>6, <1>7, <1>8, <1>9 DEF Agrees

(* What derive generates for an enum: the determinant, and the fields of   *)
(* the variant that it names.                                              *)
LEMMA EnumsAgree ==
  ASSUME NEW f, NEW it, Reading(f, it), it.type.kind = "enum"
  PROVE  Agrees(f, it)
<1> DEFINE values == it.value.of
           n == it.value.n
           variants == Len(it.type.of)
           fields == it.type.of[n + 1].of
           k == DeterminantBits(variants)
<1>1. /\ f.got \in Seq(Bit) /\ f.parts \in Seq(Values) /\ f.type = it.type
      /\ IsValue(it)
      /\ f.got # Own(it).bits => Len(f.got) < Len(Own(it).bits)
  BY ReadingFacts DEF Reading
<1>2. /\ it.value = Value(n, values) /\ values \in Seq(Values)
      /\ variants \in Nat /\ n \in 0 .. variants - 1 /\ Len(values) = Len(fields)
  BY <1>1 DEF IsValue, Values
<1>3. Own(it).bits = LittleEndian(n, k)
  BY DEF Own, WritesOf, DerivedWrites, Writes
<1>4. Own(it).parts = [j \in 1 .. Len(fields) |-> Part(fields[j], values[j])]
  BY DEF Own, WritesOf, DerivedWrites, TupleWrites, Writes
<1>5. /\ ReadsOf(f).bits = k
      /\ ReadsOf(f).parts
           = IF Determinant(f) < variants THEN it.type.of[Determinant(f) + 1].of ELSE <<>>
  BY <1>1 DEF ReadsOf, DerivedReads, Reads
<1>6. /\ InvalidDeterminant(f) => Determinant(f) >= variants
      /\ ~Refuses(f) /\ ValueOf(f) = Value(Determinant(f), f.parts)
  BY <1>1 DEF InvalidDeterminant, Refuses, TooLong, ValueOf
<1>7. k \in Nat /\ n \in 0 .. 2 ^ k - 1
  <2>1. k \in Nat /\ variants <= 2 ^ k
    <3>. HIDE DEF variants
    <3>. QED BY <1>2, DeterminantsFit
  <2>2. 2 ^ k \in Nat
    BY <2>1, Powers
  <2>. HIDE DEF n, variants, k
  <2>. QED BY <1>2, <2>1, <2>2
<1>8. Len(Own(it).bits) = k /\ FromLittleEndian(Own(it).bits) = n /\ Len(f.got) \in Nat
  <2>. HIDE DEF n, k
  <2>. QED BY <1>1, <1>3, <1>7, LittleEndianReadsBack
<1>9. f.got = Own(it).bits => Determinant(f) = n /\ ~InvalidDeterminant(f)
  <2>1. f.got = Own(it).bits => Determinant(f) = n
    BY <1>8 DEF Determinant
  <2>2. ~(n >= variants)
    <3>. HIDE DEF n, variants
    <3>. QED BY <1>2
  <2>. HIDE DEF n, variants
  <2>. QED BY <1>6, <2>1, <2>2
<1> HIDE DEF values
<1>10. /\ Len(Own(it).parts) = Len(values)
       /\ \A j \in 1 .. Len(values) : /\ Own(it).parts[j].type = fields[j]
                                      /\ Own(it).parts[j].value = values[j]
  <2>. HIDE DEF fields
  <2>. QED BY <1>2, <1>4 DEF Part
<1>11. ASSUME HasValues(f, it) PROVE f.parts = values
  <2>1. \A j \in 1 .. Len(values) : Own(it).parts[j].value = values[j]
    BY <1>10
  <2>. QED BY <1>1, <1>2, <1>10, <1>11, <2>1, SameValues, ZenonT(60)
<1> HIDE DEF n, variants, k
<1>. QED BY <1>1, <1>2, <1>5, <1>6, <1>8, <1>9, <1>10, <1>11, SMTT(60) DEF Agrees

-----------------------------------------------------------------------------
(* Lengths.  What a frame can tell of a quantity from the bits of it that  *)
(* it has: a byte is wanted, then as many as that says, and then it is     *)
(* there.                                                                  *)
LEMMA QuantityAgrees ==
  ASSUME NEW n \in Lengths, NEW got \in Seq(Bit),
         \A i \in 1 .. Len(got) : i <= Len(Vlq(n)) => got[i] = Vlq(n)[i]
  PROVE  /\ Len(got) \in Nat /\ Len(Vlq(n)) \in Nat /\ Vlq(n) \in Seq(Bit)
         /\ QuantityDone(got) <=> Len(got) >= Len(Vlq(n))
         /\ ~QuantityDone(got) => QuantityBits(got) \in Len(got) + 1 .. Len(Vlq(n))
         /\ QuantityDone(got) => QuantityBits(got) = Len(Vlq(n)) /\ FromVlq(got) = n
<1> DEFINE l == Len(got)
           q == Len(Vlq(n))
<1>1. n \in Lengths /\ ByteBits \in Nat /\ ByteBits > 0
  BY FormatConstants
<1>2. /\ Vlq(n) \in Seq(Bit) /\ q = ByteBits * VlqBytes(n) /\ ByteBits <= q
      /\ q \in Nat /\ l \in Nat
  <2>1. VlqBytes(n) \in 1 .. ByteBits + 1
    BY <1>1, QuantityFits
  <2>2. ByteBits <= ByteBits * VlqBytes(n) /\ ByteBits * VlqBytes(n) \in Nat
    BY <2>1, QuantityParts
  <2>. QED BY <1>1, <2>2, QuantityBitsOf
<1>3. CASE l < ByteBits
  <2>1. QuantityBits(got) = ByteBits
    BY <1>3 DEF QuantityBits
  <2>. HIDE DEF l, q
  <2>2. ~(l >= ByteBits) /\ ~(l >= q) /\ ByteBits \in l + 1 .. q
    BY <1>1, <1>2, <1>3
  <2>. QED BY <1>2, <2>1, <2>2 DEF QuantityDone, l, q
<1>4. CASE ~(l < ByteBits)
  <2>1. ByteBits <= l
    <3>. HIDE DEF l
    <3>. QED BY <1>1, <1>2, <1>4
  <2>2. \A i \in 1 .. ByteBits : got[i] = Vlq(n)[i]
    <3>1. \A i \in 1 .. ByteBits : i \in 1 .. l /\ i <= q
      <4>. HIDE DEF l, q
      <4>. QED BY <1>1, <1>2, <2>1
    <3>. QED BY <3>1
  <2>3. /\ VlqLength(got) = VlqBytes(n)
        /\ q <= l /\ (\A i \in 1 .. q : got[i] = Vlq(n)[i]) => FromVlq(got) = n
    BY <1>1, <2>1, <2>2, QuantityReadsBack
  <2>4. QuantityBits(got) = q
    BY <1>2, <1>4, <2>3 DEF QuantityBits
  <2>5. ASSUME l >= q PROVE FromVlq(got) = n
    <3>1. q <= l /\ \A i \in 1 .. q : i \in 1 .. l /\ i <= q
      <4>. HIDE DEF l, q
      <4>. QED BY <1>2, <2>5
    <3>2. \A i \in 1 .. q : got[i] = Vlq(n)[i]
      BY <3>1
    <3>. QED BY <2>3, <3>1, <3>2
  <2>6. ~(l >= q) => q \in l + 1 .. q
    <3>. HIDE DEF l, q
    <3>. QED BY <1>2
  <2>. QED BY <1>2, <2>4, <2>5, <2>6 DEF QuantityDone
<1>. QED BY <1>3, <1>4

(* A Vec reads as many elements as the quantity before them says.          *)
LEMMA VecsAgree ==
  ASSUME NEW f, NEW it, Reading(f, it), it.type.kind = "vec"
  PROVE  Agrees(f, it)
<1> DEFINE values == it.value.of
           T == it.type.of[1]
           l == Len(values)
           bits == Own(it).bits
<1>1. /\ f.got \in Seq(Bit) /\ f.parts \in Seq(Values) /\ f.type = it.type
      /\ IsValue(it) /\ Readable(it) /\ Own(it).bits \in Seq(Bit)
      /\ Len(f.got) <= Len(Own(it).bits)
      /\ \A i \in 1 .. Len(f.got) : f.got[i] = Own(it).bits[i]
      /\ f.got # Own(it).bits => Len(f.got) < Len(Own(it).bits)
  BY ReadingFacts DEF Reading
<1>2. it.value = Value(0, values) /\ values \in Seq(Values) /\ l \in Lengths /\ l < UsizeLimit
  <2>1. it.value.n = 0 /\ it.value = Value(it.value.n, values)
    BY <1>1 DEF IsValue
  <2>2. values \in Seq(Values) /\ l \in Lengths
    BY <1>1 DEF IsValue, Values
  <2>3. l < UsizeLimit
    BY <1>1 DEF Readable
  <2>. QED BY <2>1, <2>2, <2>3
<1>3. bits = Vlq(l) /\ Own(it).parts = Each(T, values)
  BY DEF Own, WritesOf, VecWrites, Writes
<1>4. /\ ReadsOf(f).bits = QuantityBits(f.got)
      /\ ReadsOf(f).parts
           = IF LengthKnown(f) THEN [i \in 1 .. FromVlq(f.got) |-> T] ELSE <<>>
  BY <1>1 DEF ReadsOf, VecReads, Reads
<1>5. /\ ~InvalidDeterminant(f) /\ ValueOf(f) = Value(0, f.parts)
      /\ Refuses(f) => TooLong(f)
  BY <1>1 DEF InvalidDeterminant, Refuses, ValueOf
<1>6. /\ Len(f.got) \in Nat /\ Len(bits) \in Nat
      /\ QuantityDone(f.got) <=> Len(f.got) >= Len(bits)
      /\ ~QuantityDone(f.got) => QuantityBits(f.got) \in Len(f.got) + 1 .. Len(bits)
      /\ QuantityDone(f.got) => QuantityBits(f.got) = Len(bits) /\ FromVlq(f.got) = l
  <2>. HIDE DEF l
  <2>. QED BY <1>1, <1>2, <1>3, QuantityAgrees
<1> HIDE DEF values
<1>7. /\ l \in Nat /\ Len(Own(it).parts) = l
      /\ \A j \in 1 .. l : Own(it).parts[j].type = T /\ Own(it).parts[j].value = values[j]
  BY <1>2, <1>3, EachPart
<1>8. ASSUME f.got = bits
      PROVE  /\ QuantityDone(f.got) /\ LengthKnown(f) /\ ~TooLong(f)
             /\ Len(ReadsOf(f).parts) = l
             /\ \A j \in 1 .. l : ReadsOf(f).parts[j] = T
  <2>1. QuantityDone(f.got)
    BY <1>6, <1>8
  <2>2. LengthKnown(f) /\ ~TooLong(f)
    BY <1>2, <1>6, <2>1 DEF LengthKnown, TooLong
  <2>3. ReadsOf(f).parts = [i \in 1 .. l |-> T]
    BY <1>4, <1>6, <2>1, <2>2
  <2>. HIDE DEF l, T
  <2>. QED BY <1>7, <2>1, <2>2, <2>3
<1>9. ASSUME HasValues(f, it) PROVE f.parts = values
  BY <1>1, <1>2, <1>7, <1>9, SameValues
<1>10. f.got # bits => ~QuantityDone(f.got)
  <2>. HIDE DEF bits
  <2>. QED BY <1>1, <1>6 DEF bits
<1> HIDE DEF l, T
<1>. QED BY <1>2, <1>4, <1>5, <1>6, <1>7, <1>8, <1>9, <1>10 DEF Agrees

(* The bytes behind the quantity of a string are the ones of the string.   *)
LEMMA BytesReadBack ==
  ASSUME NEW bytes \in Seq(Byte), NEW n \in Lengths, n = Len(bytes)
  PROVE  LET pieces == [i \in 1 .. Len(bytes) |-> BigEndian(bytes[i].n, ByteBits)]
             data   == FlattenSeq(pieces)
         IN  /\ data \in Seq(Bit) /\ Len(data) = ByteBits * n
             /\ \A got \in Seq(Bit) :
                  got = Vlq(n) \o data =>
                    [i \in 1 .. Len(SubSeq(got, Len(Vlq(n)) + 1, Len(got))) \div ByteBits |->
                       Value(FromBigEndian(SubSeq(SubSeq(got, Len(Vlq(n)) + 1, Len(got)),
                               ByteBits * (i - 1) + 1, ByteBits * i)), <<>>)]
                      = bytes
<1> DEFINE pieces == [i \in 1 .. Len(bytes) |-> BigEndian(bytes[i].n, ByteBits)]
           data == FlattenSeq(pieces)
<1>1. ByteBits \in Nat /\ ByteBits > 0 /\ n \in Nat
  BY FormatConstants
<1>2. \A i \in 1 .. n : /\ bytes[i] = Value(bytes[i].n, <<>>)
                        /\ pieces[i] \in Seq(Bit) /\ Len(pieces[i]) = ByteBits
                        /\ FromBigEndian(pieces[i]) = bytes[i].n
  <2>1. ASSUME NEW i \in 1 .. n
        PROVE  /\ bytes[i] = Value(bytes[i].n, <<>>)
               /\ BigEndian(bytes[i].n, ByteBits) \in Seq(Bit)
               /\ Len(BigEndian(bytes[i].n, ByteBits)) = ByteBits
               /\ FromBigEndian(BigEndian(bytes[i].n, ByteBits)) = bytes[i].n
    <3> DEFINE b == bytes[i]
    <3>1. b \in Byte
      OBVIOUS
    <3> HIDE DEF b
    <3>2. b = Value(b.n, <<>>) /\ b.n \in 0 .. 2 ^ (ByteBits - 1) - 1
      BY <3>1 DEF Byte, Value
    <3>3. b.n \in 0 .. 2 ^ ByteBits - 1
      <4>1. /\ ByteBits - 1 \in Nat /\ (ByteBits - 1) + 1 = ByteBits
        BY <1>1
      <4>2. 2 ^ (ByteBits - 1) \in Nat /\ 2 ^ ByteBits = 2 * 2 ^ (ByteBits - 1)
        BY <4>1, Powers
      <4>. QED BY <3>2, <4>2
    <3>4. /\ BigEndian(b.n, ByteBits) \in Seq(Bit) /\ Len(BigEndian(b.n, ByteBits)) = ByteBits
          /\ FromBigEndian(BigEndian(b.n, ByteBits)) = b.n
      BY <1>1, <3>3, BigEndianReadsBack
    <3>. QED BY <3>2, <3>4 DEF b
  <2>. QED BY <2>1
<1>3. pieces \in Seq(Seq(Bit)) /\ Len(pieces) = n
  <2>1. pieces = [i \in 1 .. n |-> pieces[i]]
    OBVIOUS
  <2>. HIDE DEF pieces
  <2>. QED BY <1>1, <1>2, <2>1
<1> HIDE DEF pieces
<1>4. /\ data \in Seq(Bit) /\ Len(data) = ByteBits * n
      /\ \A i \in 1 .. n : SubSeq(data, ByteBits * (i - 1) + 1, ByteBits * i) = pieces[i]
  <2>1. /\ pieces \in Seq(Seq(Bit)) /\ ByteBits \in Nat /\ Len(pieces) = n
        /\ \A i \in 1 .. Len(pieces) : Len(pieces[i]) = ByteBits
    BY <1>1, <1>2, <1>3
  <2>2. /\ data \in Seq(Bit) /\ Len(data) = ByteBits * Len(pieces)
        /\ \A i \in 1 .. Len(pieces) :
             SubSeq(data, ByteBits * (i - 1) + 1, ByteBits * i) = pieces[i]
    BY <2>1, FlattenUniform
  <2>. QED BY <2>1, <2>2
<1> HIDE DEF data
<1>5. Vlq(n) \in Seq(Bit) /\ Len(Vlq(n)) \in Nat
  <2>. QED BY QuantityBitsOf
<1>6. ASSUME NEW got \in Seq(Bit), got = Vlq(n) \o data
      PROVE  SubSeq(got, Len(Vlq(n)) + 1, Len(got)) = data
  <2> DEFINE q == Vlq(n)
             d == data
  <2>1. q \in Seq(Bit) /\ d \in Seq(Bit) /\ got = q \o d
    BY <1>4, <1>5, <1>6
  <2> HIDE DEF q, d
  <2>2. SubSeq(q \o d, Len(q) + 1, Len(q \o d)) = d
    <3>1. /\ q \o d \in Seq(Bit) /\ Len(q) \in Nat /\ Len(d) \in Nat
          /\ Len(q \o d) = Len(q) + Len(d)
          /\ \A i \in 1 .. Len(d) : (q \o d)[Len(q) + i] = d[i]
      BY <2>1, ConcatParts
    <3> DEFINE both == q \o d
               m == Len(q) + 1
               rest == SubSeq(both, m, Len(both))
    <3>2. /\ both \in Seq(Bit) /\ m \in 1 .. Len(both) + 1 /\ Len(both) \in m - 1 .. Len(both)
          /\ Len(both) - m + 1 = Len(d) /\ \A i \in 1 .. Len(d) : m + i - 1 = Len(q) + i
          /\ \A i \in 1 .. Len(d) : both[Len(q) + i] = d[i]
      <4>. HIDE DEF both
      <4>. QED BY <3>1 DEF both
    <3> HIDE DEF both, m
    <3>3. rest \in Seq(Bit) /\ Len(rest) = Len(d) /\ \A i \in 1 .. Len(d) : rest[i] = both[m + i - 1]
      BY <3>2, SubSeqProperties
    <3> HIDE DEF rest
    <3>4. rest = d
      BY <2>1, <3>2, <3>3, SeqEqual, ZenonT(60)
    <3>. QED BY <3>4 DEF rest, both, m
  <2>. QED BY <2>1, <2>2 DEF q, d
<1>8. Len(data) \div ByteBits = n
  <2>1. ByteBits * n <= Len(data) /\ Len(data) < ByteBits * n + ByteBits /\ Len(data) \in Nat
    BY <1>1, <1>4
  <2>. QED BY <1>1, <2>1, DivisionIsUnique
<1>9. [i \in 1 .. Len(data) \div ByteBits |->
         Value(FromBigEndian(SubSeq(data, ByteBits * (i - 1) + 1, ByteBits * i)), <<>>)] = bytes
  <2>1. \A i \in 1 .. n :
          Value(FromBigEndian(SubSeq(data, ByteBits * (i - 1) + 1, ByteBits * i)), <<>>)
            = bytes[i]
    BY <1>2, <1>4
  <2>2. bytes = [i \in 1 .. n |-> bytes[i]]
    OBVIOUS
  <2>. QED BY <1>8, <2>1, <2>2
<1>. QED BY <1>4, <1>6, <1>9 DEF data, pieces

(* A string reads as many bytes as the quantity before them says.          *)
LEMMA StringsAgree ==
  ASSUME NEW f, NEW it, Reading(f, it), it.type.kind = "string"
  PROVE  Agrees(f, it)
<1> DEFINE bytes == it.value.of
           n == Len(bytes)
           data == FlattenSeq([i \in 1 .. Len(bytes) |-> BigEndian(bytes[i].n, ByteBits)])
           bits == Own(it).bits
           got == f.got
<1>1. /\ got \in Seq(Bit) /\ f.parts \in Seq(Values) /\ f.type = it.type
      /\ IsValue(it) /\ Readable(it) /\ bits \in Seq(Bit)
      /\ Len(got) <= Len(bits)
      /\ \A i \in 1 .. Len(got) : got[i] = bits[i]
      /\ got # bits => Len(got) < Len(bits)
  BY ReadingFacts DEF Reading
<1>2. it.value = Value(0, bytes) /\ bytes \in Seq(Byte) /\ n \in Lengths /\ n < UsizeLimit
  <2>1. it.value.n = 0 /\ it.value = Value(it.value.n, bytes)
    BY <1>1 DEF IsValue
  <2>2. bytes \in Seq(Byte) /\ n \in Lengths
    BY <1>1 DEF IsValue
  <2>3. n < UsizeLimit
    BY <1>1 DEF Readable
  <2>. QED BY <2>1, <2>2, <2>3
<1>3. bits = Vlq(n) \o data /\ Own(it).parts = <<>>
  BY DEF Own, WritesOf, BytesWrites, Writes
<1>4. /\ ReadsOf(f).bits = IF LengthKnown(f) THEN QuantityBits(got) + ByteBits * FromVlq(got)
                                             ELSE QuantityBits(got)
      /\ ReadsOf(f).parts = <<>>
  BY <1>1 DEF ReadsOf, StringReads, Reads
<1>5. /\ ~InvalidDeterminant(f) /\ ValueOf(f) = Value(0, BytesOf(f))
      /\ Refuses(f) => TooLong(f) \/ InvalidUtf8(f)
  BY <1>1 DEF InvalidDeterminant, Refuses, ValueOf
<1>6. BytesOf(f) =
        [i \in 1 .. Len(SubSeq(got, QuantityBits(got) + 1, Len(got))) \div ByteBits |->
           Value(FromBigEndian(SubSeq(SubSeq(got, QuantityBits(got) + 1, Len(got)),
                   ByteBits * (i - 1) + 1, ByteBits * i)), <<>>)]
  BY DEF BytesOf
<1>7. /\ data \in Seq(Bit) /\ Len(data) = ByteBits * n
      /\ got = Vlq(n) \o data =>
           [i \in 1 .. Len(SubSeq(got, Len(Vlq(n)) + 1, Len(got))) \div ByteBits |->
              Value(FromBigEndian(SubSeq(SubSeq(got, Len(Vlq(n)) + 1, Len(got)),
                      ByteBits * (i - 1) + 1, ByteBits * i)), <<>>)]
             = bytes
  BY <1>1, <1>2, BytesReadBack
<1>8. ByteBits \in Nat /\ n \in Nat /\ UsizeLimit \in Nat
  BY <1>2, FormatConstants, DeserializerConstants
<1> HIDE DEF data, n, bits, got
<1>9. /\ Vlq(n) \in Seq(Bit) /\ Len(Vlq(n)) \in Nat /\ ByteBits * n \in Nat
      /\ Len(bits) = Len(Vlq(n)) + ByteBits * n
      /\ \A i \in 1 .. Len(Vlq(n)) : bits[i] = Vlq(n)[i]
  <2> DEFINE q == Vlq(n)
  <2>1. q \in Seq(Bit)
    BY <1>2, QuantityBitsOf
  <2>2. bits = q \o data
    BY <1>3
  <2> HIDE DEF q
  <2>3. /\ Len(q \o data) = Len(q) + Len(data) /\ Len(q) \in Nat
        /\ \A i \in 1 .. Len(q) : (q \o data)[i] = q[i]
    <3>1. \A a, b \in Seq(Bit) :
            /\ Len(a \o b) = Len(a) + Len(b) /\ Len(a) \in Nat
            /\ \A i \in 1 .. Len(a) : (a \o b)[i] = a[i]
      BY ConcatParts
    <3>. QED BY <1>7, <2>1, <3>1, Zenon
  <2>4. ByteBits * n \in Nat
    BY <1>8
  <2>5. Len(bits) = Len(q) + ByteBits * n /\ \A i \in 1 .. Len(q) : bits[i] = q[i]
    BY <1>7, <2>2, <2>3, Zenon
  <2>. QED BY <2>1, <2>3, <2>4, <2>5 DEF q
<1>10. \A i \in 1 .. Len(got) : i <= Len(Vlq(n)) => got[i] = Vlq(n)[i]
  <2>1. Len(got) \in Nat
    BY <1>1
  <2>2. ASSUME NEW i \in 1 .. Len(got), i <= Len(Vlq(n)) PROVE got[i] = Vlq(n)[i]
    <3>1. i \in 1 .. Len(Vlq(n))
      BY <1>9, <2>1, <2>2
    <3>. QED BY <1>1, <1>9, <3>1
  <2>. QED BY <2>2
<1>11. /\ Len(got) \in Nat
       /\ QuantityDone(got) <=> Len(got) >= Len(Vlq(n))
       /\ ~QuantityDone(got) => QuantityBits(got) \in Len(got) + 1 .. Len(Vlq(n))
       /\ QuantityDone(got) => QuantityBits(got) = Len(Vlq(n)) /\ FromVlq(got) = n
  BY <1>1, <1>2, <1>10, QuantityAgrees
<1>12. LengthKnown(f) <=> QuantityDone(got)
  BY <1>2, <1>11 DEF LengthKnown, n, got
<1>13. ASSUME got # bits PROVE ReadsOf(f).bits \in Len(got) + 1 .. Len(bits)
  <2>1. CASE QuantityDone(got)
    <3>1. ReadsOf(f).bits = Len(bits)
      BY <1>4, <1>9, <1>11, <1>12, <2>1
    <3>2. Len(got) < Len(bits) /\ Len(bits) \in Nat
      BY <1>1, <1>13
    <3>. QED BY <1>11, <3>1, <3>2
  <2>2. CASE ~QuantityDone(got)
    <3>1. ReadsOf(f).bits \in Len(got) + 1 .. Len(Vlq(n))
      BY <1>4, <1>11, <1>12, <2>2
    <3>. QED BY <1>9, <1>11, <3>1
  <2>. QED BY <2>1, <2>2
<1>14. ASSUME got = bits
       PROVE  /\ ReadsOf(f).bits = Len(bits) /\ ~Refuses(f)
              /\ ValueOf(f) = it.value
  <2>1. QuantityDone(got)
    <3>1. Len(got) >= Len(Vlq(n))
      BY <1>9, <1>14
    <3>. QED BY <1>11, <3>1
  <2>2. ReadsOf(f).bits = Len(bits)
    BY <1>4, <1>9, <1>11, <1>12, <2>1
  <2>3. BytesOf(f) = bytes
    <3>1. QuantityBits(got) = Len(Vlq(n))
      BY <1>11, <2>1
    <3>. QED BY <1>3, <1>6, <1>7, <1>14, <3>1
  <2>4. ~TooLong(f)
    BY <1>12, <2>1 DEF TooLong
  <2>5. ~InvalidUtf8(f)
    <3>1. ASSUME NEW i \in 1 .. Len(bytes) PROVE ~(bytes[i].n >= 2 ^ (ByteBits - 1))
      <4>1. bytes[i].n \in 0 .. 2 ^ (ByteBits - 1) - 1
        <5> DEFINE b == bytes[i]
        <5>1. b \in Byte
          BY <1>2
        <5> HIDE DEF b
        <5>2. b.n \in 0 .. 2 ^ (ByteBits - 1) - 1
          BY <5>1 DEF Byte
        <5>. QED BY <5>2 DEF b
      <4>2. 2 ^ (ByteBits - 1) \in Nat
        <5>1. ByteBits - 1 \in Nat
          BY FormatConstants
        <5>. QED BY <5>1, Powers
      <4>. QED BY <4>1, <4>2
    <3>. QED BY <2>3, <3>1 DEF InvalidUtf8
  <2>6. ValueOf(f) = it.value
    BY <1>2, <1>5, <2>3
  <2>. QED BY <1>5, <2>2, <2>4, <2>5, <2>6
<1>15. /\ got # bits => ReadsOf(f).bits \in Len(got) + 1 .. Len(bits)
       /\ got = bits => /\ ReadsOf(f).bits = Len(bits)
                        /\ Len(ReadsOf(f).parts) = 0 /\ Len(Own(it).parts) = 0
                        /\ ~InvalidDeterminant(f) /\ ~Refuses(f)
                        /\ ValueOf(f) = it.value
  <2>1. Len(ReadsOf(f).parts) = 0 /\ Len(Own(it).parts) = 0
    BY <1>3, <1>4
  <2>. QED BY <1>5, <1>13, <1>14, <2>1
<1>. QED BY <1>15 DEF Agrees, got, bits

(* What the deserializer of a type reads is what its serializer wrote, and *)
(* it makes the value of it that was written: option.rs, result.rs,        *)
(* tuple.rs, array.rs, allocated.rs, primitive.rs, and derive.             *)
THEOREM SidesAgree ==
  ASSUME NEW f, NEW it, Reading(f, it)
  PROVE  Agrees(f, it)
<1>1. it.type.kind \in {"unit", "box", "future", "mapped", "char", "isize", "bool", "number",
                        "tuple", "array", "option", "result", "enum", "vec", "string"}
  BY DEF Reading, IsValue
<1>. QED BY <1>1, HandingOnAgrees, CastsAgree, PlainBitsAgree, ProductsAgree, OptionsAgree,
            ResultsAgree, EnumsAgree, VecsAgree, StringsAgree

-----------------------------------------------------------------------------
(* Where the parts of an item are in its encoding.                         *)

(* The encodings of its first parts, and what an encoding is made of.      *)
Before(it, k) == Joined(SubSeq(Own(it).parts, 1, k))

LEMMA BeforeGrows ==
  ASSUME NEW it \in Nested
  PROVE  /\ Own(it).parts \in Seq(Nested) /\ Len(Own(it).parts) \in Nat
         /\ Before(it, 0) = <<>>
         /\ Before(it, Len(Own(it).parts)) = Joined(Own(it).parts)
         /\ \A k \in 0 .. Len(Own(it).parts) : Before(it, k) \in Seq(Bit)
         /\ \A k \in 0 .. Len(Own(it).parts) - 1 :
              /\ Own(it).parts[k + 1] \in Nested
              /\ EncodingOf(Own(it).parts[k + 1]) \in Seq(Bit)
              /\ Before(it, k + 1) = Before(it, k) \o EncodingOf(Own(it).parts[k + 1])
<1> DEFINE parts == Own(it).parts
           l == Len(parts)
           Encoded(k) == [i \in 1 .. k |-> EncodingOf(parts[i])]
<1>1. parts \in Seq(Nested) /\ l \in Nat /\ \A i \in 1 .. l : parts[i] \in Nested
  <2>1. parts \in Seq(Nested)
    BY ItemsAreEncoded DEF IsEncoded
  <2>. HIDE DEF parts
  <2>. QED BY <2>1
<1>2. \A i \in 1 .. l : EncodingOf(parts[i]) \in Seq(Bit)
  BY <1>1, ItemsAreEncoded DEF IsEncoded, Bit
<1> HIDE DEF parts
<1>3. ASSUME NEW k \in 0 .. l PROVE Encoded(k) \in Seq(Seq(Bit)) /\ Len(Encoded(k)) = k
  <2>1. k \in Nat /\ \A i \in 1 .. k : EncodingOf(parts[i]) \in Seq(Bit)
    BY <1>1, <1>2
  <2>. QED BY <2>1
<1>4. ASSUME NEW k \in 0 .. l PROVE Joined(SubSeq(parts, 1, k)) = FlattenSeq(Encoded(k))
  <2> DEFINE beginning == SubSeq(parts, 1, k)
  <2>1. k \in Nat /\ Len(beginning) = k /\ \A i \in 1 .. k : beginning[i] = parts[i]
    <3>1. k \in Int /\ \A i \in 1 .. k : parts[i] \in Nested
      BY <1>1
    <3>2. /\ Len(beginning) = IF 1 <= k THEN k - 1 + 1 ELSE 0
          /\ \A i \in 1 .. k - 1 + 1 : beginning[i] = parts[1 + i - 1]
      BY <3>1, SubSeqProperties
    <3>. HIDE DEF beginning
    <3>. QED BY <3>1, <3>2
  <2> HIDE DEF beginning
  <2>2. [i \in 1 .. Len(beginning) |-> EncodingOf(beginning[i])] = Encoded(k)
    BY <2>1
  <2>3. Joined(beginning) = FlattenSeq(Encoded(k))
    BY <2>2 DEF Joined
  <2>. QED BY <2>3 DEF beginning
<1>5. Encoded(0) = <<>> /\ FlattenSeq(<<>>) = <<>>
  <2>1. Encoded(0) = <<>>
    OBVIOUS
  <2>2. FlattenSeq(<<>>) = <<>>
    BY DEF FlattenSeq
  <2>. HIDE DEF Encoded
  <2>. QED BY <2>1, <2>2
<1>6. ASSUME NEW k \in 0 .. l PROVE FlattenSeq(Encoded(k)) \in Seq(Bit)
  <2>. HIDE DEF Encoded
  <2>. QED BY <1>3, <1>6, FlattenHeadTail
<1>7. ASSUME NEW k \in 0 .. l - 1
      PROVE  FlattenSeq(Encoded(k + 1)) = FlattenSeq(Encoded(k)) \o EncodingOf(parts[k + 1])
  <2> DEFINE last == EncodingOf(parts[k + 1])
             before == Encoded(k)
             after == Encoded(k + 1)
  <2>1. /\ k \in 0 .. l /\ k + 1 \in 0 .. l /\ k + 1 \in 1 .. l /\ k \in Nat
        /\ last \in Seq(Bit)
    BY <1>1, <1>2
  <2>2. before \in Seq(Seq(Bit)) /\ Len(before) = k
    BY <1>3, <2>1
  <2>3. after = Append(before, last)
    <3>1. after \in Seq(Seq(Bit)) /\ Len(after) = k + 1
      BY <1>3, <2>1
    <3>2. /\ \A i \in 1 .. k : after[i] = before[i]
          /\ after[k + 1] = last
      BY <2>1
    <3> HIDE DEF before, after, last
    <3> DEFINE both == Append(before, last)
    <3>3. /\ both \in Seq(Seq(Bit)) /\ Len(both) = k + 1
          /\ \A i \in 1 .. k : both[i] = before[i]
          /\ both[k + 1] = last
      BY <2>1, <2>2, AppendProperties
    <3> HIDE DEF both
    <3>4. \A i \in 1 .. k + 1 : after[i] = both[i]
      <4>1. \A i \in 1 .. k + 1 : i \in 1 .. k \/ i = k + 1
        BY <2>1
      <4>. QED BY <3>2, <3>3, <4>1
    <3>5. after = both
      BY <3>1, <3>3, <3>4, SeqEqual
    <3>. QED BY <3>5 DEF both
  <2> HIDE DEF before, after, last
  <2>4. FlattenSeq(Append(before, last)) = FlattenSeq(before) \o last
    BY <2>1, <2>2, FlattenAppend
  <2>5. FlattenSeq(after) = FlattenSeq(before) \o last
    BY <2>3, <2>4
  <2>. QED BY <2>5 DEF before, after, last
<1>8. Joined(parts) = FlattenSeq(Encoded(l))
  BY DEF Joined
<1>9. \A k \in 0 .. l : Before(it, k) = FlattenSeq(Encoded(k))
  BY <1>4 DEF Before, parts
<1>10. /\ 0 \in 0 .. l /\ l \in 0 .. l
       /\ \A k \in 0 .. l - 1 : k \in 0 .. l /\ k + 1 \in 0 .. l /\ k + 1 \in 1 .. l
  BY <1>1
<1> HIDE DEF Encoded
<1>11. /\ Before(it, 0) = <<>> /\ Before(it, l) = Joined(parts)
       /\ \A k \in 0 .. l : Before(it, k) \in Seq(Bit)
  BY <1>5, <1>6, <1>8, <1>9, <1>10
<1>12. ASSUME NEW k \in 0 .. l - 1
       PROVE  /\ parts[k + 1] \in Nested /\ EncodingOf(parts[k + 1]) \in Seq(Bit)
              /\ Before(it, k + 1) = Before(it, k) \o EncodingOf(parts[k + 1])
  BY <1>1, <1>2, <1>7, <1>9, <1>10, Zenon
<1>. QED BY <1>1, <1>11, <1>12, Zenon DEF parts

LEMMA PartsInPlace ==
  ASSUME NEW it \in Nested
  PROVE  /\ EncodingOf(it) \in Seq(Bit) /\ Own(it).bits \in Seq(Bit)
         /\ Own(it).parts \in Seq(Nested) /\ Len(Own(it).parts) \in Nat
         /\ Holds(EncodingOf(it), 0, Own(it).bits)
         /\ Offset(it, 0) = Len(Own(it).bits)
         /\ Offset(it, Len(Own(it).parts)) = Len(EncodingOf(it))
         /\ \A k \in 0 .. Len(Own(it).parts) - 1 :
              /\ Own(it).parts[k + 1] \in Nested
              /\ Offset(it, k) \in Nat
              /\ Offset(it, k + 1) = Offset(it, k) + Len(EncodingOf(Own(it).parts[k + 1]))
              /\ Holds(EncodingOf(it), Offset(it, k), EncodingOf(Own(it).parts[k + 1]))
<1> DEFINE l == Len(Own(it).parts)
           bits == Own(it).bits
           whole == EncodingOf(it)
           part(k) == EncodingOf(Own(it).parts[k + 1])
           before(k) == Before(it, k)
<1>1. whole \in Seq(Bit) /\ bits \in Seq(Bit) /\ whole = bits \o Joined(Own(it).parts)
  BY ItemsAreEncoded DEF IsEncoded, Bit
<1>2. /\ Own(it).parts \in Seq(Nested) /\ l \in Nat
      /\ before(0) = <<>> /\ before(l) = Joined(Own(it).parts)
      /\ \A k \in 0 .. l : before(k) \in Seq(Bit)
  BY BeforeGrows
<1>3. \A k \in 0 .. l - 1 : /\ Own(it).parts[k + 1] \in Nested /\ part(k) \in Seq(Bit)
                            /\ before(k + 1) = before(k) \o part(k)
  BY BeforeGrows
<1>4. \A k : Offset(it, k) = Len(bits) + Len(before(k))
  BY DEF Offset, Before
<1>5. /\ 0 \in 0 .. l /\ l \in 0 .. l
      /\ \A k \in 0 .. l - 1 : k \in 0 .. l /\ k + 1 \in 0 .. l
  BY <1>2
<1> HIDE DEF l, bits, whole, part, before
<1>6. whole = bits \o before(l)
  BY <1>1, <1>2
<1>7. \A a, b \in Seq(Bit) :
        /\ Len(a) \in Nat /\ Len(b) \in Nat /\ Len(a \o b) = Len(a) + Len(b)
        /\ Holds(a \o b, 0, a) /\ Holds(a \o b, Len(a), b)
  <2>1. \A a, b \in Seq(Bit) :
          Len(a) \in Nat /\ Len(b) \in Nat /\ Len(a \o b) = Len(a) + Len(b)
    BY ConcatParts
  <2>2. \A a, b \in Seq(Bit) : Holds(a \o b, 0, a) /\ Holds(a \o b, Len(a), b)
    BY ConcatHolds
  <2>. QED BY <2>1, <2>2
<1>8. \A w, p, i \in Seq(Bit) : \A at, from \in Nat :
        Holds(w, at, p) /\ Holds(p, from, i) => Holds(w, at + from, i)
  BY HoldsWithin
<1>9. Holds(whole, 0, bits) /\ Holds(whole, Len(bits), before(l))
      /\ Len(whole) = Len(bits) + Len(before(l))
  <2>1. before(l) \in Seq(Bit)
    BY <1>2, <1>5
  <2>. QED BY <1>1, <1>6, <1>7, <2>1, Zenon
<1>10. Offset(it, 0) = Len(bits) /\ Offset(it, l) = Len(whole)
  <2>1. Len(before(0)) = 0 /\ Len(bits) \in Nat
    BY <1>1, <1>2
  <2>. QED BY <1>4, <1>9, <2>1
<1>11. ASSUME NEW k \in 0 .. l - 1
       PROVE  /\ Offset(it, k) \in Nat
              /\ Offset(it, k + 1) = Offset(it, k) + Len(part(k))
              /\ Holds(whole, Offset(it, k), part(k))
  <2>1. /\ before(k) \in Seq(Bit) /\ before(k + 1) \in Seq(Bit) /\ before(l) \in Seq(Bit)
        /\ part(k) \in Seq(Bit) /\ before(k + 1) = before(k) \o part(k)
    BY <1>2, <1>3, <1>5
  <2>2. /\ Len(before(k)) \in Nat /\ Len(part(k)) \in Nat
        /\ Len(before(k + 1)) = Len(before(k)) + Len(part(k))
        /\ Holds(before(k + 1), Len(before(k)), part(k))
    BY <1>7, <2>1, Zenon
  <2>3. Len(bits) \in Nat
    BY <1>1
  <2>4. Offset(it, k) \in Nat /\ Offset(it, k + 1) = Offset(it, k) + Len(part(k))
    BY <1>4, <2>2, <2>3
  <2> DEFINE S == { m \in Nat : (k + 1) + m <= l =>
                      Holds(before((k + 1) + m), 0, before(k + 1)) }
  <2>5. 0 \in S
    <3>1. before(k + 1) \o <<>> = before(k + 1) /\ <<>> \in Seq(Bit)
      BY <2>1, ConcatEmptySeq
    <3>2. Holds(before(k + 1), 0, before(k + 1))
      BY <1>7, <2>1, <3>1, Zenon
    <3>3. (k + 1) + 0 = k + 1
      OBVIOUS
    <3>. QED BY <3>2, <3>3
  <2>6. ASSUME NEW m \in Nat, m \in S PROVE m + 1 \in S
    <3> DEFINE j == (k + 1) + m
    <3>1. SUFFICES ASSUME j + 1 <= l PROVE Holds(before(j + 1), 0, before(k + 1))
      <4>1. (k + 1) + (m + 1) = j + 1
        OBVIOUS
      <4>. HIDE DEF j
      <4>. QED BY <4>1
    <3>2. j \in 0 .. l - 1 /\ j \in 0 .. l /\ j + 1 \in 0 .. l /\ j <= l
      BY <1>2, <3>1
    <3>3. Holds(before(j), 0, before(k + 1))
      <4>. HIDE DEF j
      <4>. QED BY <2>6, <3>2 DEF j
    <3> HIDE DEF j
    <3>4. /\ before(j) \in Seq(Bit) /\ before(j + 1) \in Seq(Bit) /\ part(j) \in Seq(Bit)
          /\ before(j + 1) = before(j) \o part(j)
      BY <1>2, <1>3, <3>2
    <3>5. Holds(before(j + 1), 0, before(j))
      BY <1>7, <3>4, Zenon
    <3>6. Holds(before(j + 1), 0 + 0, before(k + 1))
      <4>1. 0 \in Nat
        OBVIOUS
      <4>. QED BY <1>8, <2>1, <3>3, <3>4, <3>5, <4>1, Zenon
    <3>7. 0 + 0 = 0
      OBVIOUS
    <3>. QED BY <3>6, <3>7
  <2>7. Nat \subseteq S
    <3>. HIDE DEF S
    <3>. QED BY <2>5, <2>6, NatSetInduction
  <2>8. Holds(before(l), 0, before(k + 1))
    <3> DEFINE m == l - (k + 1)
    <3>1. m \in Nat /\ (k + 1) + m = l /\ (k + 1) + m <= l
      BY <1>2
    <3>2. m \in S
      <4>. HIDE DEF S, m
      <4>. QED BY <2>7, <3>1
    <3>. HIDE DEF m
    <3>3. Holds(before((k + 1) + m), 0, before(k + 1))
      BY <3>1, <3>2
    <3>. QED BY <3>1, <3>3
  <2>9. Holds(before(l), 0 + Len(before(k)), part(k))
    <3>1. 0 \in Nat
      OBVIOUS
    <3>. QED BY <1>8, <2>1, <2>2, <2>8, <3>1, Zenon
  <2>10. Holds(whole, Len(bits) + (0 + Len(before(k))), part(k))
    <3>1. 0 + Len(before(k)) \in Nat
      BY <2>2
    <3>. QED BY <1>1, <1>8, <1>9, <2>1, <2>3, <2>9, <3>1, Zenon
  <2>11. Len(bits) + (0 + Len(before(k))) = Offset(it, k)
    BY <1>4, <2>2
  <2>. QED BY <2>4, <2>10, <2>11
<1>. QED BY <1>1, <1>2, <1>3, <1>9, <1>10, <1>11, Zenon DEF l, bits, whole, part, before

-----------------------------------------------------------------------------
(* What a frame that reads an item does next.                              *)

LEMMA FrameReads ==
  ASSUME NEW f \in Frames, NEW it \in Nested, Readable(it), ReadsItem(f, it)
  PROVE  /\ f.got \in Seq(Bit) /\ f.parts \in Seq(Values)
         /\ Len(f.got) \in Nat /\ Len(f.parts) \in Nat
         /\ Missing(f) \in Nat
         /\ HeaderDone(f) <=> f.got = Own(it).bits
         /\ ~HeaderDone(f) =>
              f.parts = <<>> /\ Len(f.got) + Missing(f) <= Len(Own(it).bits)
         /\ ~InvalidDeterminant(f) /\ ~Refuses(f)
         /\ Whole(f) => Len(f.parts) = Len(Own(it).parts) /\ ValueOf(f) = it.value
         /\ HeaderDone(f) /\ Len(f.parts) < Len(PartsDue(f)) =>
              /\ Len(f.parts) \in 0 .. Len(Own(it).parts) - 1
              /\ PartsDue(f)[Len(f.parts) + 1] = Own(it).parts[Len(f.parts) + 1].type
<1> DEFINE bits == Own(it).bits
           parts == Own(it).parts
           got == f.got
           R == ReadsOf(f)
<1>1. it \in Nested /\ IsValue(it) /\ Reading(f, it) /\ Agrees(f, it)
  <2>1. IsValue(it)
    BY DeserializerConstants
  <2>2. Reading(f, it)
    BY <2>1 DEF Reading, ReadsItem
  <2>. QED BY <2>1, <2>2, SidesAgree
<1>2. /\ got \in Seq(Bit) /\ f.parts \in Seq(Values) /\ bits \in Seq(Bit)
      /\ parts \in Seq(Nested)
  BY <1>1, ReadingFacts
<1>3. Len(got) \in Nat /\ Len(f.parts) \in Nat /\ Len(bits) \in Nat /\ Len(parts) \in Nat
  BY <1>2
<1>4. got # bits => R.bits \in Len(got) + 1 .. Len(bits)
  BY <1>1 DEF Agrees
<1>5. got = bits => /\ R.bits = Len(bits) /\ Len(R.parts) = Len(parts)
                    /\ \A j \in 1 .. Len(parts) : R.parts[j] = parts[j].type
                    /\ ~InvalidDeterminant(f)
                    /\ HasValues(f, it) => ~Refuses(f) /\ ValueOf(f) = it.value
  BY <1>1 DEF Agrees
<1>6. /\ f.parts # <<>> => got = bits
      /\ Len(f.parts) <= Len(parts)
      /\ Len(f.parts) = Len(parts) => HasValues(f, it)
  BY DEF ReadsItem, HasValues
<1>7. Missing(f) = R.bits - Len(got) /\ (HeaderDone(f) <=> Missing(f) = 0)
  BY DEF Missing, HeaderDone
<1> HIDE DEF bits, parts, got, R
<1>8. /\ Missing(f) \in Nat
      /\ HeaderDone(f) <=> got = bits
      /\ ~HeaderDone(f) => Len(got) + Missing(f) <= Len(bits)
  BY <1>3, <1>4, <1>5, <1>7
<1>9. /\ Whole(f) => HeaderDone(f) /\ Len(f.parts) = Len(R.parts)
      /\ Refuses(f) => Whole(f)
      /\ InvalidDeterminant(f) => HeaderDone(f)
      /\ PartsDue(f) = R.parts
  BY DEF Whole, Refuses, InvalidDeterminant, PartsDue, R
<1>10. Whole(f) => Len(f.parts) = Len(parts) /\ ~Refuses(f) /\ ValueOf(f) = it.value
  BY <1>5, <1>6, <1>8, <1>9
<1>11. ASSUME HeaderDone(f), Len(f.parts) < Len(PartsDue(f))
       PROVE  /\ Len(f.parts) \in 0 .. Len(parts) - 1
              /\ PartsDue(f)[Len(f.parts) + 1] = parts[Len(f.parts) + 1].type
  <2>1. Len(PartsDue(f)) = Len(parts)
    BY <1>5, <1>8, <1>9, <1>11
  <2>2. Len(f.parts) \in 0 .. Len(parts) - 1 /\ Len(f.parts) + 1 \in 1 .. Len(parts)
    BY <1>3, <1>11, <2>1
  <2>. QED BY <1>5, <1>8, <1>9, <1>11, <2>2
<1>12. ~HeaderDone(f) => f.parts = <<>>
  BY <1>6, <1>8
<1>13. ~InvalidDeterminant(f) /\ ~Refuses(f)
  BY <1>5, <1>8, <1>9, <1>10
<1>. QED BY <1>2, <1>3, <1>8, <1>10, <1>11, <1>12, <1>13 DEF got, bits, parts

(* Bits that are read behind the beginning of what stands at a place on a  *)
(* stream are the next ones of it.                                         *)
LEMMA MoreOfIt ==
  ASSUME NEW bits \in Seq(Bit), NEW own \in Seq(Bit), NEW start \in Nat,
         Holds(bits, start, own), NEW got \in Seq(Bit), IsPrefix(got, own),
         NEW k \in Nat, k > 0, Len(got) + k <= Len(own),
         NEW at \in Nat, at = start + Len(got)
  PROVE  /\ got \o SubSeq(bits, at + 1, at + k) \in Seq(Bit)
         /\ Len(got \o SubSeq(bits, at + 1, at + k)) = Len(got) + k
         /\ IsPrefix(got \o SubSeq(bits, at + 1, at + k), own)
<1> DEFINE more == SubSeq(bits, at + 1, at + k)
           both == got \o more
<1>1. Len(got) \in Nat /\ Len(own) \in Nat /\ Len(bits) \in Nat
  OBVIOUS
<1>2. \A i \in 1 .. Len(got) : got[i] = own[i]
  BY PrefixFacts
<1>3. /\ start + Len(own) <= Len(bits)
      /\ \A j \in 1 .. Len(own) : bits[start + j] = own[j]
  BY DEF Holds
<1>4. /\ more \in Seq(Bit) /\ Len(more) = k
      /\ \A i \in 1 .. k : more[i] = bits[at + i]
  <2> DEFINE m == at + 1
             e == at + k
  <2>1. /\ m \in Int /\ e \in Int /\ m <= e /\ e - m + 1 = k
        /\ \A i \in m .. e : i \in 1 .. Len(bits)
        /\ \A i \in 1 .. k : m + i - 1 = at + i
    BY <1>1, <1>3
  <2>2. \A i \in m .. e : bits[i] \in Bit
    BY <2>1
  <2> DEFINE s == SubSeq(bits, m, e)
  <2>. HIDE DEF m, e
  <2>3. s \in Seq(Bit) /\ Len(s) = k /\ \A i \in 1 .. k : s[i] = bits[m + i - 1]
    BY <2>1, <2>2, SubSeqProperties
  <2>4. \A i \in 1 .. k : s[i] = bits[at + i]
    BY <2>1, <2>3
  <2>. HIDE DEF s
  <2>. QED BY <2>3, <2>4 DEF s, m, e
<1> HIDE DEF more
<1>5. /\ both \in Seq(Bit) /\ Len(both) = Len(got) + k
      /\ \A i \in 1 .. Len(got) : both[i] = got[i]
      /\ \A i \in 1 .. k : both[Len(got) + i] = more[i]
  <2>1. \A a, b \in Seq(Bit) :
          /\ a \o b \in Seq(Bit) /\ Len(a \o b) = Len(a) + Len(b)
          /\ \A i \in 1 .. Len(a) : (a \o b)[i] = a[i]
          /\ \A i \in 1 .. Len(b) : (a \o b)[Len(a) + i] = b[i]
    BY ConcatParts
  <2>2. /\ both \in Seq(Bit) /\ Len(both) = Len(got) + Len(more)
        /\ \A i \in 1 .. Len(got) : both[i] = got[i]
        /\ \A i \in 1 .. Len(more) : both[Len(got) + i] = more[i]
    BY <1>4, <2>1, Zenon
  <2>. HIDE DEF both
  <2>. QED BY <1>4, <2>2
<1> HIDE DEF both
<1>6. ASSUME NEW i \in 1 .. Len(both) PROVE both[i] = own[i]
  <2>1. CASE i \in 1 .. Len(got)
    BY <1>2, <1>5, <2>1
  <2>2. CASE i \notin 1 .. Len(got)
    <3> DEFINE j == i - Len(got)
    <3>1. j \in 1 .. k /\ Len(got) + j = i /\ i \in 1 .. Len(own)
      BY <1>1, <1>5, <2>2
    <3>2. at + j = start + i
      BY <1>1, <1>5
    <3>3. both[Len(got) + j] = bits[at + j]
      <4>. HIDE DEF j
      <4>. QED BY <1>4, <1>5, <3>1
    <3>. HIDE DEF j
    <3>. QED BY <1>3, <3>1, <3>2, <3>3
  <2>. QED BY <2>1, <2>2
<1>7. IsPrefix(both, own)
  BY <1>1, <1>5, <1>6, PrefixFacts
<1>. QED BY <1>5, <1>7 DEF both, more

(* It reads bits: those of its item.                                       *)
LEMMA FillReads ==
  ASSUME NEW f \in Frames, NEW it \in Nested, Readable(it), ReadsItem(f, it), ~HeaderDone(f)
  PROVE  \A bits \in Seq(Bit), start \in Nat, at \in Nat, k \in 1 .. Missing(f) :
           Holds(bits, start, EncodingOf(it)) /\ at = start + Len(f.got) =>
             /\ f.got \o SubSeq(bits, at + 1, at + k) \in Seq(Bit)
             /\ Len(f.got \o SubSeq(bits, at + 1, at + k)) = Len(f.got) + k
             /\ IsPrefix(f.got \o SubSeq(bits, at + 1, at + k), Own(it).bits)
<1> TAKE bits \in Seq(Bit), start \in Nat, at \in Nat, k \in 1 .. Missing(f)
<1> HAVE Holds(bits, start, EncodingOf(it)) /\ at = start + Len(f.got)
<1> DEFINE own == Own(it).bits
           whole == EncodingOf(it)
           got == f.got
<1>1. /\ got \in Seq(Bit) /\ Len(got) \in Nat
      /\ Missing(f) \in Nat /\ Len(got) + Missing(f) <= Len(own)
  BY FrameReads
<1>2. whole \in Seq(Bit) /\ own \in Seq(Bit) /\ Holds(whole, 0, own)
  BY PartsInPlace
<1>3. Holds(bits, start, own)
  <2>1. 0 \in Nat /\ start + 0 = start
    OBVIOUS
  <2>. HIDE DEF whole, own
  <2>2. Holds(bits, start, whole)
    BY DEF whole
  <2>3. Holds(bits, start + 0, own)
    BY <1>2, <2>1, <2>2, HoldsWithin
  <2>. QED BY <2>1, <2>3
<1>4. IsPrefix(got, own)
  BY DEF ReadsItem
<1>5. at = start + Len(got)
  OBVIOUS
<1> HIDE DEF own, got, whole
<1>6. k \in Nat /\ k > 0 /\ Len(got) + k <= Len(own)
  <2> DEFINE l == Len(got)
             m == Len(own)
             d == Missing(f)
  <2>1. l \in Nat /\ m \in Nat /\ d \in Nat /\ l + d <= m /\ k \in 1 .. d
    BY <1>1, <1>2
  <2>. HIDE DEF l, m, d
  <2>2. k \in Nat /\ k > 0 /\ l + k <= m
    BY <2>1
  <2>. QED BY <2>2 DEF l, m
<1>7. /\ got \o SubSeq(bits, at + 1, at + k) \in Seq(Bit)
      /\ Len(got \o SubSeq(bits, at + 1, at + k)) = Len(got) + k
      /\ IsPrefix(got \o SubSeq(bits, at + 1, at + k), own)
  BY <1>1, <1>2, <1>3, <1>4, <1>5, <1>6, MoreOfIt
<1>. QED BY <1>7 DEF got, own

(* It has a part read: the deserializer of the part starts where the part  *)
(* does.                                                                   *)
LEMMA DescendReads ==
  ASSUME NEW f \in Frames, NEW it \in Nested, Readable(it), ReadsItem(f, it), HeaderDone(f),
         Len(f.parts) < Len(PartsDue(f)),
         NEW bits \in Seq(Bit), NEW start \in Nat, Holds(bits, start, EncodingOf(it))
  PROVE  LET k    == Len(f.parts)
             part == Own(it).parts[k + 1]
             g    == FrameFor(PartsDue(f)[k + 1])
         IN  /\ part \in Nested /\ f.got = Own(it).bits /\ k < Len(Own(it).parts)
             /\ g \in Frames /\ ReadsItem(g, part) /\ g.got = <<>> /\ g.parts = <<>>
             /\ start + Offset(it, k) \in Nat
             /\ Holds(bits, start + Offset(it, k), EncodingOf(part))
             /\ Offset(it, k) + Len(EncodingOf(part)) <= Len(EncodingOf(it))
             /\ start + Offset(it, k)
                  = start + Len(f.got) + Len(Joined(SubSeq(Own(it).parts, 1, k)))
<1> DEFINE k == Len(f.parts)
           part == Own(it).parts[k + 1]
           g == FrameFor(PartsDue(f)[k + 1])
           whole == EncodingOf(it)
           inner == EncodingOf(part)
           at == Offset(it, k)
           l == Len(Own(it).parts)
<1>1. /\ f.got = Own(it).bits /\ k \in Nat /\ k \in 0 .. l - 1
      /\ PartsDue(f)[k + 1] = part.type
  BY FrameReads
<1>2. /\ whole \in Seq(Bit) /\ part \in Nested /\ at \in Nat /\ l \in Nat
      /\ Holds(whole, at, inner) /\ Own(it).parts \in Seq(Nested)
  <2>. HIDE DEF k, l
  <2>. QED BY <1>1, PartsInPlace DEF l
<1>3. inner \in Seq(Bit) /\ Own(part).bits \in Seq(Bit) /\ Own(part).parts \in Seq(Nested)
  <2>. HIDE DEF part
  <2>. QED BY <1>2, PartsInPlace
<1>4. k < l
  <2>. HIDE DEF k, l
  <2>. QED BY <1>1, <1>2
<1>5. g \in Frames /\ ReadsItem(g, part) /\ g.got = <<>> /\ g.parts = <<>>
  <2>1. g = [type |-> part.type, got |-> <<>>, parts |-> <<>>]
    BY <1>1 DEF FrameFor
  <2> HIDE DEF part, g
  <2>2. g \in Frames
    BY <1>2, <2>1 DEF Frames
  <2>3. IsPrefix(<<>>, Own(part).bits)
    <3> DEFINE own == Own(part).bits
    <3>1. own \in Seq(Bit) /\ Len(own) \in Nat
      BY <1>3
    <3> HIDE DEF own
    <3>2. IsPrefix(<<>>, own)
      <4>1. <<>> \in Seq(Bit) /\ Len(<<>>) = 0 /\ 0 <= Len(own) /\ 1 .. Len(<<>>) = {}
        BY <3>1
      <4>. QED BY <3>1, <4>1, PrefixFacts
    <3>. QED BY <3>2 DEF own
  <2>4. Len(g.parts) = 0 /\ 0 <= Len(Own(part).parts)
    BY <1>3, <2>1
  <2>. QED BY <2>1, <2>2, <2>3, <2>4 DEF ReadsItem
<1>6. start + at \in Nat
  <2>. HIDE DEF at
  <2>. QED BY <1>2
<1>7. Holds(bits, start + at, inner) /\ at + Len(inner) <= Len(whole)
  <2>. HIDE DEF at, inner, whole
  <2>1. Holds(bits, start, whole)
    BY DEF whole
  <2>2. Holds(bits, start + at, inner)
    BY <1>2, <1>3, <2>1, HoldsWithin
  <2>3. at + Len(inner) <= Len(whole)
    BY <1>2 DEF Holds
  <2>. QED BY <2>2, <2>3
<1>8. start + at = start + Len(f.got) + Len(Joined(SubSeq(Own(it).parts, 1, k)))
  <2> DEFINE own == Len(Own(it).bits)
             before == Len(Joined(SubSeq(Own(it).parts, 1, k)))
  <2>1. at = own + before
    BY DEF Offset
  <2>2. own \in Nat /\ before \in Nat
    <3>1. own \in Nat
      BY PartsInPlace
    <3>2. Before(it, k) \in Seq(Bit)
      <4>1. k \in 0 .. Len(Own(it).parts)
        <5>. HIDE DEF k
        <5>. QED BY <1>1, <1>2
      <4>. HIDE DEF k
      <4>. QED BY <4>1, BeforeGrows
    <3>. QED BY <3>1, <3>2 DEF Before
  <2>3. Len(f.got) = own
    BY <1>1
  <2>. HIDE DEF own, before, at
  <2>4. start + at = start + own + before
    BY <2>1, <2>2
  <2>. QED BY <2>3, <2>4 DEF before
<1> HIDE DEF g, at, inner, whole, l
<1>. QED BY <1>1, <1>2, <1>4, <1>5, <1>6, <1>7, <1>8 DEF g, at, inner, whole, l

(* It gets the value of a part: the next bit is the first behind the part. *)
LEMMA FinishReads ==
  ASSUME NEW f \in Frames, NEW it \in Nested, Readable(it), ReadsItem(f, it),
         f.got = Own(it).bits, Len(f.parts) < Len(Own(it).parts)
  PROVE  LET k      == Len(f.parts)
             part   == Own(it).parts[k + 1]
             values == Append(f.parts, part.value)
         IN  /\ values \in Seq(Values) /\ Len(values) = k + 1 /\ k + 1 <= Len(Own(it).parts)
             /\ \A j \in 1 .. k + 1 : values[j] = Own(it).parts[j].value
             /\ \A start \in Nat :
                  (start + Offset(it, k)) + Len(EncodingOf(part))
                    = start + Len(f.got) + Len(Joined(SubSeq(Own(it).parts, 1, k + 1)))
<1> DEFINE k == Len(f.parts)
           l == Len(Own(it).parts)
           part == Own(it).parts[k + 1]
           values == Append(f.parts, part.value)
<1>1. f.parts \in Seq(Values) /\ k \in Nat
  BY FrameReads
<1>2. /\ Own(it).parts \in Seq(Nested) /\ l \in Nat
      /\ \A j \in 0 .. l - 1 :
           /\ Own(it).parts[j + 1] \in Nested /\ Offset(it, j) \in Nat
           /\ Offset(it, j + 1) = Offset(it, j) + Len(EncodingOf(Own(it).parts[j + 1]))
  BY PartsInPlace
<1>3. k \in 0 .. l - 1 /\ k + 1 <= l
  <2>1. k < l
    OBVIOUS
  <2>. HIDE DEF k, l
  <2>. QED BY <1>1, <1>2, <2>1
<1>4. /\ part \in Nested /\ Offset(it, k) \in Nat
      /\ Offset(it, k + 1) = Offset(it, k) + Len(EncodingOf(part))
  <2>. HIDE DEF k, l
  <2>. QED BY <1>2, <1>3
<1>5. /\ values \in Seq(Values) /\ Len(values) = k + 1
      /\ \A j \in 1 .. k : values[j] = f.parts[j]
      /\ values[k + 1] = part.value
  <2>1. part.value \in Values
    <3>. HIDE DEF part
    <3>. QED BY <1>4 DEF Values
  <2>. HIDE DEF part
  <2>. QED BY <1>1, <2>1, AppendProperties
<1>6. ASSUME NEW j \in 1 .. k + 1 PROVE values[j] = Own(it).parts[j].value
  <2>1. \A i \in 1 .. k : values[i] = Own(it).parts[i].value
    <3>. HIDE DEF values
    <3>. QED BY <1>5 DEF ReadsItem
  <2>2. j \in 1 .. k \/ j = k + 1
    <3>. HIDE DEF k
    <3>. QED BY <1>1
  <2>. HIDE DEF k, values
  <2>. QED BY <1>5, <2>1, <2>2 DEF part
<1>7. ASSUME NEW start \in Nat
      PROVE  (start + Offset(it, k)) + Len(EncodingOf(part))
               = start + Len(f.got) + Len(Joined(SubSeq(Own(it).parts, 1, k + 1)))
  <2> DEFINE own == Len(Own(it).bits)
             before == Len(Joined(SubSeq(Own(it).parts, 1, k + 1)))
             inner == Len(EncodingOf(part))
             at == Offset(it, k)
  <2>1. Offset(it, k + 1) = own + before
    BY DEF Offset
  <2>2. own \in Nat /\ before \in Nat
    <3>1. own \in Nat
      BY PartsInPlace
    <3>2. Before(it, k + 1) \in Seq(Bit)
      <4>1. k + 1 \in 0 .. Len(Own(it).parts)
        <5>. HIDE DEF k
        <5>. QED BY <1>1, <1>2, <1>3
      <4>. HIDE DEF k
      <4>. QED BY <4>1, BeforeGrows
    <3>. QED BY <3>1, <3>2 DEF Before
  <2>3. inner \in Nat
    <3>1. EncodingOf(part) \in Seq(Bit)
      <4>. HIDE DEF part
      <4>. QED BY <1>4, PartsInPlace
    <3>. QED BY <3>1
  <2>4. Len(f.got) = own
    OBVIOUS
  <2>5. at \in Nat /\ at + inner = own + before
    BY <1>4, <2>1
  <2>. HIDE DEF own, before, inner, at
  <2>6. (start + at) + inner = start + own + before
    BY <2>2, <2>3, <2>5
  <2>. QED BY <2>4, <2>6 DEF at, inner, before
<1> HIDE DEF values
<1>. QED BY <1>3, <1>5, <1>6, <1>7 DEF values

-----------------------------------------------------------------------------
(* While an item that was sent is read, every frame is at its place.       *)

(* A function that gives every frame its item, and the place of that, as   *)
(* Sources does; here for any stack and stream, so that the lemmas can be  *)
(* used of those after a step as well.                                     *)
IsChain(sources, first, frames) ==
  sources = [i \in 1 .. Len(frames) |->
    IF i = 1 THEN [item |-> first, start |-> 0]
    ELSE LET above == sources[i - 1]
             k     == Len(frames[i - 1].parts)
         IN  [ item  |-> Own(above.item).parts[k + 1],
               start |-> above.start + Offset(above.item, k) ]]

(* The bits of a stream, to the end of what was sent if it ends too early. *)
AllBits(s) == IF s.size <= Len(s.bits) THEN s.bits ELSE EncodingOf(SentOn(s))

(* A frame reads its item from its place on the stream.                    *)
AtItsPlace(s, f, source) ==
  /\ source.item \in Nested /\ ReadsItem(f, source.item) /\ source.start \in Nat
  /\ source.start + Len(EncodingOf(source.item)) <= s.size
  /\ Holds(AllBits(s), source.start, EncodingOf(source.item))

(* It waits for the frame above it.                                        *)
Waits(f, it) == f.got = Own(it).bits /\ Len(f.parts) < Len(Own(it).parts)

NextIs(at, f, source) ==
  at = source.start + Len(f.got) + Len(Joined(SubSeq(Own(source.item).parts, 1, Len(f.parts))))

Placed(s, sources, frames, at) ==
  /\ frames \in Seq(Frames) /\ frames # <<>> /\ IsChain(sources, SentOn(s), frames)
  /\ \A i \in 1 .. Len(frames) : AtItsPlace(s, frames[i], sources[i])
  /\ \A i \in 1 .. Len(frames) - 1 : Waits(frames[i], sources[i].item)
  /\ NextIs(at, frames[Len(frames)], sources[Len(frames)])

(* The recursion defines a single function.                                *)
LEMMA OnlyChain ==
  ASSUME NEW sources, IsChain(sources, SentOn(stream), stack), Len(stack) \in Nat
  PROVE  Sources = sources
<1> DEFINE n == Len(stack)
           First == [item |-> SentOn(stream), start |-> 0]
           After(above, i) ==
             [ item  |-> Own(above.item).parts[Len(stack[i - 1].parts) + 1],
               start |-> above.start + Offset(above.item, Len(stack[i - 1].parts)) ]
           S == { k \in Nat : k + 1 <= n => Sources[k + 1] = sources[k + 1] }
<1>1. Sources = CHOOSE s : IsChain(s, SentOn(stream), stack)
  BY DEF Sources, IsChain
<1>2. IsChain(Sources, SentOn(stream), stack)
  BY <1>1
<1>3. /\ sources = [i \in 1 .. n |-> IF i = 1 THEN First ELSE After(sources[i - 1], i)]
      /\ Sources = [i \in 1 .. n |-> IF i = 1 THEN First ELSE After(Sources[i - 1], i)]
  BY <1>2 DEF IsChain
<1> HIDE DEF First, After, n
<1>4. n \in Nat
  BY DEF n
<1>5. \A i \in 1 .. n : /\ sources[i] = IF i = 1 THEN First ELSE After(sources[i - 1], i)
                        /\ Sources[i] = IF i = 1 THEN First ELSE After(Sources[i - 1], i)
  <2>1. ASSUME NEW i \in 1 .. n
        PROVE  /\ sources[i] = IF i = 1 THEN First ELSE After(sources[i - 1], i)
               /\ Sources[i] = IF i = 1 THEN First ELSE After(Sources[i - 1], i)
    BY <1>3
  <2>. QED BY <2>1
<1>6. 0 \in S
  BY <1>4, <1>5
<1>7. ASSUME NEW k \in Nat, k \in S PROVE k + 1 \in S
  <2>1. SUFFICES ASSUME k + 2 <= n PROVE Sources[k + 2] = sources[k + 2]
    <3>1. (k + 1) + 1 = k + 2
      OBVIOUS
    <3>. QED BY <3>1
  <2>2. k + 2 \in 1 .. n /\ k + 2 # 1 /\ (k + 2) - 1 = k + 1 /\ k + 1 <= n
    BY <1>4, <2>1
  <2>3. Sources[k + 1] = sources[k + 1]
    BY <1>7, <2>2
  <2>. QED BY <1>5, <2>2, <2>3
<1>8. Nat \subseteq S
  <2>. HIDE DEF S
  <2>. QED BY <1>6, <1>7, NatSetInduction
<1>9. ASSUME NEW i \in 1 .. n PROVE Sources[i] = sources[i]
  <2>1. i - 1 \in Nat /\ (i - 1) + 1 = i /\ i <= n
    BY <1>4
  <2>2. i - 1 \in S
    <3>. HIDE DEF S
    <3>. QED BY <1>8, <2>1
  <2>. QED BY <2>1, <2>2
<1>. QED BY <1>3, <1>9

(* A stream that carries a value.                                          *)
Carries(s) == s.bits \in Seq(Bit) /\ IsSent(s)

LEMMA SentCarries ==
  ASSUME NEW s \in Streams, s.sent # <<>>
  PROVE  Carries(s)
BY DeserializerConstants DEF Carries, Bit

(* The item that was sent stands at the beginning of the stream.           *)
LEMMA StreamFacts ==
  ASSUME NEW s, Carries(s)
  PROVE  /\ s.bits \in Seq(Bit) /\ Len(s.bits) \in Nat
         /\ SentOn(s) \in Nested /\ s.sent = <<SentOn(s).value>>
         /\ s.size = Len(EncodingOf(SentOn(s))) /\ s.size \in Nat
         /\ AllBits(s) \in Seq(Bit) /\ Len(s.bits) <= Len(AllBits(s))
         /\ \A i \in 1 .. Len(s.bits) : AllBits(s)[i] = s.bits[i]
         /\ Holds(AllBits(s), 0, EncodingOf(SentOn(s)))
<1> DEFINE it == SentOn(s)
           whole == EncodingOf(it)
           bits == s.bits
           all == AllBits(s)
<1>1. bits \in Seq(Bit) /\ IsSent(s)
  BY DEF Carries
<1>2. /\ it \in Nested /\ s.size = Len(whole) /\ s.sent = <<s.sent[1]>>
      /\ IsPrefix(whole, bits) \/ IsPrefix(bits, whole)
  BY <1>1 DEF IsSent
<1>3. s.sent = <<it.value>>
  <2>1. it.value = s.sent[1]
    BY DEF SentOn
  <2>. QED BY <1>2, <2>1
<1>4. whole \in Seq(Bit)
  <2>. HIDE DEF it
  <2>. QED BY <1>2, PartsInPlace
<1>5. all = IF Len(whole) <= Len(bits) THEN bits ELSE whole
  BY <1>2 DEF AllBits
<1> HIDE DEF it, whole, bits, all
<1>6. Len(whole) \in Nat /\ Len(bits) \in Nat
  BY <1>1, <1>4
<1>7. \A i \in 1 .. Len(whole) : i <= Len(bits) => whole[i] = bits[i]
  <2>1. IsPrefix(whole, bits) => \A i \in 1 .. Len(whole) : whole[i] = bits[i]
    BY <1>1, <1>4, PrefixFacts
  <2>2. IsPrefix(bits, whole) => \A i \in 1 .. Len(bits) : bits[i] = whole[i]
    BY <1>1, <1>4, PrefixFacts
  <2>. QED BY <1>2, <1>6, <2>1, <2>2
<1>8. all \in Seq(Bit) /\ Len(bits) <= Len(all) /\ \A i \in 1 .. Len(bits) : all[i] = bits[i]
  <2>1. CASE Len(whole) <= Len(bits)
    BY <1>1, <1>5, <1>6, <2>1
  <2>2. CASE ~(Len(whole) <= Len(bits))
    <3>1. all = whole /\ Len(bits) <= Len(whole)
      BY <1>5, <1>6, <2>2
    <3>2. \A i \in 1 .. Len(bits) : i \in 1 .. Len(whole) /\ i <= Len(bits)
      BY <1>6, <3>1
    <3>. QED BY <1>4, <1>7, <3>1, <3>2
  <2>. QED BY <2>1, <2>2
<1>9. Holds(all, 0, whole)
  <2>1. \A j \in 1 .. Len(whole) : 0 + j = j
    BY <1>6
  <2>2. Len(whole) <= Len(all) /\ \A j \in 1 .. Len(whole) : all[j] = whole[j]
    <3>1. CASE Len(whole) <= Len(bits)
      <4>1. \A j \in 1 .. Len(whole) : j <= Len(bits)
        BY <1>6, <3>1
      <4>. QED BY <1>5, <1>7, <3>1, <4>1
    <3>2. CASE ~(Len(whole) <= Len(bits))
      BY <1>5, <1>6, <3>2
    <3>. QED BY <3>1, <3>2
  <2>. QED BY <1>6, <2>1, <2>2 DEF Holds
<1>. QED BY <1>1, <1>2, <1>3, <1>6, <1>8, <1>9 DEF it, whole, bits, all

AllReadable == \A it \in Nested : Readable(it)

(* The frame on top.                                                       *)
LEMMA TopReads ==
  ASSUME NEW s, NEW sources, NEW frames, NEW at, Placed(s, sources, frames, at)
  PROVE  LET n == Len(frames)
         IN  /\ n \in Nat /\ n > 0 /\ n \in 1 .. n
             /\ frames[n] \in Frames /\ AtItsPlace(s, frames[n], sources[n])
             /\ NextIs(at, frames[n], sources[n])
             /\ sources = [i \in 1 .. n |-> sources[i]]
<1> DEFINE n == Len(frames)
<1>1. frames \in Seq(Frames) /\ frames # <<>>
  BY DEF Placed
<1>2. n \in Nat /\ n > 0 /\ n \in 1 .. n
  BY <1>1
<1>3. frames[n] \in Frames
  BY <1>1, <1>2
<1>4. AtItsPlace(s, frames[n], sources[n]) /\ NextIs(at, frames[n], sources[n])
  BY <1>2 DEF Placed
<1>5. sources = [i \in 1 .. n |-> sources[i]]
  <2>1. IsChain(sources, SentOn(s), frames)
    BY DEF Placed
  <2>. QED BY <2>1 DEF IsChain
<1>. QED BY <1>2, <1>3, <1>4, <1>5

(* The frames below the top stay in place when what is above them changes: *)
(* a chain over the first m of them, and the m-th as it may be then.       *)
LEMMA PlacedBelow ==
  ASSUME NEW s, NEW sources, NEW frames, NEW at, Placed(s, sources, frames, at),
         NEW m \in 1 .. Len(frames), NEW g \in Frames, NEW next,
         AtItsPlace(s, g, sources[m]), NextIs(next, g, sources[m]),
         NEW after \in Seq(Frames), Len(after) = m, after[m] = g,
         \A i \in 1 .. m - 1 : after[i] = frames[i]
  PROVE  Placed(s, [i \in 1 .. m |-> sources[i]], after, next)
<1> DEFINE n == Len(frames)
           fewer == [i \in 1 .. m |-> sources[i]]
<1>1. n \in Nat /\ m \in Nat /\ m >= 1 /\ m <= n
  BY TopReads
<1>2. after # <<>>
  BY <1>1
<1>3. IsChain(fewer, SentOn(s), after)
  <2>1. IsChain(sources, SentOn(s), frames)
    BY DEF Placed
  <2>2. ASSUME NEW i \in 1 .. m
        PROVE  sources[i] =
                 IF i = 1 THEN [item |-> SentOn(s), start |-> 0]
                 ELSE [ item  |-> Own(fewer[i - 1].item).parts[Len(after[i - 1].parts) + 1],
                        start |-> fewer[i - 1].start
                                    + Offset(fewer[i - 1].item, Len(after[i - 1].parts)) ]
    <3>1. i \in 1 .. n
      BY <1>1
    <3>2. sources[i] =
            IF i = 1 THEN [item |-> SentOn(s), start |-> 0]
            ELSE [ item  |-> Own(sources[i - 1].item).parts[Len(frames[i - 1].parts) + 1],
                   start |-> sources[i - 1].start
                               + Offset(sources[i - 1].item, Len(frames[i - 1].parts)) ]
      BY <2>1, <3>1 DEF IsChain
    <3>3. i # 1 => fewer[i - 1] = sources[i - 1] /\ after[i - 1] = frames[i - 1]
      <4>1. i # 1 => i - 1 \in 1 .. m /\ i - 1 \in 1 .. m - 1
        BY <1>1
      <4>. QED BY <4>1
    <3>. HIDE DEF fewer
    <3>. QED BY <3>2, <3>3
  <2>3. fewer = [i \in 1 .. m |->
          IF i = 1 THEN [item |-> SentOn(s), start |-> 0]
          ELSE [ item  |-> Own(fewer[i - 1].item).parts[Len(after[i - 1].parts) + 1],
                 start |-> fewer[i - 1].start
                             + Offset(fewer[i - 1].item, Len(after[i - 1].parts)) ]]
    BY <2>2
  <2>. HIDE DEF fewer
  <2>. QED BY <2>3 DEF IsChain
<1>4. ASSUME NEW i \in 1 .. m PROVE AtItsPlace(s, after[i], fewer[i])
  <2>1. CASE i = m
    <3>1. fewer[m] = sources[m]
      BY <1>1
    <3>. QED BY <2>1, <3>1
  <2>2. CASE i # m
    <3>1. i \in 1 .. m - 1 /\ i \in 1 .. n
      BY <1>1, <2>2
    <3>2. AtItsPlace(s, frames[i], sources[i])
      BY <3>1 DEF Placed
    <3>. QED BY <3>1, <3>2
  <2>. QED BY <2>1, <2>2
<1>5. ASSUME NEW i \in 1 .. m - 1 PROVE Waits(after[i], fewer[i].item)
  <2>1. i \in 1 .. m /\ i \in 1 .. n - 1
    BY <1>1
  <2>2. Waits(frames[i], sources[i].item)
    BY <2>1 DEF Placed
  <2>. QED BY <2>1, <2>2
<1>6. NextIs(next, after[m], fewer[m])
  <2>1. fewer[m] = sources[m]
    BY <1>1
  <2>. QED BY <2>1
<1> HIDE DEF fewer
<1>. QED BY <1>2, <1>3, <1>4, <1>5, <1>6 DEF Placed, fewer

(* What a step does to the frames: Fill,                                   *)
LEMMA PlacedFill ==
  ASSUME AllReadable, NEW s, Carries(s),
         NEW sources, NEW frames, NEW at, Placed(s, sources, frames, at),
         NEW f, f = frames[Len(frames)], ~HeaderDone(f), NEW k \in 1 .. Missing(f)
  PROVE  LET g == [f EXCEPT !.got = f.got \o SubSeq(AllBits(s), at + 1, at + k)]
         IN  /\ [frames EXCEPT ![Len(frames)] = g] \in Seq(Frames)
             /\ \E after : Placed(s, after, [frames EXCEPT ![Len(frames)] = g], at + k)
<1> DEFINE n == Len(frames)
           it == sources[n].item
           start == sources[n].start
           g == [f EXCEPT !.got = f.got \o SubSeq(AllBits(s), at + 1, at + k)]
           after == [frames EXCEPT ![n] = g]
<1>1. /\ n \in Nat /\ n > 0 /\ n \in 1 .. n /\ f \in Frames /\ frames \in Seq(Frames)
      /\ AtItsPlace(s, f, sources[n]) /\ NextIs(at, f, sources[n])
  BY TopReads DEF Placed
<1>2. /\ it \in Nested /\ Readable(it) /\ ReadsItem(f, it) /\ start \in Nat
      /\ start + Len(EncodingOf(it)) <= s.size
      /\ Holds(AllBits(s), start, EncodingOf(it))
  BY <1>1 DEF AtItsPlace, AllReadable
<1>3. AllBits(s) \in Seq(Bit)
  BY StreamFacts
<1>4. f.parts = <<>> /\ Len(f.got) \in Nat /\ Missing(f) \in Nat
  <2>. HIDE DEF it
  <2>. QED BY <1>1, <1>2, FrameReads
<1>5. Len(Joined(SubSeq(Own(it).parts, 1, 0))) = 0
  <2>1. Before(it, 0) = <<>>
    BY <1>2, BeforeGrows
  <2>. QED BY <2>1 DEF Before
<1>6. at = start + Len(f.got)
  <2>1. at = start + Len(f.got) + Len(Joined(SubSeq(Own(it).parts, 1, Len(f.parts))))
    BY <1>1 DEF NextIs
  <2>2. Len(f.parts) = 0
    BY <1>4
  <2> DEFINE l == Len(f.got)
             none == Len(Joined(SubSeq(Own(it).parts, 1, 0)))
  <2>3. at = start + l + none /\ none = 0 /\ l \in Nat
    BY <1>4, <1>5, <2>1, <2>2, Zenon
  <2>. HIDE DEF it, start, l, none
  <2>4. at = start + l
    BY <1>2, <2>3
  <2>. QED BY <2>4 DEF l
<1>7. g \in Frames /\ ReadsItem(g, it) /\ g.parts = <<>> /\ Len(g.got) = Len(f.got) + k
  <2>. HIDE DEF it, start
  <2> DEFINE both == f.got \o SubSeq(AllBits(s), at + 1, at + k)
  <2>1. g = [f EXCEPT !.got = both]
    OBVIOUS
  <2>2. g.got = both /\ g.type = f.type /\ g.parts = f.parts
    <3>. HIDE DEF both
    <3>. QED BY <1>1, <2>1 DEF Frames
  <2> HIDE DEF g
  <2>3. both \in Seq(Bit) /\ Len(both) = Len(f.got) + k /\ IsPrefix(both, Own(it).bits)
    <3>1. at \in Nat
      <4> DEFINE l == Len(f.got)
      <4>1. at = start + l /\ start \in Nat /\ l \in Nat
        BY <1>2, <1>4, <1>6
      <4>. HIDE DEF l
      <4>. QED BY <4>1
    <3>2. f \in Frames /\ it \in Nested /\ Readable(it) /\ ReadsItem(f, it) /\ ~HeaderDone(f)
      BY <1>1, <1>2
    <3>3. \A bits \in Seq(Bit), begin \in Nat, from \in Nat, i \in 1 .. Missing(f) :
            Holds(bits, begin, EncodingOf(it)) /\ from = begin + Len(f.got) =>
              /\ f.got \o SubSeq(bits, from + 1, from + i) \in Seq(Bit)
              /\ Len(f.got \o SubSeq(bits, from + 1, from + i)) = Len(f.got) + i
              /\ IsPrefix(f.got \o SubSeq(bits, from + 1, from + i), Own(it).bits)
      BY <3>2, FillReads
    <3>4. Holds(AllBits(s), start, EncodingOf(it)) /\ at = start + Len(f.got)
      BY <1>2, <1>6
    <3>. QED BY <1>2, <1>3, <3>1, <3>3, <3>4, Zenon DEF both
  <2>4. ReadsItem(g, it) /\ g.parts = <<>>
    <3>1. g.parts = <<>> /\ Len(g.parts) = 0 /\ g.type = it.type
      BY <1>2, <1>4, <2>2 DEF ReadsItem
    <3>2. Len(Own(it).parts) \in Nat
      BY <1>2, PartsInPlace
    <3>. HIDE DEF both
    <3>. QED BY <2>2, <2>3, <3>1, <3>2 DEF ReadsItem
  <2> HIDE DEF both
  <2>5. g \in Frames
    BY <1>1, <2>1, <2>2, <2>3 DEF Frames, Bit
  <2>. QED BY <2>2, <2>3, <2>4, <2>5
<1>8. AtItsPlace(s, g, sources[n])
  BY <1>2, <1>7 DEF AtItsPlace
<1> HIDE DEF g
<1>9. NextIs(at + k, g, sources[n])
  <2>1. Len(g.parts) = 0
    BY <1>7
  <2>2. at + k = start + Len(g.got) + Len(Joined(SubSeq(Own(it).parts, 1, 0)))
    <3> DEFINE l == Len(f.got)
               m == Len(g.got)
               none == Len(Joined(SubSeq(Own(it).parts, 1, 0)))
    <3>1. at = start + l /\ m = l + k /\ none = 0 /\ l \in Nat /\ k \in Nat
      BY <1>4, <1>5, <1>6, <1>7
    <3>. HIDE DEF it, start, l, m, none
    <3>2. at + k = start + m + none
      BY <1>2, <3>1
    <3>. QED BY <3>2 DEF m, none
  <2>. QED BY <2>1, <2>2 DEF NextIs
<1>10. /\ after \in Seq(Frames) /\ Len(after) = n /\ after[n] = g
       /\ \A i \in 1 .. n - 1 : after[i] = frames[i]
  <2>1. after \in Seq(Frames) /\ Len(after) = n /\ after[n] = g
    BY <1>1, <1>7
  <2>2. ASSUME NEW i \in 1 .. n - 1 PROVE after[i] = frames[i]
    <3>1. i # n /\ i \in 1 .. n
      <4>. HIDE DEF n
      <4>. QED BY <1>1
    <3>. QED BY <1>1, <3>1
  <2>. QED BY <2>1, <2>2
<1>11. Placed(s, [i \in 1 .. n |-> sources[i]], after, at + k)
  <2>. HIDE DEF after
  <2>. QED BY <1>1, <1>7, <1>8, <1>9, <1>10, PlacedBelow
<1>. QED BY <1>10, <1>11 DEF g

(* Descend,                                                                *)
LEMMA PlacedDescend ==
  ASSUME AllReadable, NEW s, Carries(s),
         NEW sources, NEW frames, NEW at, Placed(s, sources, frames, at),
         NEW f, f = frames[Len(frames)], HeaderDone(f), Len(f.parts) < Len(PartsDue(f))
  PROVE  \E more : Placed(s, more,
                      Append(frames, FrameFor(PartsDue(f)[Len(f.parts) + 1])), at)
<1> DEFINE n == Len(frames)
           it == sources[n].item
           start == sources[n].start
           k == Len(f.parts)
           part == Own(it).parts[k + 1]
           g == FrameFor(PartsDue(f)[k + 1])
           after == Append(frames, g)
           source == [item |-> part, start |-> start + Offset(it, k)]
           more == [i \in 1 .. n + 1 |-> IF i = n + 1 THEN source ELSE sources[i]]
<1>1. /\ n \in Nat /\ n > 0 /\ n \in 1 .. n /\ f \in Frames /\ frames \in Seq(Frames)
      /\ AtItsPlace(s, f, sources[n]) /\ NextIs(at, f, sources[n])
  BY TopReads DEF Placed
<1>2. /\ it \in Nested /\ Readable(it) /\ ReadsItem(f, it) /\ start \in Nat
      /\ start + Len(EncodingOf(it)) <= s.size
      /\ Holds(AllBits(s), start, EncodingOf(it))
  BY <1>1 DEF AtItsPlace, AllReadable
<1>3. AllBits(s) \in Seq(Bit) /\ s.size \in Nat
  BY StreamFacts
<1>4. /\ part \in Nested /\ f.got = Own(it).bits /\ k < Len(Own(it).parts)
      /\ g \in Frames /\ ReadsItem(g, part) /\ g.got = <<>> /\ g.parts = <<>>
      /\ start + Offset(it, k) \in Nat
      /\ Holds(AllBits(s), start + Offset(it, k), EncodingOf(part))
      /\ Offset(it, k) + Len(EncodingOf(part)) <= Len(EncodingOf(it))
      /\ start + Offset(it, k)
           = start + Len(f.got) + Len(Joined(SubSeq(Own(it).parts, 1, k)))
  <2>. HIDE DEF it, start
  <2>. QED BY <1>1, <1>2, <1>3, DescendReads, ZenonT(60)
<1>5. at = start + Offset(it, k)
  BY <1>1, <1>4 DEF NextIs
<1>6. (start + Offset(it, k)) + Len(EncodingOf(part)) <= s.size
  <2> DEFINE a == Offset(it, k)
             b == Len(EncodingOf(part))
             c == Len(EncodingOf(it))
  <2>1. a \in Nat /\ b \in Nat /\ c \in Nat
    <3>1. k \in 0 .. Len(Own(it).parts) - 1
      <4>1. k \in Nat /\ Len(Own(it).parts) \in Nat
        <5>1. f.parts \in Seq(Values)
          BY <1>1 DEF Frames, Values
        <5>2. Len(Own(it).parts) \in Nat
          BY <1>2, PartsInPlace
        <5>. QED BY <5>1, <5>2
      <4>. HIDE DEF k
      <4>. QED BY <1>4, <4>1
    <3>2. EncodingOf(part) \in Seq(Bit) /\ EncodingOf(it) \in Seq(Bit)
      <4>. HIDE DEF part, it
      <4>. QED BY <1>2, <1>4, PartsInPlace
    <3>3. a \in Nat
      <4>. HIDE DEF it, k
      <4>. QED BY <1>2, <3>1, PartsInPlace
    <3>. QED BY <3>2, <3>3
  <2>2. a + b <= c /\ start + c <= s.size
    BY <1>2, <1>4
  <2>. HIDE DEF a, b, c, start
  <2>3. (start + a) + b <= s.size
    BY <1>2, <1>3, <2>1, <2>2
  <2>. QED BY <2>3 DEF a, b
<1>7. AtItsPlace(s, g, source)
  BY <1>4, <1>6 DEF AtItsPlace
<1>8. NextIs(at, g, source)
  <2>1. Len(Joined(SubSeq(Own(part).parts, 1, 0))) = 0
    <3>1. Before(part, 0) = <<>>
      <4>. HIDE DEF part
      <4>. QED BY <1>4, BeforeGrows
    <3>. QED BY <3>1 DEF Before
  <2>2. Len(g.got) = 0 /\ Len(g.parts) = 0 /\ source.item = part /\ source.start = at
    BY <1>4, <1>5
  <2>3. at \in Nat
    BY <1>4, <1>5
  <2>. HIDE DEF part, g, source
  <2>. QED BY <2>1, <2>2, <2>3 DEF NextIs
<1> HIDE DEF g
<1>9. /\ after \in Seq(Frames) /\ Len(after) = n + 1 /\ after[n + 1] = g
      /\ \A i \in 1 .. n : after[i] = frames[i]
  BY <1>1, <1>4, AppendProperties
<1>10. IsChain(more, SentOn(s), after)
  <2>1. IsChain(sources, SentOn(s), frames)
    BY DEF Placed
  <2>2. ASSUME NEW i \in 1 .. n + 1
        PROVE  more[i] =
                 IF i = 1 THEN [item |-> SentOn(s), start |-> 0]
                 ELSE [ item  |-> Own(more[i - 1].item).parts[Len(after[i - 1].parts) + 1],
                        start |-> more[i - 1].start
                                    + Offset(more[i - 1].item, Len(after[i - 1].parts)) ]
    <3>1. CASE i = n + 1
      <4>1. i # 1 /\ i - 1 = n /\ more[i] = source /\ more[n] = sources[n] /\ after[n] = f
        <5>1. i # 1 /\ i - 1 = n
          BY <1>1, <3>1
        <5>2. n \in 1 .. n + 1 /\ n # n + 1
          BY <1>1
        <5>3. after[n] = f
          BY <1>1, <1>9
        <5>. HIDE DEF n, source, after
        <5>. QED BY <3>1, <5>1, <5>2, <5>3
      <4>. HIDE DEF more, after
      <4>. QED BY <4>1
    <3>2. CASE i # n + 1
      <4>1. i \in 1 .. n /\ (i # 1 => i - 1 \in 1 .. n /\ i - 1 # n + 1 /\ i - 1 \in 1 .. n + 1)
        BY <1>1, <3>2
      <4>2. sources[i] =
              IF i = 1 THEN [item |-> SentOn(s), start |-> 0]
              ELSE [ item  |-> Own(sources[i - 1].item).parts[Len(frames[i - 1].parts) + 1],
                     start |-> sources[i - 1].start
                                 + Offset(sources[i - 1].item, Len(frames[i - 1].parts)) ]
        BY <2>1, <4>1 DEF IsChain
      <4>3. /\ more[i] = sources[i]
            /\ i # 1 => more[i - 1] = sources[i - 1] /\ after[i - 1] = frames[i - 1]
        <5>. HIDE DEF source, after
        <5>. QED BY <1>9, <3>2, <4>1
      <4>. HIDE DEF more, after
      <4>. QED BY <4>2, <4>3
    <3>. QED BY <3>1, <3>2
  <2>3. more = [i \in 1 .. n + 1 |->
          IF i = 1 THEN [item |-> SentOn(s), start |-> 0]
          ELSE [ item  |-> Own(more[i - 1].item).parts[Len(after[i - 1].parts) + 1],
                 start |-> more[i - 1].start
                             + Offset(more[i - 1].item, Len(after[i - 1].parts)) ]]
    <3>1. more = [i \in 1 .. n + 1 |-> more[i]]
      OBVIOUS
    <3>. HIDE DEF more, after
    <3>. QED BY <2>2, <3>1
  <2>. HIDE DEF more, after, n
  <2>. QED BY <1>9, <2>3 DEF IsChain
<1>11. ASSUME NEW i \in 1 .. n + 1 PROVE AtItsPlace(s, after[i], more[i])
  <2>1. CASE i = n + 1
    <3>1. more[n + 1] = source
      BY <1>1
    <3>. HIDE DEF more, source, after
    <3>. QED BY <1>7, <1>9, <2>1, <3>1
  <2>2. CASE i # n + 1
    <3>1. i \in 1 .. n
      BY <1>1, <2>2
    <3>2. AtItsPlace(s, frames[i], sources[i])
      BY <3>1 DEF Placed
    <3>3. more[i] = sources[i]
      BY <2>2
    <3>. HIDE DEF more, after
    <3>. QED BY <1>9, <3>1, <3>2, <3>3
  <2>. QED BY <2>1, <2>2
<1>12. ASSUME NEW i \in 1 .. n PROVE Waits(after[i], more[i].item)
  <2>1. i \in 1 .. n + 1 /\ i # n + 1
    BY <1>1
  <2>2. more[i] = sources[i]
    <3>. HIDE DEF source
    <3>. QED BY <2>1
  <2>3. after[i] = frames[i]
    BY <1>9
  <2>4. Waits(frames[i], sources[i].item)
    <3>1. CASE i = n
      BY <1>4, <3>1 DEF Waits
    <3>2. CASE i # n
      <4>1. i \in 1 .. n - 1
        BY <1>1, <3>2
      <4>. QED BY <4>1 DEF Placed
    <3>. QED BY <3>1, <3>2
  <2>. HIDE DEF more, after
  <2>. QED BY <2>2, <2>3, <2>4
<1>13. NextIs(at, after[n + 1], more[n + 1])
  <2>1. more[n + 1] = source
    BY <1>1
  <2>. HIDE DEF more, source, after
  <2>. QED BY <1>8, <1>9, <2>1
<1>14. after # <<>> /\ (n + 1) - 1 = n
  BY <1>1
<1>15. Placed(s, more, after, at)
  <2>. HIDE DEF more, after, n
  <2>. QED BY <1>9, <1>10, <1>11, <1>12, <1>13, <1>14 DEF Placed
<1>. QED BY <1>15 DEF g

(* Finish, of a frame that a frame below it waits for,                     *)
LEMMA PlacedFinish ==
  ASSUME AllReadable, NEW s, Carries(s),
         NEW sources, NEW frames, NEW at, Placed(s, sources, frames, at),
         NEW f, f = frames[Len(frames)], Whole(f), Len(frames) # 1
  PROVE  \E fewer :
           Placed(s, fewer, [SubSeq(frames, 1, Len(frames) - 1)
                               EXCEPT ![Len(frames) - 1].parts = Append(@, ValueOf(f))], at)
<1> DEFINE n == Len(frames)
           m == n - 1
           it == sources[n].item
           start == sources[n].start
           waiting == frames[m]
           outer == sources[m].item
           k == Len(waiting.parts)
           values == Append(waiting.parts, it.value)
           g == [waiting EXCEPT !.parts = values]
           lower == SubSeq(frames, 1, m)
           after == [lower EXCEPT ![m] = g]
<1>1. /\ n \in Nat /\ n > 0 /\ n \in 1 .. n /\ f \in Frames /\ frames \in Seq(Frames)
      /\ AtItsPlace(s, f, sources[n]) /\ NextIs(at, f, sources[n])
  BY TopReads DEF Placed
<1>2. m \in Nat /\ m \in 1 .. n /\ m \in 1 .. n - 1 /\ n # 1 /\ m >= 1
  <2>1. n # 1 /\ n \in Nat /\ n > 0
    BY <1>1
  <2>. HIDE DEF n
  <2>. QED BY <2>1
<1>3. /\ it \in Nested /\ Readable(it) /\ ReadsItem(f, it) /\ start \in Nat
  BY <1>1 DEF AtItsPlace, AllReadable
<1>4. waiting \in Frames /\ AtItsPlace(s, waiting, sources[m]) /\ Waits(waiting, outer)
  <2>. HIDE DEF m
  <2>. QED BY <1>1, <1>2 DEF Placed, m
<1>5. /\ outer \in Nested /\ Readable(outer) /\ ReadsItem(waiting, outer)
      /\ sources[m].start \in Nat
      /\ waiting.got = Own(outer).bits /\ Len(waiting.parts) < Len(Own(outer).parts)
  BY <1>4 DEF AtItsPlace, Waits, AllReadable
<1>6. /\ it = Own(outer).parts[k + 1]
      /\ start = sources[m].start + Offset(outer, k)
  <2>1. IsChain(sources, SentOn(s), frames)
    BY DEF Placed
  <2>2. sources[n] = [ item  |-> Own(sources[n - 1].item).parts[Len(frames[n - 1].parts) + 1],
                       start |-> sources[n - 1].start
                                   + Offset(sources[n - 1].item, Len(frames[n - 1].parts)) ]
    <3>. HIDE DEF n
    <3>. QED BY <1>1, <1>2, <2>1 DEF IsChain, n
  <2>. QED BY <2>2
<1>7. ValueOf(f) = it.value /\ f.got = Own(it).bits /\ Len(f.parts) = Len(Own(it).parts)
  <2>1. HeaderDone(f)
    BY DEF Whole
  <2>. HIDE DEF it
  <2>. QED BY <1>1, <1>3, <2>1, FrameReads
<1>8. at = start + Len(EncodingOf(it))
  <2> DEFINE own == Len(Own(it).bits)
             inner == Len(Joined(SubSeq(Own(it).parts, 1, Len(Own(it).parts))))
  <2>1. at = start + own + inner
    BY <1>1, <1>7 DEF NextIs
  <2>2. own + inner = Len(EncodingOf(it))
    <3>1. Offset(it, Len(Own(it).parts)) = Len(EncodingOf(it))
      BY <1>3, PartsInPlace
    <3>. QED BY <3>1 DEF Offset
  <2>3. own \in Nat /\ inner \in Nat
    <3>1. own \in Nat
      BY <1>3, PartsInPlace
    <3>2. Before(it, Len(Own(it).parts)) \in Seq(Bit)
      <4>1. Len(Own(it).parts) \in 0 .. Len(Own(it).parts)
        <5>1. Len(Own(it).parts) \in Nat
          BY <1>3, PartsInPlace
        <5>. QED BY <5>1
      <4>. QED BY <1>3, <4>1, BeforeGrows
    <3>. QED BY <3>1, <3>2 DEF Before
  <2>. HIDE DEF it, start, own, inner
  <2>. QED BY <1>3, <2>1, <2>2, <2>3
<1>9. /\ values \in Seq(Values) /\ Len(values) = k + 1 /\ k + 1 <= Len(Own(outer).parts)
      /\ \A j \in 1 .. k + 1 : values[j] = Own(outer).parts[j].value
      /\ \A from \in Nat :
           (from + Offset(outer, k)) + Len(EncodingOf(it))
             = from + Len(waiting.got) + Len(Joined(SubSeq(Own(outer).parts, 1, k + 1)))
  <2>. HIDE DEF outer, waiting, it
  <2>. QED BY <1>4, <1>5, <1>6, FinishReads
<1>10. g \in Frames /\ g.got = waiting.got /\ g.parts = values /\ g.type = waiting.type
  <2>. HIDE DEF waiting, values
  <2>. QED BY <1>4, <1>9 DEF Frames, Values
<1>11. ReadsItem(g, outer)
  <2>. HIDE DEF outer, waiting, values, g
  <2>. QED BY <1>5, <1>9, <1>10 DEF ReadsItem
<1>12. AtItsPlace(s, g, sources[m])
  <2>. HIDE DEF g
  <2>. QED BY <1>4, <1>11 DEF AtItsPlace
<1>13. NextIs(at, g, sources[m])
  <2>1. at = sources[m].start + Len(waiting.got)
               + Len(Joined(SubSeq(Own(outer).parts, 1, k + 1)))
    BY <1>5, <1>6, <1>8, <1>9
  <2>. HIDE DEF g, waiting
  <2>. QED BY <1>9, <1>10, <2>1 DEF NextIs
<1> HIDE DEF g
<1>14. /\ lower \in Seq(Frames) /\ Len(lower) = m /\ \A i \in 1 .. m : lower[i] = frames[i]
  <2>1. /\ 1 \in Int /\ m \in Int /\ 1 <= m /\ m - 1 + 1 = m
        /\ \A i \in 1 .. m : frames[i] \in Frames /\ 1 + i - 1 = i
    BY <1>1, <1>2
  <2>. HIDE DEF m
  <2>2. /\ lower \in Seq(Frames) /\ Len(lower) = m - 1 + 1
        /\ \A i \in 1 .. m - 1 + 1 : lower[i] = frames[1 + i - 1]
    BY <2>1, SubSeqProperties
  <2>. HIDE DEF lower
  <2>. QED BY <2>1, <2>2
<1> HIDE DEF lower
<1>15. /\ after \in Seq(Frames) /\ Len(after) = m /\ after[m] = g
       /\ \A i \in 1 .. m - 1 : after[i] = frames[i]
  <2>1. m \in 1 .. m /\ \A i \in 1 .. m - 1 : i # m /\ i \in 1 .. m
    <3>. HIDE DEF m
    <3>. QED BY <1>2
  <2>. HIDE DEF m
  <2>2. after \in Seq(Frames) /\ Len(after) = m /\ after[m] = g
    BY <1>10, <1>14, <2>1
  <2>3. ASSUME NEW i \in 1 .. m - 1 PROVE after[i] = frames[i]
    BY <1>14, <2>1
  <2>. QED BY <2>2, <2>3
<1>16. Placed(s, [i \in 1 .. m |-> sources[i]], after, at)
  <2>. HIDE DEF after, m
  <2>. QED BY <1>2, <1>10, <1>12, <1>13, <1>15, PlacedBelow
<1>17. [lower EXCEPT ![m].parts = Append(@, ValueOf(f))] = after
  <2>1. lower[m] = waiting
    BY <1>2, <1>14
  <2>. QED BY <1>7, <2>1 DEF g
<1>. QED BY <1>16, <1>17 DEF lower

(* and of the last: the value is the one that was sent, and all its bits   *)
(* have been read, and no more.                                            *)
LEMMA PlacedEnd ==
  ASSUME AllReadable, NEW s, Carries(s),
         NEW sources, NEW frames, NEW at, Placed(s, sources, frames, at),
         NEW f, f = frames[Len(frames)], Whole(f), Len(frames) = 1
  PROVE  <<ValueOf(f)>> = s.sent /\ at = s.size
<1> DEFINE it == sources[1].item
<1>1. /\ f \in Frames /\ AtItsPlace(s, f, sources[1]) /\ NextIs(at, f, sources[1])
  BY TopReads
<1>2. it = SentOn(s) /\ sources[1].start = 0
  <2>1. IsChain(sources, SentOn(s), frames)
    BY DEF Placed
  <2>2. 1 \in 1 .. Len(frames)
    OBVIOUS
  <2>3. sources[1] = [item |-> SentOn(s), start |-> 0]
    BY <2>1, <2>2 DEF IsChain
  <2>. QED BY <2>3
<1>3. it \in Nested /\ Readable(it) /\ ReadsItem(f, it)
  BY <1>1 DEF AtItsPlace, AllReadable
<1>4. ValueOf(f) = it.value /\ f.got = Own(it).bits /\ Len(f.parts) = Len(Own(it).parts)
  <2>1. HeaderDone(f)
    BY DEF Whole
  <2>. HIDE DEF it
  <2>. QED BY <1>1, <1>3, <2>1, FrameReads
<1>5. at = Len(EncodingOf(it))
  <2> DEFINE own == Len(Own(it).bits)
             inner == Len(Joined(SubSeq(Own(it).parts, 1, Len(Own(it).parts))))
  <2>1. at = 0 + own + inner
    BY <1>1, <1>2, <1>4 DEF NextIs
  <2>2. Offset(it, Len(Own(it).parts)) = Len(EncodingOf(it)) /\ own \in Nat
    BY <1>3, PartsInPlace
  <2>3. own + inner = Len(EncodingOf(it))
    BY <2>2 DEF Offset
  <2>. HIDE DEF own, inner
  <2>4. 0 + own = own
    BY <2>2
  <2>. QED BY <2>1, <2>3, <2>4
<1>. QED BY <1>2, <1>4, <1>5, StreamFacts

(* What is missing of a codec's own bits is among the bits that were sent. *)
LEMMA PlacedRoom ==
  ASSUME AllReadable, NEW s, Carries(s),
         NEW sources, NEW frames, NEW at, Placed(s, sources, frames, at),
         NEW f, f = frames[Len(frames)], ~HeaderDone(f)
  PROVE  at \in Nat /\ Missing(f) \in Nat /\ at + Missing(f) <= s.size
<1> DEFINE n == Len(frames)
           it == sources[n].item
           start == sources[n].start
<1>1. /\ f \in Frames /\ AtItsPlace(s, f, sources[n]) /\ NextIs(at, f, sources[n])
  BY TopReads
<1>2. /\ it \in Nested /\ Readable(it) /\ ReadsItem(f, it) /\ start \in Nat
      /\ start + Len(EncodingOf(it)) <= s.size
  BY <1>1 DEF AtItsPlace, AllReadable
<1>3. /\ f.parts = <<>> /\ Len(f.got) \in Nat /\ Missing(f) \in Nat
      /\ Len(f.got) + Missing(f) <= Len(Own(it).bits)
  <2>. HIDE DEF it
  <2>. QED BY <1>1, <1>2, FrameReads
<1>4. at = start + Len(f.got) + Len(Joined(SubSeq(Own(it).parts, 1, 0)))
  <2>1. Len(f.parts) = 0
    BY <1>3
  <2>. QED BY <1>1, <2>1 DEF NextIs
<1>5. Len(Joined(SubSeq(Own(it).parts, 1, 0))) = 0
  <2>1. Before(it, 0) = <<>>
    BY <1>2, BeforeGrows
  <2>. QED BY <2>1 DEF Before
<1>6. /\ Len(Own(it).bits) \in Nat /\ Len(EncodingOf(it)) \in Nat
      /\ Len(Own(it).bits) <= Len(EncodingOf(it))
  <2> DEFINE own == Own(it).bits
             whole == EncodingOf(it)
  <2>1. own \in Seq(Bit) /\ whole \in Seq(Bit) /\ Holds(whole, 0, own)
    BY <1>2, PartsInPlace
  <2>. HIDE DEF own, whole
  <2>2. Len(own) \in Nat /\ Len(whole) \in Nat /\ 0 + Len(own) <= Len(whole)
    BY <2>1 DEF Holds
  <2>3. Len(own) <= Len(whole)
    BY <2>2
  <2>. QED BY <2>2, <2>3 DEF own, whole
<1>7. s.size \in Nat
  BY StreamFacts
<1> DEFINE l == Len(f.got)
           none == Len(Joined(SubSeq(Own(it).parts, 1, 0)))
           own == Len(Own(it).bits)
           whole == Len(EncodingOf(it))
           missing == Missing(f)
<1>8. /\ at = start + l + none /\ none = 0 /\ l \in Nat /\ missing \in Nat
      /\ l + missing <= own /\ own <= whole /\ own \in Nat /\ whole \in Nat
      /\ start + whole <= s.size /\ start \in Nat
  BY <1>2, <1>3, <1>4, <1>5, <1>6
<1> HIDE DEF it, start, l, none, own, whole, missing
<1>9. at \in Nat /\ missing \in Nat /\ at + missing <= s.size
  BY <1>7, <1>8
<1>. QED BY <1>9 DEF missing

-----------------------------------------------------------------------------
(* The machine.                                                            *)

(* What holds while a value that was sent is read: TypeOK and ReadsSent of *)
(* Deserializer, with the sources as some function that is a chain: no     *)
(* step has to say of the recursion which one that is.                     *)
ReadsInPlace ==
  /\ pos \in Nat /\ room \in Nat /\ pos <= Len(stream.bits) /\ room <= Len(stream.bits)
  /\ outcome \in {"New", "Running", "Insufficient", "Pending", "Ready"}
  /\ outcome = "Ready" <=> result # <<>>
  /\ outcome = "Running" => pos + room <= Len(stream.bits)
  /\ outcome # "Ready" => \E sources : Placed(stream, sources, stack, pos)
  /\ outcome = "Ready" => stack = <<>> /\ result = stream.sent /\ pos = stream.size

ReadsInv == stream \in Streams /\ (stream.sent # <<>> => ReadsInPlace)

(* It holds of a new deserializer.                                         *)
LEMMA InitReads ==
  ASSUME NEW s, Carries(s)
  PROVE  \E sources : Placed(s, sources, <<FrameFor(s.type)>>, 0)
<1> DEFINE it == SentOn(s)
           f == FrameFor(s.type)
           frames == <<f>>
           source == [item |-> it, start |-> 0]
           sources == [i \in 1 .. 1 |-> source]
<1>1. /\ it \in Nested /\ s.size = Len(EncodingOf(it)) /\ s.size \in Nat
      /\ Holds(AllBits(s), 0, EncodingOf(it)) /\ it.type = s.type
  BY StreamFacts DEF SentOn
<1>2. f \in Frames /\ f.type = it.type /\ f.got = <<>> /\ f.parts = <<>>
  <2>1. f = [type |-> it.type, got |-> <<>>, parts |-> <<>>]
    BY <1>1 DEF FrameFor
  <2>. HIDE DEF f, it
  <2>. QED BY <1>1, <2>1 DEF Frames
<1> HIDE DEF f
<1>3. Own(it).bits \in Seq(Bit) /\ Own(it).parts \in Seq(Nested) /\ Before(it, 0) = <<>>
  <2>. HIDE DEF it
  <2>. QED BY <1>1, PartsInPlace, BeforeGrows
<1>4. ReadsItem(f, it)
  <2> DEFINE own == Own(it).bits
  <2>1. IsPrefix(<<>>, own)
    <3>1. own \in Seq(Bit) /\ Len(own) \in Nat
      BY <1>3
    <3>. HIDE DEF own
    <3>2. <<>> \in Seq(Bit) /\ Len(<<>>) = 0 /\ 0 <= Len(own) /\ 1 .. Len(<<>>) = {}
      BY <3>1
    <3>. QED BY <3>1, <3>2, PrefixFacts
  <2>2. Len(f.parts) = 0 /\ 0 <= Len(Own(it).parts)
    BY <1>2, <1>3
  <2>. HIDE DEF it
  <2>. QED BY <1>2, <2>1, <2>2 DEF ReadsItem, own
<1>5. AtItsPlace(s, f, source)
  <2>1. 0 + Len(EncodingOf(it)) <= s.size
    BY <1>1
  <2>. HIDE DEF it
  <2>. QED BY <1>1, <1>4, <2>1 DEF AtItsPlace
<1>6. NextIs(0, f, source)
  <2>1. Len(Joined(SubSeq(Own(it).parts, 1, 0))) = 0
    BY <1>3 DEF Before
  <2>2. Len(f.got) = 0 /\ Len(f.parts) = 0
    BY <1>2
  <2>. HIDE DEF it
  <2>. QED BY <2>1, <2>2 DEF NextIs
<1>7. frames \in Seq(Frames) /\ frames # <<>> /\ Len(frames) = 1 /\ frames[1] = f
  BY <1>2
<1> HIDE DEF frames
<1>8. sources[1] = source
  OBVIOUS
<1>9. IsChain(sources, it, frames)
  <2>1. \A i \in 1 .. 1 : i = 1
    OBVIOUS
  <2> DEFINE Other(i) ==
               [ item  |-> Own(sources[i - 1].item).parts[Len(frames[i - 1].parts) + 1],
                 start |-> sources[i - 1].start
                             + Offset(sources[i - 1].item, Len(frames[i - 1].parts)) ]
  <2>2. sources = [i \in 1 .. 1 |-> IF i = 1 THEN source ELSE Other(i)]
    <3>. HIDE DEF source, Other
    <3>. QED BY <2>1
  <2>. HIDE DEF it, sources
  <2>. QED BY <1>7, <2>2 DEF IsChain
<1> HIDE DEF sources, source
<1>10. Placed(s, sources, frames, 0)
  <2>1. \A i \in 1 .. Len(frames) : i = 1
    BY <1>7
  <2>2. 1 .. Len(frames) - 1 = {}
    BY <1>7
  <2>. QED BY <1>5, <1>6, <1>7, <1>8, <1>9, <2>1, <2>2 DEF Placed
<1>. QED BY <1>10 DEF frames, f

LEMMA InitHasReads == Init => ReadsInv
<1> SUFFICES ASSUME Init PROVE ReadsInv
  OBVIOUS
<1>1. stream \in Streams
  BY DEF Init
<1>2. ASSUME stream.sent # <<>> PROVE ReadsInPlace
  <2>1. Len(stream.bits) \in Nat
    BY <1>1, <1>2, SentCarries, StreamFacts
  <2>2. \E sources : Placed(stream, sources, stack, pos)
    BY <1>1, <1>2, SentCarries, InitReads DEF Init
  <2>. QED BY <2>1, <2>2 DEF Init, ReadsInPlace
<1>. QED BY <1>1, <1>2 DEF ReadsInv

(* Nothing that was sent is refused.                                       *)
LEMMA TopAccepts ==
  ASSUME AllReadable, ReadsInv, stream.sent # <<>>, Running
  PROVE  Missing(Top) \in Nat /\ ~InvalidDeterminant(Top) /\ ~Refuses(Top)
<1>1. PICK sources : Placed(stream, sources, stack, pos)
  BY DEF ReadsInv, ReadsInPlace, Running
<1> DEFINE n == Len(stack)
           it == sources[n].item
<1>2. Top \in Frames /\ AtItsPlace(stream, Top, sources[n])
  BY <1>1, TopReads DEF Top
<1>3. it \in Nested /\ Readable(it) /\ ReadsItem(Top, it)
  BY <1>2 DEF AtItsPlace, AllReadable
<1> HIDE DEF it
<1>. QED BY <1>2, <1>3, FrameReads

LEMMA FillKeepsReads ==
  ASSUME AllReadable, ReadsInv, stream.sent # <<>>, Fill
  PROVE  /\ ReadsInv'
         /\ \E k \in 1 .. room : pos' = pos + k /\ room' = room - k /\ pos + k <= stream.size
<1> DEFINE k == IF Missing(Top) < room THEN Missing(Top) ELSE room
           g == [Top EXCEPT !.got = Top.got \o SubSeq(stream.bits, pos + 1, pos + k)]
           after == [stack EXCEPT ![Len(stack)] = g]
<1>1. /\ Running /\ Missing(Top) > 0 /\ room > 0
      /\ stack' = after /\ pos' = pos + k /\ room' = room - k
      /\ UNCHANGED <<stream, outcome, result>>
  BY DEF Fill, WithTop
<1>2. /\ stream \in Streams /\ pos \in Nat /\ room \in Nat
      /\ pos + room <= Len(stream.bits) /\ room <= Len(stream.bits)
  BY <1>1 DEF ReadsInv, ReadsInPlace, Running
<1>3. Missing(Top) \in Nat /\ ~HeaderDone(Top)
  BY <1>1, TopAccepts DEF HeaderDone
<1>4. PICK sources : Placed(stream, sources, stack, pos)
  BY <1>1 DEF ReadsInv, ReadsInPlace, Running
<1>5. k \in 1 .. Missing(Top) /\ k \in 1 .. room
  BY <1>1, <1>2, <1>3
<1>6. Len(stream.bits) \in Nat /\ stream.size \in Nat
  BY <1>2, SentCarries, StreamFacts
<1> HIDE DEF k
<1>7. /\ pos' \in Nat /\ room' \in Nat /\ pos' <= Len(stream.bits)
      /\ room' <= Len(stream.bits) /\ pos' + room' <= Len(stream.bits)
  BY <1>1, <1>2, <1>5, <1>6
<1>8. pos + k <= stream.size
  <2>1. pos + Missing(Top) <= stream.size
    BY <1>2, <1>3, <1>4, SentCarries, PlacedRoom DEF Top
  <2>. QED BY <1>2, <1>3, <1>5, <1>6, <2>1
<1>9. \E sources2 : Placed(stream, sources2, after, pos + k)
  <2> DEFINE all == AllBits(stream)
             g2 == [Top EXCEPT !.got = Top.got \o SubSeq(all, pos + 1, pos + k)]
  <2>1. Top = stack[Len(stack)]
    BY DEF Top
  <2>2. \E sources2 : Placed(stream, sources2, [stack EXCEPT ![Len(stack)] = g2], pos + k)
    BY <1>2, <1>3, <1>4, <1>5, <2>1, SentCarries, PlacedFill
  <2>3. SubSeq(all, pos + 1, pos + k) = SubSeq(stream.bits, pos + 1, pos + k)
    <3> DEFINE bits == stream.bits
    <3>1. /\ bits \in Seq(Bit) /\ all \in Seq(Bit) /\ Len(bits) <= Len(all)
          /\ \A i \in 1 .. Len(bits) : all[i] = bits[i]
      BY <1>2, SentCarries, StreamFacts
    <3>. HIDE DEF all, bits
    <3>2. pos + k <= Len(bits) /\ k \in Nat
      BY <1>2, <1>5, <1>6 DEF bits
    <3>3. \A i \in 1 .. k : pos + i \in 1 .. Len(bits) /\ pos + i \in 1 .. Len(all)
      BY <1>2, <3>1, <3>2
    <3> DEFINE a == SubSeq(all, pos + 1, pos + k)
               b == SubSeq(bits, pos + 1, pos + k)
    <3>4. a \in Seq(Bit) /\ Len(a) = k /\ \A i \in 1 .. k : a[i] = all[pos + i]
      BY <1>2, <3>1, <3>2, <3>3
    <3>5. b \in Seq(Bit) /\ Len(b) = k /\ \A i \in 1 .. k : b[i] = bits[pos + i]
      BY <1>2, <3>1, <3>2, <3>3
    <3>. HIDE DEF a, b
    <3>6. \A i \in 1 .. k : a[i] = b[i]
      BY <3>1, <3>3, <3>4, <3>5
    <3>7. a = b
      BY <3>4, <3>5, <3>6, SeqEqual
    <3>. QED BY <3>7 DEF a, b, bits
  <2>. HIDE DEF all
  <2>. QED BY <2>2, <2>3
<1> HIDE DEF after
<1>10. ReadsInPlace'
  BY <1>1, <1>7, <1>9 DEF ReadsInPlace, ReadsInv, Running
<1>. QED BY <1>1, <1>2, <1>5, <1>8, <1>10 DEF ReadsInv

LEMMA DescendKeepsReads ==
  ASSUME AllReadable, ReadsInv, stream.sent # <<>>, Descend
  PROVE  ReadsInv'
<1> DEFINE after == Append(stack, FrameFor(PartsDue(Top)[Len(Top.parts) + 1]))
<1>1. /\ Running /\ HeaderDone(Top) /\ Len(Top.parts) < Len(PartsDue(Top))
      /\ stack' = after /\ UNCHANGED <<stream, pos, room, outcome, result>>
  BY DEF Descend
<1>2. stream \in Streams /\ ReadsInPlace
  BY DEF ReadsInv
<1>3. PICK sources : Placed(stream, sources, stack, pos)
  BY <1>1 DEF ReadsInv, ReadsInPlace, Running
<1>4. \E more : Placed(stream, more, after, pos)
  <2>1. Top = stack[Len(stack)]
    BY DEF Top
  <2>. QED BY <1>1, <1>2, <1>3, <2>1, SentCarries, PlacedDescend
<1> HIDE DEF after
<1>5. ReadsInPlace'
  BY <1>1, <1>2, <1>4 DEF ReadsInPlace, Running
<1>. QED BY <1>1, <1>2, <1>5 DEF ReadsInv

LEMMA FinishKeepsReads ==
  ASSUME AllReadable, ReadsInv, stream.sent # <<>>, Finish
  PROVE  /\ ReadsInv'
         /\ outcome' \in {"Ready", outcome} /\ (outcome' = "Ready" => pos = stream.size)
<1>1. Running /\ Whole(Top) /\ UNCHANGED <<stream, pos, room>>
  BY DEF Finish
<1>2. stream \in Streams /\ ReadsInPlace
  BY DEF ReadsInv
<1>3. PICK sources : Placed(stream, sources, stack, pos)
  BY <1>1 DEF ReadsInv, ReadsInPlace, Running
<1>4. Top = stack[Len(stack)]
  BY DEF Top
<1>5. CASE Len(stack) = 1
  <2>1. stack' = <<>> /\ result' = <<ValueOf(Top)>> /\ outcome' = "Ready"
    BY <1>5 DEF Finish
  <2>2. <<ValueOf(Top)>> = stream.sent /\ pos = stream.size
    BY <1>1, <1>2, <1>3, <1>4, <1>5, SentCarries, PlacedEnd
  <2>3. ReadsInPlace'
    BY <1>1, <1>2, <2>1, <2>2 DEF ReadsInPlace
  <2>. QED BY <1>1, <1>2, <2>1, <2>2, <2>3 DEF ReadsInv
<1>6. CASE Len(stack) # 1
  <2> DEFINE after == [SubSeq(stack, 1, Len(stack) - 1)
                         EXCEPT ![Len(stack) - 1].parts = Append(@, ValueOf(Top))]
  <2>1. stack' = after /\ UNCHANGED <<result, outcome>>
    BY <1>6 DEF Finish
  <2>2. \E fewer : Placed(stream, fewer, after, pos)
    BY <1>1, <1>2, <1>3, <1>4, <1>6, SentCarries, PlacedFinish
  <2>. HIDE DEF after
  <2>3. ReadsInPlace'
    BY <1>1, <1>2, <2>1, <2>2 DEF ReadsInPlace, Running
  <2>. QED BY <1>1, <1>2, <2>1, <2>3 DEF ReadsInv, Running
<1>. QED BY <1>5, <1>6

(* It is inductive.                                                        *)
LEMMA StepKeepsReads ==
  ASSUME AllReadable, ReadsInv, [Next]_vars
  PROVE  ReadsInv'
<1>0. stream \in Streams /\ stream' = stream
  BY DEF ReadsInv, Next, LoopTurn, Poll, Fill, Insufficient, Suspend, Descend, Finish, Fail,
         Panic, vars
<1>1. CASE stream.sent = <<>>
  BY <1>0, <1>1 DEF ReadsInv
<1>2. CASE stream.sent # <<>>
  <2>0. ReadsInPlace
    BY <1>2 DEF ReadsInv
  <2>1. CASE Fill
    BY <1>2, <2>1, FillKeepsReads
  <2>2. CASE Insufficient
    <3>1. ReadsInPlace'
      BY <2>0, <2>2 DEF Insufficient, ReadsInPlace, Running
    <3>. QED BY <1>0, <3>1 DEF ReadsInv
  <2>3. CASE Suspend
    <3>1. ReadsInPlace'
      BY <2>0, <2>3 DEF Suspend, ReadsInPlace, Running
    <3>. QED BY <1>0, <3>1 DEF ReadsInv
  <2>4. CASE Descend
    BY <1>2, <2>4, DescendKeepsReads
  <2>5. CASE Finish
    BY <1>2, <2>5, FinishKeepsReads
  <2>6. CASE Fail \/ Panic
    BY <1>2, <2>6, TopAccepts DEF Fail, Panic
  <2>7. ASSUME NEW r \in Pieces, Poll(r) PROVE ReadsInv'
    <3>1. r \in Nat /\ Len(stream.bits) \in Nat
      BY <1>0, <1>2, DeserializerConstants, SentCarries, StreamFacts
    <3>2. /\ outcome # "Ready" /\ outcome' = "Running" /\ room' = r
          /\ pos + r <= Len(stream.bits) /\ UNCHANGED <<stream, stack, pos, result>>
      BY <2>7 DEF Poll
    <3>3. pos \in Nat /\ r <= Len(stream.bits)
      BY <2>0, <3>1, <3>2 DEF ReadsInPlace
    <3>4. ReadsInPlace'
      BY <2>0, <3>1, <3>2, <3>3 DEF ReadsInPlace
    <3>. QED BY <1>0, <3>4 DEF ReadsInv
  <2>8. CASE UNCHANGED vars
    <3>1. ReadsInPlace'
      BY <2>0, <2>8 DEF vars, ReadsInPlace
    <3>. QED BY <1>0, <3>1 DEF ReadsInv
  <2>. QED BY <2>1, <2>2, <2>3, <2>4, <2>5, <2>6, <2>7, <2>8 DEF Next, LoopTurn
<1>. QED BY <1>1, <1>2

LEMMA AlwaysReads ==
  ASSUME AllReadable
  PROVE  Spec => []ReadsInv
<1>1. AllReadable
  OBVIOUS
<1>2. ReadsInv /\ [Next]_vars => ReadsInv'
  BY <1>1, StepKeepsReads
<1>. QED BY <1>2, InitHasReads, PTL DEF Spec

-----------------------------------------------------------------------------
(* What is proved of the machine.                                          *)

(* The value that was sent is the value that is received, whatever it is   *)
(* made of, wherever the calls of poll_deserialize cut the stream and      *)
(* whenever a future in it suspends them; and not a bit of what follows it *)
(* on the stream is used.                                                  *)
THEOREM DeserializerRoundTrip ==
  ASSUME AllReadable
  PROVE  Spec => []RoundTrip
<1>1. ReadsInv => RoundTrip
  <2> SUFFICES ASSUME ReadsInv, stream.sent # <<>>
               PROVE  /\ outcome \notin {"Error", "Panic"}
                      /\ outcome = "Ready" =>
                           result = stream.sent /\ pos = Len(EncodingOf(SentOn(stream)))
    BY DEF RoundTrip
  <2>1. stream.size = Len(EncodingOf(SentOn(stream)))
    BY SentCarries, StreamFacts DEF ReadsInv
  <2>. QED BY <2>1 DEF ReadsInv, ReadsInPlace
<1>. QED BY <1>1, AlwaysReads, PTL

(* What each frame is doing, for the function that Sources is.             *)
LEMMA PlacedReads ==
  ASSUME AllReadable, ReadsInv, stream.sent # <<>>, outcome # "Ready"
  PROVE  /\ stack \in Seq(Frames) /\ stack # <<>>
         /\ FramesInPlace(Sources) /\ NextBitInPlace(Sources[Len(stack)])
         /\ \A i \in 1 .. Len(stack) : Missing(stack[i]) \in Nat
<1>1. PICK sources : Placed(stream, sources, stack, pos)
  BY DEF ReadsInv, ReadsInPlace
<1>2. /\ stack \in Seq(Frames) /\ stack # <<>> /\ Len(stack) \in Nat
      /\ IsChain(sources, SentOn(stream), stack)
  BY <1>1 DEF Placed
<1>3. Sources = sources
  BY <1>2, OnlyChain
<1>4. NextBitInPlace(sources[Len(stack)])
  BY <1>1 DEF Placed, NextIs, NextBitInPlace, Top
<1>5. ASSUME NEW i \in 1 .. Len(stack)
      PROVE  /\ ReadsItem(stack[i], sources[i].item)
             /\ StandsAt(sources[i].item, sources[i].start)
             /\ i < Len(stack) => Waits(stack[i], sources[i].item)
             /\ Missing(stack[i]) \in Nat
  <2> DEFINE it == sources[i].item
             f == stack[i]
  <2>1. AtItsPlace(stream, f, sources[i]) /\ f \in Frames
    BY <1>1, <1>2 DEF Placed
  <2>2. /\ it \in Nested /\ Readable(it) /\ ReadsItem(f, it) /\ sources[i].start \in Nat
        /\ sources[i].start + Len(EncodingOf(it)) <= stream.size
        /\ Holds(AllBits(stream), sources[i].start, EncodingOf(it))
    BY <2>1 DEF AtItsPlace, AllReadable
  <2>3. StandsAt(it, sources[i].start)
    <3> DEFINE whole == EncodingOf(it)
               start == sources[i].start
    <3>1. /\ Len(stream.bits) \in Nat
          /\ \A j \in 1 .. Len(stream.bits) : AllBits(stream)[j] = stream.bits[j]
      BY SentCarries, StreamFacts DEF ReadsInv
    <3>2. ASSUME NEW j \in 1 .. Len(whole), start + j <= Len(stream.bits)
          PROVE  stream.bits[start + j] = whole[j]
      <4>1. start + j \in 1 .. Len(stream.bits)
        <5>1. start \in Nat /\ j \in Nat /\ j >= 1
          BY <2>2
        <5>. HIDE DEF start
        <5>. QED BY <3>1, <3>2, <5>1
      <4>2. AllBits(stream)[start + j] = whole[j]
        BY <2>2 DEF Holds
      <4>. QED BY <3>1, <4>1, <4>2
    <3>. HIDE DEF whole, start
    <3>. QED BY <2>2, <3>2 DEF StandsAt, whole, start
  <2>4. Missing(f) \in Nat
    <3>. HIDE DEF it, f
    <3>. QED BY <2>1, <2>2, FrameReads
  <2>5. i < Len(stack) => Waits(f, it)
    <3>1. i < Len(stack) => i \in 1 .. Len(stack) - 1
      BY <1>2
    <3>. QED BY <1>1, <3>1 DEF Placed
  <2>. QED BY <2>2, <2>3, <2>4, <2>5
<1>6. FramesInPlace(sources)
  BY <1>5 DEF FramesInPlace, Waits
<1>. QED BY <1>2, <1>3, <1>4, <1>5, <1>6

(* While a value that was sent is read, every deserializer at work is at   *)
(* its place in that value and in its encoding, and the state keeps its    *)
(* types: what the runs check of the states that DeserializerInv speaks of *)
(* when a value was sent.                                                  *)
THEOREM DeserializerInPlace ==
  ASSUME AllReadable
  PROVE  Spec => [](stream.sent # <<>> => TypeOK /\ ReadsSent)
<1>1. ReadsInv => (stream.sent # <<>> => TypeOK /\ ReadsSent)
  <2> SUFFICES ASSUME ReadsInv, stream.sent # <<>> PROVE TypeOK /\ ReadsSent
    OBVIOUS
  <2>1. Len(stream.bits) \in Nat /\ ReadsInPlace
    BY SentCarries, StreamFacts DEF ReadsInv
  <2>2. CASE outcome = "Ready"
    <3>1. /\ stack = <<>> /\ result = stream.sent /\ pos = stream.size
          /\ pos \in 0 .. Len(stream.bits) /\ room \in 0 .. Len(stream.bits)
          /\ result # <<>>
      BY <2>1, <2>2 DEF ReadsInPlace
    <3>2. stack \in Seq(Frames) /\ 1 .. Len(stack) = {}
      BY <3>1
    <3>. QED BY <2>2, <3>1, <3>2 DEF TypeOK, ReadsSent
  <2>3. CASE outcome # "Ready"
    <3>1. /\ stack \in Seq(Frames) /\ stack # <<>>
          /\ FramesInPlace(Sources) /\ NextBitInPlace(Sources[Len(stack)])
          /\ \A i \in 1 .. Len(stack) : Missing(stack[i]) \in Nat
      BY <2>3, PlacedReads
    <3>2. /\ pos \in 0 .. Len(stream.bits) /\ room \in 0 .. Len(stream.bits)
          /\ outcome \in {"New", "Running", "Insufficient", "Pending", "Ready"}
          /\ result = <<>>
      BY <2>1, <2>3 DEF ReadsInPlace
    <3>. QED BY <2>3, <3>1, <3>2 DEF TypeOK, ReadsSent
  <2>. QED BY <2>2, <2>3
<1>. QED BY <1>1, AlwaysReads, PTL

(* Every step of a deserializer that reads what was sent is one that the   *)
(* contract of codecs allows, or none that its adapter could notice.       *)
LEMMA StepKeepsContract ==
  ASSUME AllReadable, ReadsInv, stream.sent # <<>>, [Next]_vars
  PROVE  [Contract!Next]_(Contract!vars)
<1> USE DEF Contract!vars
<1>0. /\ stream \in Streams /\ ReadsInPlace /\ pos \in Nat /\ room \in Nat
      /\ stream.size \in Nat
  BY SentCarries, StreamFacts DEF ReadsInv, ReadsInPlace
<1>1. CASE Fill
  <2>1. PICK k \in 1 .. room : pos' = pos + k /\ room' = room - k /\ pos + k <= stream.size
    BY <1>1, FillKeepsReads
  <2>2. outcome = "Running" /\ UNCHANGED <<stream, outcome>>
    BY <1>1 DEF Fill, Running
  <2>3. Contract!Move(k)
    BY <1>0, <2>1, <2>2 DEF Contract!Move
  <2>. QED BY <2>3 DEF Contract!Next
<1>2. CASE Insufficient
  <2>1. /\ Running /\ Missing(Top) > 0 /\ room = 0 /\ outcome' = "Insufficient"
        /\ UNCHANGED <<stream, pos, room>>
    BY <1>2 DEF Insufficient
  <2>2. pos < stream.size
    <3>1. PICK sources : Placed(stream, sources, stack, pos)
      BY <1>0, <2>1 DEF ReadsInPlace, Running
    <3>2. Missing(Top) \in Nat /\ ~HeaderDone(Top)
      BY <2>1, TopAccepts DEF HeaderDone
    <3>3. pos + Missing(Top) <= stream.size
      BY <1>0, <3>1, <3>2, SentCarries, PlacedRoom DEF Top
    <3>. QED BY <1>0, <2>1, <3>2, <3>3
  <2>. QED BY <2>1, <2>2 DEF Running, Contract!Next, Contract!Insufficient
<1>3. CASE Suspend
  BY <1>3 DEF Suspend, Running, Contract!Next, Contract!Pending
<1>4. CASE Fail \/ Panic
  BY <1>4, TopAccepts DEF Fail, Panic
<1>5. CASE Descend
  BY <1>5 DEF Descend
<1>6. CASE Finish
  <2>1. outcome' \in {"Ready", outcome} /\ (outcome' = "Ready" => pos = stream.size)
    BY <1>6, FinishKeepsReads
  <2>2. outcome = "Running" /\ UNCHANGED <<stream, pos, room>>
    BY <1>6 DEF Finish, Running
  <2>3. CASE outcome' = "Ready"
    BY <2>1, <2>2, <2>3 DEF Contract!Next, Contract!Ready
  <2>4. CASE outcome' = outcome
    BY <2>2, <2>4
  <2>. QED BY <2>1, <2>3, <2>4
<1>7. CASE \E r \in Pieces : Poll(r)
  <2>1. PICK r \in Pieces : Poll(r)
    BY <1>7
  <2>2. Contract!Poll(r)
    BY <2>1 DEF Poll, Contract!Poll
  <2>. QED BY <2>2 DEF Contract!Next
<1>8. CASE UNCHANGED vars
  BY <1>8 DEF vars
<1>. QED BY <1>1, <1>2, <1>3, <1>4, <1>5, <1>6, <1>7, <1>8 DEF Next, LoopTurn

(* A deserializer that reads what was sent keeps the contract AsyncReader  *)
(* and ReadImmediate rely on: it is Insufficient only when it has read all *)
(* bits there are and needs more, Ready only when it has read those of its *)
(* item and not one bit more, and goes on where it stopped (the detailed   *)
(* machine implements CodecContract).                                      *)
THEOREM DeserializerKeepsContract ==
  ASSUME AllReadable
  PROVE  Spec /\ stream.sent # <<>> => KeepsContract
<1>1. Init /\ stream.sent # <<>> => Contract!Init
  <2> SUFFICES ASSUME Init, stream.sent # <<>> PROVE Contract!Init
    OBVIOUS
  <2>1. stream.size \in Nat
    BY SentCarries, StreamFacts DEF Init
  <2>. QED BY <2>1 DEF Init, Contract!Init
<1>2. ReadsInv /\ [Next]_vars /\ stream.sent # <<>> => (stream.sent # <<>>)'
  BY DEF Next, LoopTurn, Poll, Fill, Insufficient, Suspend, Descend, Finish, Fail, Panic, vars
<1>3. AllReadable
  OBVIOUS
<1>4. ReadsInv /\ [Next]_vars /\ stream.sent # <<>> => [Contract!Next]_(Contract!vars)
  BY <1>3, StepKeepsContract
<1>. QED BY <1>1, <1>2, <1>4, AlwaysReads, PTL DEF Spec, KeepsContract, Contract!Spec

-----------------------------------------------------------------------------
(* Whatever bits there are on a stream, what the deserializers do has the  *)
(* right types.                                                            *)

(* A quantity, once its first byte is there, tells how long it is, with    *)
(* that byte alone.                                                        *)
LEMMA QuantityHasLength ==
  ASSUME NEW bits \in Seq(Bit), ByteBits <= Len(bits)
  PROVE  /\ VlqLength(bits) \in 1 .. ByteBits + 1
         /\ VlqLength(bits) <= ByteBits => bits[VlqLength(bits)] = 0
         /\ \A i \in 1 .. VlqLength(bits) - 1 : bits[i] = 1
         /\ \A more \in Seq(Bit) :
              ByteBits <= Len(more) /\ (\A i \in 1 .. ByteBits : more[i] = bits[i])
                => VlqLength(more) = VlqLength(bits)
<1> DEFINE Length(b, k) == (k <= ByteBits => b[k] = 0) /\ \A i \in 1 .. k - 1 : b[i] = 1
           Zeros == { k \in 1 .. ByteBits + 1 : k <= ByteBits => bits[k] = 0 }
<1>1. ByteBits \in Nat /\ ByteBits > 0 /\ Len(bits) \in Nat
  BY FormatConstants
<1>2. PICK k \in Zeros : \A j \in Zeros : k <= j
  <2>1. ByteBits + 1 \in Zeros /\ Zeros \subseteq Nat
    BY <1>1
  <2>. HIDE DEF Zeros
  <2>. QED BY <2>1, LeastOf
<1>3. k \in 1 .. ByteBits + 1 /\ Length(bits, k)
  <2>1. ASSUME NEW i \in 1 .. k - 1 PROVE bits[i] = 1
    <3>1. i \in 1 .. ByteBits /\ i \in 1 .. Len(bits) /\ ~(k <= i)
      BY <1>1, <1>2
    <3>2. bits[i] \in Bit /\ i \notin Zeros
      BY <1>2, <3>1
    <3>. QED BY <1>1, <3>1, <3>2 DEF Bit
  <2>. QED BY <1>2, <2>1
<1>4. ASSUME NEW b, NEW j \in 1 .. ByteBits + 1, Length(b, j), Length(b, k) PROVE j = k
  <2>1. j < k => b[j] = 0 /\ b[j] = 1
    BY <1>1, <1>3, <1>4
  <2>2. k < j => b[k] = 0 /\ b[k] = 1
    BY <1>1, <1>3, <1>4
  <2>3. ~(j < k) /\ ~(k < j)
    BY <2>1, <2>2
  <2>. QED BY <1>3, <1>4, <2>3
<1>5. ASSUME NEW b, Length(b, k) PROVE VlqLength(b) = k
  <2>1. VlqLength(b) = CHOOSE j \in 1 .. ByteBits + 1 : Length(b, j)
    BY DEF VlqLength
  <2>. HIDE DEF Length
  <2>. QED BY <1>3, <1>4, <1>5, <2>1
<1>6. VlqLength(bits) = k
  BY <1>3, <1>5
<1>7. ASSUME NEW more \in Seq(Bit), \A i \in 1 .. ByteBits : more[i] = bits[i]
      PROVE  VlqLength(more) = k
  <2>1. k <= ByteBits => k \in 1 .. ByteBits
    BY <1>3
  <2>2. \A i \in 1 .. k - 1 : i \in 1 .. ByteBits
    BY <1>1, <1>3
  <2>3. Length(more, k)
    BY <1>3, <1>7, <2>1, <2>2
  <2>. QED BY <1>5, <2>3
<1>. QED BY <1>3, <1>6, <1>7

(* What a quantity stands for depends on its own bits alone.               *)
LEMMA QuantityHasValue ==
  ASSUME NEW bits \in Seq(Bit), QuantityDone(bits)
  PROVE  /\ QuantityBits(bits) \in Nat /\ FromVlq(bits) \in Nat
         /\ \A more \in Seq(Bit) : IsPrefix(bits, more) =>
              /\ QuantityBits(more) = QuantityBits(bits) /\ FromVlq(more) = FromVlq(bits)
<1> DEFINE k == VlqLength(bits)
           l == UnaryBits(k) + 1
           m == ByteBits * k
<1>1. ByteBits \in Nat /\ ByteBits > 0 /\ Len(bits) \in Nat
  BY FormatConstants
<1>2. ByteBits <= Len(bits) /\ QuantityBits(bits) = m /\ m <= Len(bits)
  <2>1. Len(bits) >= QuantityBits(bits)
    BY DEF QuantityDone
  <2>2. ByteBits <= Len(bits)
    BY <1>1, <2>1 DEF QuantityBits
  <2>. QED BY <1>1, <2>1, <2>2 DEF QuantityBits
<1>3. k \in 1 .. ByteBits + 1
  BY <1>2, QuantityHasLength
<1>4. /\ l \in Nat /\ l >= 1 /\ l <= m + 1 /\ m \in Nat
  <2>1. /\ UnaryBits(k) \in 1 .. ByteBits /\ ValueBits(k) \in Nat
        /\ UnaryBits(k) + ValueBits(k) = m /\ m \in Nat
    BY <1>3, QuantityParts
  <2>. HIDE DEF k, m
  <2>. QED BY <1>1, <2>1
<1>5. FromVlq(bits) = FromBigEndian(SubSeq(bits, l, m))
  BY DEF FromVlq
<1>6. ASSUME NEW more \in Seq(Bit), IsPrefix(bits, more)
      PROVE  /\ QuantityBits(more) = m /\ FromVlq(more) = FromBigEndian(SubSeq(more, l, m))
             /\ m <= Len(more) /\ SubSeq(more, l, m) = SubSeq(bits, l, m)
  <2>1. Len(bits) <= Len(more) /\ \A i \in 1 .. Len(bits) : bits[i] = more[i]
    BY <1>6, PrefixFacts
  <2>2. Len(more) \in Nat /\ ByteBits <= Len(more)
    BY <1>1, <1>2, <2>1
  <2>3. \A i \in 1 .. ByteBits : more[i] = bits[i]
    BY <1>1, <1>2, <2>1
  <2>4. VlqLength(more) = k
    BY <1>2, <2>2, <2>3, QuantityHasLength
  <2>5. QuantityBits(more) = m /\ FromVlq(more) = FromBigEndian(SubSeq(more, l, m))
    BY <1>1, <2>2, <2>4 DEF QuantityBits, FromVlq
  <2>6. SubSeq(more, l, m) = SubSeq(bits, l, m)
    <3>. HIDE DEF l, m
    <3>1. SubSeq(more, l, m) = [i \in 1 .. m - l + 1 |-> more[l + i - 1]]
      BY <1>2, <1>4, <2>1, <2>2
    <3>2. SubSeq(bits, l, m) = [i \in 1 .. m - l + 1 |-> bits[l + i - 1]]
      BY <1>1, <1>2, <1>4
    <3>3. \A i \in 1 .. m - l + 1 : bits[l + i - 1] = more[l + i - 1]
      BY <1>1, <1>2, <1>4, <2>1
    <3>. QED BY <3>1, <3>2, <3>3
  <2>. QED BY <1>1, <1>2, <1>4, <2>1, <2>2, <2>5, <2>6
<1>7. SubSeq(bits, l, m) \in Seq(Bit)
  <2>. HIDE DEF l, m
  <2>1. l \in 1 .. Len(bits) + 1 /\ m \in l - 1 .. Len(bits)
    BY <1>1, <1>2, <1>4
  <2>. QED BY <2>1, SubSeqProperties
<1>8. FromVlq(bits) \in Nat
  <2> DEFINE data == SubSeq(bits, l, m)
  <2>1. data \in Seq(Bit) /\ FromVlq(bits) = FromBigEndian(data)
    BY <1>5, <1>7
  <2>. HIDE DEF data
  <2>2. PICK read \in [0 .. Len(data) -> Nat] : FromBigEndian(data) = read[Len(data)]
    BY <2>1, ReadingBits
  <2>. QED BY <2>1, <2>2
<1> HIDE DEF l, m
<1>. QED BY <1>2, <1>4, <1>5, <1>6, <1>8

(* A determinant is a number.                                              *)
LEMMA DeterminantHasValue ==
  ASSUME NEW bits \in Seq(Bit)
  PROVE  FromLittleEndian(bits) \in Nat /\ FromBigEndian(bits) \in Nat
<1>1. ASSUME NEW b \in Seq(Bit) PROVE FromBigEndian(b) \in Nat
  <2>1. PICK read \in [0 .. Len(b) -> Nat] : FromBigEndian(b) = read[Len(b)]
    BY ReadingBits
  <2>. QED BY <2>1
<1>2. Reverse(bits) \in Seq(Bit)
  BY DEF Reverse
<1>. QED BY <1>1, <1>2 DEF FromLittleEndian

(* A frame, whatever it has read.                                          *)
SomeFrame(f) ==
  /\ f = [type |-> f.type, got |-> f.got, parts |-> f.parts]
  /\ f.type \in Types /\ f.got \in Seq(Bit)
  /\ \E S : f.parts \in Seq(S)

(* How many bits a deserializer wants is a number, and no less than it has *)
(* been given, if it has not been given more than it wanted.               *)
LEMMA BitsWanted ==
  ASSUME NEW f, SomeFrame(f)
  PROVE  /\ ReadsOf(f).bits \in Nat
         /\ f.type.kind \in {"string", "vec"} =>
              /\ QuantityBits(f.got) \in Nat /\ QuantityBits(f.got) <= ReadsOf(f).bits
              /\ ByteBits <= QuantityBits(f.got)
              /\ ~QuantityDone(f.got) => ReadsOf(f).bits = QuantityBits(f.got)
<1> DEFINE T == f.type
<1>1. IsType(T) /\ ByteBits \in Nat /\ ByteBits > 0 /\ Len(f.got) \in Nat
  BY DeserializerConstants, FormatConstants DEF SomeFrame
<1>2. QuantityBits(f.got) \in Nat /\ ByteBits <= QuantityBits(f.got)
  <2>1. CASE Len(f.got) < ByteBits
    BY <1>1, <2>1 DEF QuantityBits
  <2>2. CASE ByteBits <= Len(f.got)
    <3>1. VlqLength(f.got) \in 1 .. ByteBits + 1
      BY <2>2, QuantityHasLength DEF SomeFrame
    <3>2. ByteBits * VlqLength(f.got) \in Nat /\ ByteBits <= ByteBits * VlqLength(f.got)
      BY <3>1, QuantityParts
    <3>. QED BY <1>1, <2>2, <3>2 DEF QuantityBits
  <2>. QED BY <1>1, <2>1, <2>2
<1>3. LengthKnown(f) => QuantityDone(f.got) /\ FromVlq(f.got) \in Nat
  BY QuantityHasValue DEF LengthKnown, SomeFrame
<1>4. CASE T.kind = "string"
  <2>1. ReadsOf(f) = StringReads(f)
    BY <1>4 DEF ReadsOf
  <2>2. CASE LengthKnown(f)
    <3>1. ReadsOf(f).bits = QuantityBits(f.got) + ByteBits * FromVlq(f.got)
      BY <2>1, <2>2 DEF StringReads, Reads
    <3>2. ByteBits * FromVlq(f.got) \in Nat
      BY <1>1, <1>3, <2>2
    <3>. QED BY <1>2, <1>3, <2>2, <3>1, <3>2
  <2>3. CASE ~LengthKnown(f)
    <3>1. ReadsOf(f).bits = QuantityBits(f.got)
      BY <2>1, <2>3 DEF StringReads, Reads
    <3>. QED BY <1>2, <3>1
  <2>. QED BY <2>2, <2>3
<1>5. CASE T.kind = "vec"
  <2>1. ReadsOf(f).bits = QuantityBits(f.got)
    BY <1>5 DEF ReadsOf, VecReads, Reads
  <2>. QED BY <1>2, <2>1
<1>6. CASE T.kind = "number"
  <2>1. ReadsOf(f).bits = ByteBits * T.n /\ T.n \in Nat
    BY <1>1, <1>6 DEF ReadsOf, NumberReads, Reads, IsType
  <2>. QED BY <1>1, <1>6, <2>1
<1>7. CASE T.kind = "enum"
  <2>1. ReadsOf(f).bits = DeterminantBits(Len(T.of)) /\ Len(T.of) \in Nat
    BY <1>1, <1>7 DEF ReadsOf, DerivedReads, Reads, IsType
  <2>. QED BY <1>7, <2>1, DeterminantsFit
<1>8. CASE T.kind \in {"bool", "option", "result"}
  BY <1>8 DEF ReadsOf, BoolReads, OptionReads, ResultReads, Reads
<1>9. CASE T.kind \in {"unit", "empty", "char", "isize", "tuple", "array", "box", "future", "mapped"}
  BY <1>9 DEF ReadsOf, UnitReads, CastReads, TupleReads, ArrayReads, BoxReads, MapReads, Reads
<1>. QED BY <1>1, <1>4, <1>5, <1>6, <1>7, <1>8, <1>9 DEF IsType

(* It wants no fewer bits when it has got more of those it wanted.         *)
LEMMA MoreBitsWanted ==
  ASSUME NEW f, SomeFrame(f), Missing(f) \in Nat,
         NEW more \in Seq(Bit), Len(more) <= Missing(f),
         NEW g, g = [type |-> f.type, got |-> f.got \o more, parts |-> f.parts]
  PROVE  SomeFrame(g) /\ Missing(g) \in Nat
<1> DEFINE T == f.type
           got == f.got
           both == got \o more
<1>1. /\ f.type = g.type /\ g.got = both /\ f.parts = g.parts
      /\ g = [type |-> g.type, got |-> g.got, parts |-> g.parts]
  OBVIOUS
<1>2. got \in Seq(Bit) /\ Len(got) \in Nat /\ Len(more) \in Nat
  BY DEF SomeFrame
<1> HIDE DEF got
<1>3. both \in Seq(Bit) /\ Len(both) = Len(got) + Len(more) /\ IsPrefix(got, both)
  <2>1. \A p, q \in Seq(Bit) :
          /\ p \o q \in Seq(Bit) /\ Len(p \o q) = Len(p) + Len(q)
          /\ \A i \in 1 .. Len(p) : (p \o q)[i] = p[i]
    BY ConcatParts
  <2>2. /\ both \in Seq(Bit) /\ Len(both) = Len(got) + Len(more)
        /\ \A i \in 1 .. Len(got) : both[i] = got[i]
    BY <1>2, <2>1, Zenon
  <2>. HIDE DEF both
  <2>3. Len(got) <= Len(both) /\ \A i \in 1 .. Len(got) : got[i] = both[i]
    BY <1>2, <2>2
  <2>. QED BY <1>2, <2>2, <2>3, PrefixFacts
<1> HIDE DEF both
<1>4. SomeFrame(g)
  BY <1>1, <1>3 DEF SomeFrame
<1>5. /\ Missing(f) = ReadsOf(f).bits - Len(got) /\ Missing(g) = ReadsOf(g).bits - Len(both)
      /\ ReadsOf(f).bits \in Nat /\ ReadsOf(g).bits \in Nat
  BY <1>1, <1>4, BitsWanted DEF Missing, got
<1>6. Len(both) <= ReadsOf(f).bits
  BY <1>2, <1>3, <1>5
<1>7. CASE T.kind \in {"string", "vec"}
  <2>1. CASE QuantityDone(got)
    <3>1. /\ QuantityBits(both) = QuantityBits(got) /\ FromVlq(both) = FromVlq(got)
          /\ QuantityBits(got) \in Nat
      BY <1>2, <1>3, <2>1, QuantityHasValue
    <3>2. QuantityDone(both)
      BY <1>2, <1>3, <2>1, <3>1 DEF QuantityDone
    <3>3. ReadsOf(g).bits = ReadsOf(f).bits
      <4>1. f.got = got
        BY DEF got
      <4>. QED BY <1>1, <1>7, <2>1, <3>1, <3>2, <4>1
               DEF ReadsOf, StringReads, VecReads, LengthKnown, Reads
    <3>. QED BY <1>2, <1>3, <1>4, <1>5, <1>6, <3>3
  <2>2. CASE ~QuantityDone(got)
    <3>1. /\ ReadsOf(f).bits = QuantityBits(got) /\ QuantityBits(got) \in Nat
          /\ QuantityBits(both) \in Nat /\ QuantityBits(both) <= ReadsOf(g).bits
          /\ ByteBits <= QuantityBits(both)
      BY <1>1, <1>4, <1>7, <2>2, BitsWanted DEF got
    <3>2. QuantityBits(got) <= QuantityBits(both)
      <4>1. CASE Len(got) < ByteBits
        BY <3>1, <4>1 DEF QuantityBits
      <4>2. CASE ~(Len(got) < ByteBits)
        <5>1. ByteBits <= Len(got) /\ ByteBits <= Len(both) /\ ~(Len(both) < ByteBits)
          BY <1>2, <1>3, <4>2, FormatConstants
        <5>2. \A i \in 1 .. ByteBits : both[i] = got[i]
          <6>1. \A i \in 1 .. Len(got) : got[i] = both[i]
            BY <1>2, <1>3, PrefixFacts
          <6>. QED BY <1>2, <5>1, <6>1, FormatConstants
        <5>3. VlqLength(both) = VlqLength(got)
          BY <1>2, <1>3, <5>1, <5>2, QuantityHasLength
        <5>4. QuantityBits(both) = QuantityBits(got)
          BY <4>2, <5>1, <5>3 DEF QuantityBits
        <5>. QED BY <3>1, <5>4
      <4>. QED BY <4>1, <4>2
    <3>. QED BY <1>2, <1>3, <1>4, <1>5, <1>6, <3>1, <3>2
  <2>. QED BY <2>1, <2>2
<1>8. CASE T.kind \notin {"string", "vec"}
  <2>1. ReadsOf(g).bits = ReadsOf(f).bits
    <3>1. IsType(T)
      BY DeserializerConstants DEF SomeFrame
    <3>2. CASE T.kind \in {"bool", "option", "result"}
      BY <1>1, <3>2 DEF ReadsOf, BoolReads, OptionReads, ResultReads, Reads
    <3>3. CASE T.kind \in {"number", "enum"}
      BY <1>1, <3>3 DEF ReadsOf, NumberReads, DerivedReads, Reads
    <3>4. CASE T.kind \in {"unit", "empty", "char", "isize", "tuple", "array", "box", "future", "mapped"}
      BY <1>1, <3>4
         DEF ReadsOf, UnitReads, CastReads, TupleReads, ArrayReads, BoxReads, MapReads, Reads
    <3>. QED BY <1>8, <3>1, <3>2, <3>3, <3>4 DEF IsType
  <2>. QED BY <1>2, <1>3, <1>4, <1>5, <1>6, <2>1
<1>. QED BY <1>7, <1>8

(* It has parts of types read.                                             *)
LEMMA PartsHaveTypes ==
  ASSUME NEW f, SomeFrame(f), HeaderDone(f), ~InvalidDeterminant(f)
  PROVE  PartsDue(f) \in Seq(Types)
<1> DEFINE T == f.type
<1>1. IsType(T) /\ T.of \in Seq(Types) /\ f.got \in Seq(Bit)
  BY DeserializerConstants DEF SomeFrame, IsType
<1>2. Len(T.of) \in Nat /\ \A j \in 1 .. Len(T.of) : T.of[j] \in Types
  BY <1>1
<1>3. CASE T.kind \in {"bool", "number", "unit", "empty", "string"}
  <2>1. PartsDue(f) = <<>>
    BY <1>3 DEF PartsDue, ReadsOf, BoolReads, NumberReads, UnitReads, StringReads, Reads
  <2>. QED BY <2>1
<1>4. CASE T.kind \in {"char", "isize", "tuple", "box", "future", "mapped"}
  <2>1. PartsDue(f) = T.of
    BY <1>4 DEF PartsDue, ReadsOf, CastReads, TupleReads, BoxReads, MapReads, Reads
  <2>. QED BY <1>1, <2>1
<1>5. CASE T.kind = "option"
  <2>1. PartsDue(f) \in {T.of, <<>>}
    BY <1>5 DEF PartsDue, ReadsOf, OptionReads, Reads
  <2>2. <<>> \in Seq(Types)
    OBVIOUS
  <2>. QED BY <1>1, <2>1, <2>2
<1>6. CASE T.kind = "result"
  <2>1. Len(T.of) = 2
    BY <1>1, <1>6 DEF IsType
  <2>2. PICK k \in {1, 2} : PartsDue(f) = <<T.of[k]>>
    BY <1>6 DEF PartsDue, ReadsOf, ResultReads, Reads
  <2>3. T.of[k] \in Types
    BY <1>2, <2>1
  <2>. QED BY <2>2, <2>3
<1>7. CASE T.kind \in {"array", "vec"}
  <2>1. Len(T.of) = 1
    BY <1>1, <1>7 DEF IsType
  <2>2. T.of[1] \in Types
    BY <1>2, <2>1
  <2>3. PICK n \in Nat : PartsDue(f) = [i \in 1 .. n |-> T.of[1]]
    <3>1. CASE T.kind = "array"
      <4>1. T.n \in Nat
        BY <1>1, <3>1 DEF IsType
      <4>2. PartsDue(f) = [i \in 1 .. T.n |-> T.of[1]]
        BY <3>1 DEF PartsDue, ReadsOf, ArrayReads, Reads
      <4>. QED BY <4>1, <4>2
    <3>2. CASE T.kind = "vec"
      <4>1. CASE LengthKnown(f)
        <5>1. PartsDue(f) = [i \in 1 .. FromVlq(f.got) |-> T.of[1]]
          BY <3>2, <4>1 DEF PartsDue, ReadsOf, VecReads, Reads
        <5>2. FromVlq(f.got) \in Nat
          BY <1>1, <4>1, QuantityHasValue DEF LengthKnown
        <5>. QED BY <5>1, <5>2
      <4>2. CASE ~LengthKnown(f)
        <5>1. PartsDue(f) = <<>>
          BY <3>2, <4>2 DEF PartsDue, ReadsOf, VecReads, Reads
        <5>2. <<>> = [i \in 1 .. 0 |-> T.of[1]]
          OBVIOUS
        <5>. QED BY <5>1, <5>2
      <4>. QED BY <4>1, <4>2
    <3>. QED BY <1>7, <3>1, <3>2
  <2>. QED BY <2>2, <2>3
<1>8. CASE T.kind = "enum"
  <2>1. Determinant(f) \in Nat /\ Determinant(f) < Len(T.of)
    <3>1. Determinant(f) \in Nat
      BY <1>1, DeterminantHasValue DEF Determinant
    <3>. QED BY <1>2, <1>8, <3>1 DEF InvalidDeterminant
  <2>2. PartsDue(f) = T.of[Determinant(f) + 1].of
    BY <1>8, <2>1 DEF PartsDue, ReadsOf, DerivedReads, Reads
  <2>3. T.of[Determinant(f) + 1] \in Types
    BY <1>2, <2>1
  <2>4. T.of[Determinant(f) + 1].of \in Seq(Types)
    BY <2>3, DeserializerConstants DEF IsType
  <2>. QED BY <2>2, <2>4
<1>. QED BY <1>1, <1>3, <1>4, <1>5, <1>6, <1>7, <1>8 DEF IsType

(* A new frame.                                                            *)
LEMMA NewFrame ==
  ASSUME NEW T \in Types
  PROVE  SomeFrame(FrameFor(T)) /\ Missing(FrameFor(T)) \in Nat
<1> DEFINE f == FrameFor(T)
<1>1. /\ f = [type |-> f.type, got |-> f.got, parts |-> f.parts]
      /\ f.type = T /\ f.got = <<>> /\ f.parts = <<>>
  BY DEF FrameFor
<1>2. f.parts \in Seq({}) /\ f.got \in Seq(Bit) /\ Len(f.got) = 0
  BY <1>1
<1> HIDE DEF f
<1>3. SomeFrame(f)
  BY <1>1, <1>2 DEF SomeFrame
<1>4. ReadsOf(f).bits \in Nat
  BY <1>3, BitsWanted
<1>5. Missing(f) \in Nat
  BY <1>2, <1>4 DEF Missing
<1>. QED BY <1>3, <1>5 DEF f

(* What is wanted depends on the type and on the bits that are there.      *)
LEMMA SameWanted ==
  ASSUME NEW f, NEW g, g.type = f.type, g.got = f.got
  PROVE  Missing(g) = Missing(f)
<1>1. ReadsOf(g) = ReadsOf(f)
  BY DEF ReadsOf, BoolReads, NumberReads, UnitReads, CastReads, StringReads, OptionReads,
         ResultReads, TupleReads, DerivedReads, ArrayReads, VecReads, BoxReads, MapReads,
         LengthKnown, Determinant
<1>. QED BY <1>1 DEF Missing

(* One element of a sequence is replaced.                                  *)
LEMMA OneReplaced ==
  ASSUME NEW S, NEW s \in Seq(S), NEW n \in 1 .. Len(s), NEW g
  PROVE  /\ [s EXCEPT ![n] = g] \in Seq(S \cup {g})
         /\ Len([s EXCEPT ![n] = g]) = Len(s)
         /\ \A i \in 1 .. Len(s) : [s EXCEPT ![n] = g][i] = IF i = n THEN g ELSE s[i]
OBVIOUS

TypedInv ==
  /\ stream.type \in Types /\ stream.bits \in Seq(Bit)
  /\ \E S : stack \in Seq(S)
  /\ \A i \in 1 .. Len(stack) : SomeFrame(stack[i]) /\ Missing(stack[i]) \in Nat
  /\ pos \in Nat /\ room \in Nat /\ pos <= Len(stream.bits) /\ room <= Len(stream.bits)
  /\ outcome \in {"New", "Running", "Insufficient", "Pending", "Ready", "Error", "Panic"}
  /\ (outcome = "Ready") <=> (result # <<>>)
  /\ outcome = "Running" => pos + room <= Len(stream.bits)
  /\ outcome # "Ready" => stack # <<>>
  /\ \E V : result \in Seq(V)

(* The frame on top has its type.                                          *)
LEMMA TopTyped ==
  ASSUME TypedInv, stack # <<>>
  PROVE  /\ Len(stack) \in Nat /\ Len(stack) \in 1 .. Len(stack)
         /\ SomeFrame(Top) /\ Missing(Top) \in Nat
<1>1. PICK S : stack \in Seq(S)
  BY DEF TypedInv
<1>2. Len(stack) \in Nat /\ Len(stack) \in 1 .. Len(stack)
  BY <1>1
<1>. QED BY <1>2 DEF TypedInv, Top

LEMMA InitTyped == Init => TypedInv
<1> SUFFICES ASSUME Init PROVE TypedInv
  OBVIOUS
<1> DEFINE f == FrameFor(stream.type)
<1>1. /\ stream \in Streams /\ stack = <<f>> /\ pos = 0 /\ room = 0
      /\ outcome = "New" /\ result = <<>>
  BY DEF Init
<1>2. stream.type \in Types /\ stream.bits \in Seq(Bit) /\ Len(stream.bits) \in Nat
  BY <1>1, DeserializerConstants DEF Bit
<1>3. SomeFrame(f) /\ Missing(f) \in Nat
  BY <1>2, NewFrame
<1> HIDE DEF f
<1>4. stack \in Seq({f}) /\ stack # <<>> /\ \A i \in 1 .. Len(stack) : stack[i] = f
  BY <1>1
<1>5. \A i \in 1 .. Len(stack) : SomeFrame(stack[i]) /\ Missing(stack[i]) \in Nat
  BY <1>3, <1>4
<1>6. pos \in Nat /\ room \in Nat /\ pos <= Len(stream.bits) /\ room <= Len(stream.bits)
  BY <1>1, <1>2
<1>7. result \in Seq({})
  BY <1>1
<1>. QED BY <1>1, <1>2, <1>4, <1>5, <1>6, <1>7 DEF TypedInv

LEMMA FillKeepsTypes ==
  ASSUME TypedInv, Fill
  PROVE  TypedInv'
<1> DEFINE k == IF Missing(Top) < room THEN Missing(Top) ELSE room
           more == SubSeq(stream.bits, pos + 1, pos + k)
           g == [Top EXCEPT !.got = Top.got \o more]
           n == Len(stack)
<1>1. /\ outcome = "Running" /\ Missing(Top) > 0 /\ room > 0
      /\ stack' = [stack EXCEPT ![n] = g] /\ pos' = pos + k /\ room' = room - k
      /\ UNCHANGED <<stream, outcome, result>>
  BY DEF Fill, WithTop, Running
<1>2. /\ n \in Nat /\ n \in 1 .. n /\ SomeFrame(Top) /\ Missing(Top) \in Nat
  BY <1>1, TopTyped DEF TypedInv
<1>3. /\ stream.bits \in Seq(Bit) /\ Len(stream.bits) \in Nat /\ pos \in Nat /\ room \in Nat
      /\ pos + room <= Len(stream.bits)
  BY <1>1 DEF TypedInv
<1>4. k \in 1 .. room /\ k <= Missing(Top) /\ k \in Nat
  BY <1>1, <1>2, <1>3
<1> HIDE DEF k
<1>5. more \in Seq(Bit) /\ Len(more) = k
  <2> DEFINE l == pos + 1
             m == pos + k
  <2>1. l \in 1 .. Len(stream.bits) + 1 /\ m \in l - 1 .. Len(stream.bits) /\ m - l + 1 = k
    BY <1>3, <1>4
  <2>. HIDE DEF l, m
  <2>2. SubSeq(stream.bits, l, m) \in Seq(Bit) /\ Len(SubSeq(stream.bits, l, m)) = k
    BY <1>3, <2>1, SubSeqProperties
  <2>. QED BY <2>2 DEF l, m
<1> HIDE DEF more
<1>6. g = [type |-> Top.type, got |-> Top.got \o more, parts |-> Top.parts]
  <2> DEFINE t == Top
             got == t.got \o more
  <2>1. t = [type |-> t.type, got |-> t.got, parts |-> t.parts]
    BY <1>2 DEF SomeFrame
  <2>. HIDE DEF t, got
  <2>2. [t EXCEPT !.got = got] = [type |-> t.type, got |-> got, parts |-> t.parts]
    BY <2>1
  <2>. QED BY <2>2 DEF t, got
<1> HIDE DEF g
<1>7. SomeFrame(g) /\ Missing(g) \in Nat
  BY <1>2, <1>4, <1>5, <1>6, MoreBitsWanted
<1>8. PICK S : stack \in Seq(S)
  BY DEF TypedInv
<1>9. /\ stack' \in Seq(S \cup {g}) /\ Len(stack') = n
      /\ \A i \in 1 .. n : stack'[i] = IF i = n THEN g ELSE stack[i]
  BY <1>1, <1>2, <1>8, OneReplaced
<1>10. stack' # <<>>
  BY <1>2, <1>9
<1>11. /\ pos' \in Nat /\ room' \in Nat /\ pos' <= Len(stream.bits)
       /\ room' <= Len(stream.bits) /\ pos' + room' <= Len(stream.bits)
  BY <1>1, <1>3, <1>4
<1>12. \A i \in 1 .. Len(stack') : SomeFrame(stack'[i]) /\ Missing(stack'[i]) \in Nat
  BY <1>7, <1>9 DEF TypedInv
<1>. QED BY <1>1, <1>9, <1>10, <1>11, <1>12 DEF TypedInv

LEMMA DescendKeepsTypes ==
  ASSUME TypedInv, Descend
  PROVE  TypedInv'
<1> DEFINE T == PartsDue(Top)[Len(Top.parts) + 1]
           g == FrameFor(T)
           n == Len(stack)
<1>1. /\ outcome = "Running" /\ HeaderDone(Top) /\ ~InvalidDeterminant(Top)
      /\ Len(Top.parts) < Len(PartsDue(Top))
      /\ stack' = Append(stack, g) /\ UNCHANGED <<stream, pos, room, outcome, result>>
  BY DEF Descend, Running
<1>2. /\ n \in Nat /\ SomeFrame(Top)
  BY <1>1, TopTyped DEF TypedInv
<1>3. T \in Types
  <2>1. Len(Top.parts) \in Nat
    BY <1>2 DEF SomeFrame
  <2>2. PartsDue(Top) \in Seq(Types)
    BY <1>1, <1>2, PartsHaveTypes
  <2>. QED BY <1>1, <2>1, <2>2
<1> HIDE DEF T
<1>4. SomeFrame(g) /\ Missing(g) \in Nat
  BY <1>3, NewFrame
<1>5. PICK S : stack \in Seq(S)
  BY DEF TypedInv
<1> HIDE DEF g
<1>6. /\ stack' \in Seq(S \cup {g}) /\ Len(stack') = n + 1 /\ stack' # <<>>
      /\ \A i \in 1 .. n + 1 : stack'[i] = IF i = n + 1 THEN g ELSE stack[i]
  BY <1>1, <1>5
<1>7. \A i \in 1 .. Len(stack') : SomeFrame(stack'[i]) /\ Missing(stack'[i]) \in Nat
  <2>1. \A i \in 1 .. n + 1 : i = n + 1 \/ i \in 1 .. n
    BY <1>2
  <2>. QED BY <1>4, <1>6, <2>1 DEF TypedInv
<1>. QED BY <1>1, <1>6, <1>7 DEF TypedInv

LEMMA FinishKeepsTypes ==
  ASSUME TypedInv, Finish
  PROVE  TypedInv'
<1> DEFINE n == Len(stack)
           v == ValueOf(Top)
<1>1. /\ outcome = "Running" /\ UNCHANGED <<stream, pos, room>>
      /\ n \in Nat /\ n \in 1 .. n
  BY TopTyped DEF Finish, Running, TypedInv
<1>2. PICK S : stack \in Seq(S)
  BY DEF TypedInv
<1>3. CASE n = 1
  <2>1. stack' = <<>> /\ result' = <<v>> /\ outcome' = "Ready"
    BY <1>3 DEF Finish
  <2>2. stack' \in Seq({}) /\ 1 .. Len(stack') = {} /\ result' # <<>> /\ result' \in Seq({v})
    BY <2>1
  <2>. QED BY <1>1, <2>1, <2>2 DEF TypedInv
<1>4. CASE n # 1
  <2> DEFINE m == n - 1
             below == SubSeq(stack, 1, m)
             f == below[m]
             g == [f EXCEPT !.parts = Append(f.parts, v)]
  <2>1. stack' = [below EXCEPT ![m] = g] /\ UNCHANGED <<result, outcome>>
    BY <1>4 DEF Finish
  <2>2. m \in Nat /\ m \in 1 .. n /\ m >= 1 /\ m <= n
    <3>1. n \in Nat /\ n # 1 /\ n >= 1
      BY <1>1, <1>4
    <3>. HIDE DEF n
    <3>. QED BY <3>1
  <2>. HIDE DEF m, v
  <2>3. below \in Seq(S) /\ Len(below) = m /\ \A i \in 1 .. m : below[i] = stack[i]
    BY <1>1, <1>2, <2>2
  <2>. HIDE DEF below
  <2>4. /\ f = stack[m] /\ SomeFrame(f) /\ Missing(f) \in Nat /\ m \in 1 .. Len(below)
    BY <2>2, <2>3 DEF TypedInv
  <2>. HIDE DEF f
  <2>5. g = [type |-> f.type, got |-> f.got, parts |-> Append(f.parts, v)]
    <3>1. f = [type |-> f.type, got |-> f.got, parts |-> f.parts]
      BY <2>4 DEF SomeFrame
    <3>. QED BY <3>1
  <2>. HIDE DEF g
  <2>6. SomeFrame(g) /\ Missing(g) \in Nat
    <3>1. g.type = f.type /\ g.got = f.got /\ g.parts = Append(f.parts, v)
      BY <2>5
    <3>2. Missing(g) \in Nat
      BY <2>4, <3>1, SameWanted
    <3>3. PICK V : f.parts \in Seq(V)
      BY <2>4 DEF SomeFrame
    <3>4. Append(f.parts, v) \in Seq(V \cup {v})
      BY <3>3
    <3>. QED BY <2>4, <2>5, <3>1, <3>2, <3>4 DEF SomeFrame
  <2>7. /\ stack' \in Seq(S \cup {g}) /\ Len(stack') = m
        /\ \A i \in 1 .. m : stack'[i] = IF i = m THEN g ELSE below[i]
    BY <2>1, <2>3, <2>4, OneReplaced
  <2>8. stack' # <<>>
    BY <2>2, <2>7
  <2>9. \A i \in 1 .. Len(stack') : SomeFrame(stack'[i]) /\ Missing(stack'[i]) \in Nat
    <3>1. \A i \in 1 .. m : i \in 1 .. n
      BY <1>1, <2>2
    <3>. QED BY <2>3, <2>6, <2>7, <3>1 DEF TypedInv
  <2>. QED BY <1>1, <2>1, <2>7, <2>8, <2>9 DEF TypedInv
<1>. QED BY <1>3, <1>4

LEMMA StepKeepsTypes ==
  ASSUME TypedInv, [Next]_vars
  PROVE  TypedInv'
<1>1. CASE Fill
  BY <1>1, FillKeepsTypes
<1>2. CASE Descend
  BY <1>2, DescendKeepsTypes
<1>3. CASE Finish
  BY <1>3, FinishKeepsTypes
<1>4. CASE Insufficient \/ Suspend \/ Fail \/ Panic
  BY <1>4 DEF TypedInv, Insufficient, Suspend, Fail, Panic, Running
<1>5. ASSUME NEW r \in Pieces, Poll(r) PROVE TypedInv'
  <2>1. r \in Nat /\ Len(stream.bits) \in Nat /\ pos \in Nat
    BY DeserializerConstants DEF TypedInv
  <2>2. /\ outcome # "Ready" /\ outcome' = "Running" /\ room' = r
        /\ pos + r <= Len(stream.bits) /\ UNCHANGED <<stream, stack, pos, result>>
    BY <1>5 DEF Poll
  <2>3. r <= Len(stream.bits)
    BY <2>1, <2>2
  <2>. QED BY <2>1, <2>2, <2>3 DEF TypedInv
<1>6. CASE UNCHANGED vars
  BY <1>6 DEF TypedInv, vars
<1>. QED BY <1>1, <1>2, <1>3, <1>4, <1>5, <1>6 DEF Next, LoopTurn

(* Whatever bits are read, be they noise: the state keeps its types, no    *)
(* deserializer has ever got more bits than it wants, and none is read     *)
(* that has not arrived.                                                   *)
THEOREM DeserializerTypeCorrect == Spec => []TypeOK
<1>1. TypedInv => TypeOK
  BY DEF TypedInv, TypeOK
<1>. QED BY <1>1, InitTyped, StepKeepsTypes, PTL DEF Spec

(* The inductive invariant of the deserializers, for streams on which a    *)
(* value was sent and for noise.                                           *)
THEOREM DeserializerInvariant ==
  ASSUME AllReadable
  PROVE  Spec => []DeserializerInv
<1>1. TypedInv => TypeOK /\ (outcome = "Running" => pos + room <= Len(stream.bits))
  BY DEF TypedInv, TypeOK
<1>2. Spec => []TypedInv
  BY InitTyped, StepKeepsTypes, PTL DEF Spec
<1>3. Spec => [](stream.sent # <<>> => TypeOK /\ ReadsSent)
  BY DeserializerInPlace
<1>4. ASSUME TypeOK, outcome = "Running" => pos + room <= Len(stream.bits),
             stream.sent # <<>> => ReadsSent
      PROVE  DeserializerInv
  BY <1>4 DEF DeserializerInv
<1>. QED BY <1>1, <1>2, <1>3, <1>4, PTL

-----------------------------------------------------------------------------
(* Two values never share a stream.                                        *)

(* A frame that has read the whole of what the codec of one item wrote has *)
(* read the whole of what that of the other wrote, if it could be reading  *)
(* either.                                                                 *)
LEMMA HeaderDelimits ==
  ASSUME AllReadable, NEW a \in Nested, NEW b \in Nested, a.type = b.type,
         IsPrefix(Own(a).bits, Own(b).bits)
  PROVE  /\ Own(a).bits = Own(b).bits /\ Len(Own(a).parts) = Len(Own(b).parts)
         /\ \A j \in 1 .. Len(Own(a).parts) : Own(a).parts[j].type = Own(b).parts[j].type
         /\ (\A j \in 1 .. Len(Own(a).parts) : Own(a).parts[j].value = Own(b).parts[j].value)
              => a.value = b.value
<1> DEFINE own == Own(a).bits
           parts == [j \in 1 .. Len(Own(a).parts) |-> Own(a).parts[j].value]
           f == [type |-> a.type, got |-> own, parts |-> parts]
<1>1. \A it \in Nested : IsValue(it) /\ Readable(it)
  BY DeserializerConstants DEF AllReadable
<1>2. /\ own \in Seq(Bit) /\ Own(a).parts \in Seq(Nested) /\ Own(b).bits \in Seq(Bit)
      /\ Own(b).parts \in Seq(Nested) /\ Len(Own(a).parts) \in Nat /\ Len(Own(b).parts) \in Nat
  BY PartsInPlace
<1>3. parts \in Seq(Values) /\ Len(parts) = Len(Own(a).parts)
      /\ \A j \in 1 .. Len(parts) : parts[j] = Own(a).parts[j].value
  <2>1. \A j \in 1 .. Len(Own(a).parts) : Own(a).parts[j].value \in Values
    BY <1>2 DEF Values
  <2>. QED BY <1>2, <2>1
<1>4. IsPrefix(own, own)
  <2>1. Len(own) \in Nat
    BY <1>2, LenProperties
  <2>. HIDE DEF own
  <2>. QED BY <1>2, <2>1, PrefixFacts
<1> HIDE DEF own, parts
<1>5. f \in Frames /\ f.type = a.type /\ f.got = own /\ f.parts = parts
  <2>1. a.type \in { it.type : it \in Nested }
    OBVIOUS
  <2>. QED BY <1>2, <1>3, <2>1 DEF Frames, Bit, Values
<1> HIDE DEF f
<1>6. Reading(f, a) /\ Reading(f, b)
  BY <1>1, <1>4, <1>5 DEF Reading, own
<1>7. Agrees(f, a) /\ Agrees(f, b)
  BY <1>6, SidesAgree
<1>8. Own(a).bits = Own(b).bits
  <2>1. ReadsOf(f).bits = Len(own)
    BY <1>5, <1>7 DEF Agrees, own
  <2>2. f.got # Own(b).bits => ReadsOf(f).bits \in Len(own) + 1 .. Len(Own(b).bits)
    BY <1>5, <1>7 DEF Agrees
  <2>3. Len(own) \in Nat /\ Len(Own(b).bits) \in Nat
    BY <1>2, LenProperties
  <2>4. f.got = Own(b).bits
    <3> DEFINE l == Len(own)
               m == Len(Own(b).bits)
               r == ReadsOf(f).bits
    <3>1. r = l /\ (f.got # Own(b).bits => r \in l + 1 .. m) /\ l \in Nat /\ m \in Nat
      BY <2>1, <2>2, <2>3
    <3>. HIDE DEF l, m, r
    <3>. QED BY <3>1
  <2>. QED BY <1>5, <2>4 DEF own
<1>9. /\ Len(Own(a).parts) = Len(Own(b).parts)
      /\ \A j \in 1 .. Len(Own(a).parts) : Own(a).parts[j].type = Own(b).parts[j].type
  BY <1>5, <1>7, <1>8 DEF Agrees, own
<1>10. ASSUME \A j \in 1 .. Len(Own(a).parts) : Own(a).parts[j].value = Own(b).parts[j].value
       PROVE  a.value = b.value
  <2>1. HasValues(f, a) /\ HasValues(f, b)
    BY <1>3, <1>5, <1>9, <1>10 DEF HasValues
  <2>2. ValueOf(f) = a.value /\ ValueOf(f) = b.value
    BY <1>5, <1>7, <1>8, <2>1 DEF Agrees, own
  <2>. QED BY <2>2
<1>. QED BY <1>8, <1>9, <1>10

(* So do any two items that begin at the same bit.                         *)
LEMMA HeadersDelimit ==
  ASSUME AllReadable, NEW a \in Nested, NEW b \in Nested, a.type = b.type,
         NEW whole \in Seq(Bit), NEW start \in Nat,
         Holds(whole, start, Own(a).bits), Holds(whole, start, Own(b).bits)
  PROVE  /\ Own(a).bits = Own(b).bits /\ Len(Own(a).parts) = Len(Own(b).parts)
         /\ \A j \in 1 .. Len(Own(a).parts) : Own(a).parts[j].type = Own(b).parts[j].type
         /\ (\A j \in 1 .. Len(Own(a).parts) : Own(a).parts[j].value = Own(b).parts[j].value)
              => a.value = b.value
<1> DEFINE x == Own(a).bits
           y == Own(b).bits
<1>1. x \in Seq(Bit) /\ y \in Seq(Bit) /\ Len(x) \in Nat /\ Len(y) \in Nat
  BY PartsInPlace, LenProperties
<1>2. /\ \A j \in 1 .. Len(x) : whole[start + j] = x[j]
      /\ \A j \in 1 .. Len(y) : whole[start + j] = y[j]
  BY DEF Holds
<1>3. IsPrefix(x, y) \/ IsPrefix(y, x)
  <2>. HIDE DEF x, y
  <2>1. CASE Len(x) <= Len(y)
    <3>1. \A j \in 1 .. Len(x) : x[j] = y[j]
      BY <1>1, <1>2, <2>1
    <3>. QED BY <1>1, <2>1, <3>1, PrefixFacts
  <2>2. CASE Len(y) <= Len(x)
    <3>1. \A j \in 1 .. Len(y) : y[j] = x[j]
      BY <1>1, <1>2, <2>2
    <3>. QED BY <1>1, <2>2, <3>1, PrefixFacts
  <2>. QED BY <1>1, <2>1, <2>2
<1>4. CASE IsPrefix(x, y)
  BY <1>4, HeaderDelimits
<1>5. CASE IsPrefix(y, x)
  <2>1. /\ y = x /\ Len(Own(b).parts) = Len(Own(a).parts)
        /\ \A j \in 1 .. Len(Own(b).parts) : Own(b).parts[j].type = Own(a).parts[j].type
        /\ (\A j \in 1 .. Len(Own(b).parts) : Own(b).parts[j].value = Own(a).parts[j].value)
             => b.value = a.value
    BY <1>5, HeaderDelimits
  <2>. QED BY <2>1
<1>. QED BY <1>3, <1>4, <1>5

(* Two items whose encodings begin at the same bit of the same sequence:   *)
(* their values are the same if those of their parts are, by induction     *)
(* over the parts.                                                         *)
Delimited(it) ==
  \A other \in Nested : \A whole \in Seq(Bit) : \A start \in Nat :
    /\ other.type = it.type
    /\ Holds(whole, start, EncodingOf(it)) /\ Holds(whole, start, EncodingOf(other))
    => other.value = it.value /\ Len(EncodingOf(other)) = Len(EncodingOf(it))

LEMMA PartsDelimit ==
  ASSUME AllReadable, NEW it \in Nested,
         \A j \in 1 .. Len(Own(it).parts) : Delimited(Own(it).parts[j])
  PROVE  Delimited(it)
<1> SUFFICES ASSUME NEW other \in Nested, NEW whole \in Seq(Bit), NEW start \in Nat,
                    other.type = it.type,
                    Holds(whole, start, EncodingOf(it)), Holds(whole, start, EncodingOf(other))
             PROVE  other.value = it.value /\ Len(EncodingOf(other)) = Len(EncodingOf(it))
  BY DEF Delimited
<1> DEFINE parts == Own(it).parts
           others == Own(other).parts
           l == Len(parts)
<1>1. ASSUME NEW x \in Nested, Holds(whole, start, EncodingOf(x))
      PROVE  /\ Holds(whole, start, Own(x).bits)
             /\ Offset(x, 0) = Len(Own(x).bits)
             /\ Offset(x, Len(Own(x).parts)) = Len(EncodingOf(x))
             /\ Len(Own(x).parts) \in Nat
             /\ \A k \in 0 .. Len(Own(x).parts) - 1 :
                  /\ Own(x).parts[k + 1] \in Nested /\ Offset(x, k) \in Nat
                  /\ Offset(x, k + 1) = Offset(x, k) + Len(EncodingOf(Own(x).parts[k + 1]))
                  /\ Holds(whole, start + Offset(x, k), EncodingOf(Own(x).parts[k + 1]))
  <2> DEFINE e == EncodingOf(x)
             own == Own(x).bits
  <2>1. /\ e \in Seq(Bit) /\ own \in Seq(Bit) /\ Holds(e, 0, own)
        /\ Offset(x, 0) = Len(Own(x).bits) /\ Len(Own(x).parts) \in Nat
        /\ Offset(x, Len(Own(x).parts)) = Len(EncodingOf(x))
    BY PartsInPlace
  <2>2. Holds(whole, start, own)
    <3>1. Holds(whole, start, e)
      BY <1>1
    <3>. HIDE DEF e, own
    <3>2. Holds(whole, start + 0, own)
      BY <2>1, <3>1, HoldsWithin
    <3>3. start + 0 = start
      OBVIOUS
    <3>. QED BY <3>2, <3>3
  <2>3. ASSUME NEW k \in 0 .. Len(Own(x).parts) - 1
        PROVE  /\ Own(x).parts[k + 1] \in Nested /\ Offset(x, k) \in Nat
               /\ Offset(x, k + 1) = Offset(x, k) + Len(EncodingOf(Own(x).parts[k + 1]))
               /\ Holds(whole, start + Offset(x, k), EncodingOf(Own(x).parts[k + 1]))
    <3> DEFINE from == Offset(x, k)
               inner == EncodingOf(Own(x).parts[k + 1])
    <3>1. /\ Own(x).parts[k + 1] \in Nested /\ from \in Nat
          /\ Offset(x, k + 1) = from + Len(inner) /\ Holds(e, from, inner)
      BY PartsInPlace
    <3>2. inner \in Seq(Bit)
      BY <3>1, PartsInPlace
    <3>3. Holds(whole, start, e)
      BY <1>1
    <3>. HIDE DEF e, from, inner
    <3>4. Holds(whole, start + from, inner)
      BY <2>1, <3>1, <3>2, <3>3, HoldsWithin
    <3>. QED BY <3>1, <3>4 DEF from, inner
  <2>. QED BY <2>1, <2>2, <2>3
<1>2. /\ Own(it).bits = Own(other).bits /\ l = Len(others)
      /\ \A j \in 1 .. l : parts[j].type = others[j].type
      /\ (\A j \in 1 .. l : parts[j].value = others[j].value) => it.value = other.value
  BY <1>1, HeadersDelimit
<1>3. l \in Nat
  BY <1>1
<1> DEFINE Same(k) == k <= l => /\ Offset(it, k) = Offset(other, k)
                                /\ \A j \in 1 .. k : parts[j].value = others[j].value
           S == { k \in Nat : Same(k) }
<1>4. 0 \in S
  <2>1. Offset(it, 0) = Offset(other, 0)
    BY <1>1, <1>2
  <2>. QED BY <2>1
<1>5. ASSUME NEW k \in Nat, k \in S PROVE k + 1 \in S
  <2> SUFFICES ASSUME k + 1 <= l
               PROVE  /\ Offset(it, k + 1) = Offset(other, k + 1)
                      /\ \A j \in 1 .. k + 1 : parts[j].value = others[j].value
    OBVIOUS
  <2> DEFINE p == parts[k + 1]
             q == others[k + 1]
             at == start + Offset(it, k)
  <2>1. k \in 0 .. l - 1 /\ k \in 0 .. Len(others) - 1 /\ k <= l /\ k + 1 \in 1 .. l
    BY <1>2, <1>3
  <2>2. /\ Offset(it, k) = Offset(other, k)
        /\ \A j \in 1 .. k : parts[j].value = others[j].value
    BY <1>5, <2>1
  <2>3. /\ p \in Nested /\ Offset(it, k) \in Nat
        /\ Offset(it, k + 1) = Offset(it, k) + Len(EncodingOf(p))
        /\ Holds(whole, at, EncodingOf(p))
    BY <1>1, <2>1
  <2>4. /\ q \in Nested /\ Offset(other, k + 1) = Offset(other, k) + Len(EncodingOf(q))
        /\ Holds(whole, start + Offset(other, k), EncodingOf(q))
    BY <1>1, <2>1
  <2>5. Holds(whole, at, EncodingOf(q)) /\ at \in Nat /\ q.type = p.type
    BY <1>2, <2>1, <2>2, <2>3, <2>4
  <2>6. Delimited(p)
    BY <2>1
  <2> HIDE DEF p, q, at
  <2>7. q.value = p.value /\ Len(EncodingOf(q)) = Len(EncodingOf(p))
    BY <2>3, <2>4, <2>5, <2>6 DEF Delimited
  <2>8. Offset(it, k + 1) = Offset(other, k + 1)
    BY <2>2, <2>3, <2>4, <2>7
  <2>9. \A j \in 1 .. k + 1 : j = k + 1 \/ j \in 1 .. k
    OBVIOUS
  <2>10. parts[k + 1].value = others[k + 1].value
    BY <2>7 DEF p, q
  <2>. HIDE DEF parts, others
  <2>. QED BY <2>2, <2>8, <2>9, <2>10
<1>6. Nat \subseteq S
  <2>. HIDE DEF S
  <2>. QED BY <1>4, <1>5, NatSetInduction
<1>7. l \in S
  BY <1>3, <1>6
<1>8. /\ Offset(it, l) = Offset(other, l)
      /\ \A j \in 1 .. l : parts[j].value = others[j].value
  BY <1>3, <1>7
<1>9. Offset(it, l) = Len(EncodingOf(it)) /\ Offset(other, l) = Len(EncodingOf(other))
  BY <1>1, <1>2
<1>. QED BY <1>2, <1>8, <1>9

(* Values are finite: no item is nested in itself.                         *)
IsDepth(depth) ==
  /\ depth \in [Nested -> Nat]
  /\ \A it \in Nested : \A j \in 1 .. Len(Own(it).parts) :
       depth[Own(it).parts[j]] < depth[it]

(* Encodings delimit themselves, however deep their values nest: that of   *)
(* a value never begins with that of another value of its type, because    *)
(* the deserializer knows from the bits it has read whether it wants more, *)
(* and which parts (README.md:41, "True frameless design").                *)
THEOREM EncodingsDelimit ==
  ASSUME AllReadable, NEW depth, IsDepth(depth),
         NEW a \in Nested, NEW b \in Nested, a.type = b.type,
         IsPrefix(EncodingOf(a), EncodingOf(b))
  PROVE  a.value = b.value
<1> DEFINE S == { n \in Nat : \A it \in Nested : depth[it] < n => Delimited(it) }
<1>1. \A it \in Nested : depth[it] \in Nat
  BY DEF IsDepth
<1>2. 0 \in S
  BY <1>1
<1>3. ASSUME NEW n \in Nat, n \in S PROVE n + 1 \in S
  <2> SUFFICES ASSUME NEW it \in Nested, depth[it] < n + 1 PROVE Delimited(it)
    OBVIOUS
  <2>1. \A j \in 1 .. Len(Own(it).parts) :
          Own(it).parts[j] \in Nested /\ depth[Own(it).parts[j]] < n
    <3>1. Own(it).parts \in Seq(Nested)
      BY PartsInPlace
    <3>2. ASSUME NEW j \in 1 .. Len(Own(it).parts)
          PROVE  Own(it).parts[j] \in Nested /\ depth[Own(it).parts[j]] < n
      <4>1. Own(it).parts[j] \in Nested
        BY <3>1
      <4>2. depth[Own(it).parts[j]] < depth[it]
        BY DEF IsDepth
      <4>. QED BY <1>1, <4>1, <4>2
    <3>. QED BY <3>2
  <2>2. \A j \in 1 .. Len(Own(it).parts) : Delimited(Own(it).parts[j])
    BY <1>3, <2>1
  <2>. QED BY <2>2, PartsDelimit
<1>4. Nat \subseteq S
  <2>. HIDE DEF S
  <2>. QED BY <1>2, <1>3, NatSetInduction
<1>5. Delimited(a)
  <2>1. depth[a] + 1 \in S /\ depth[a] < depth[a] + 1
    BY <1>1, <1>4
  <2>. QED BY <2>1
<1> DEFINE x == EncodingOf(a)
           y == EncodingOf(b)
<1>6. x \in Seq(Bit) /\ y \in Seq(Bit) /\ Len(x) \in Nat /\ Len(y) \in Nat
  BY PartsInPlace, LenProperties
<1>7. Holds(y, 0, x) /\ Holds(y, 0, y)
  <2>1. IsPrefix(x, y)
    OBVIOUS
  <2>. HIDE DEF x, y
  <2>2. Len(x) <= Len(y) /\ \A i \in 1 .. Len(x) : x[i] = y[i]
    BY <1>6, <2>1, PrefixFacts
  <2>3. \A i \in Nat : 0 + i = i
    OBVIOUS
  <2>. QED BY <1>6, <2>2, <2>3 DEF Holds
<1>. QED BY <1>5, <1>6, <1>7 DEF Delimited

-----------------------------------------------------------------------------
(* Noise: what is accepted has been read from its own encoding.            *)

(* Dividing twice.                                                         *)
LEMMA HalfOfQuotient ==
  ASSUME NEW n \in Nat, NEW p \in Nat, p > 0
  PROVE  (n \div p) \div 2 = n \div (2 * p)
<1> DEFINE h == n \div (2 * p)
           q == n \div p
<1>1. q = 2 * h + (q % 2)
  BY LastBit
<1>2. q \in Nat /\ h \in Nat
  <2>1. 2 * p \in Nat /\ 2 * p > 0
    OBVIOUS
  <2>. QED BY <2>1, DivisionIsUnique
<1> HIDE DEF h, q
<1>3. q \div 2 = h
  BY <1>1, <1>2
<1>. QED BY <1>3 DEF h, q

(* Whatever bits there are, they are those of the number that is read from *)
(* them.                                                                   *)
LEMMA BigEndianWritesBack ==
  ASSUME NEW bits \in Seq(Bit)
  PROVE  /\ FromBigEndian(bits) \in 0 .. 2 ^ Len(bits) - 1
         /\ BigEndian(FromBigEndian(bits), Len(bits)) = bits
<1> DEFINE k == Len(bits)
           n == FromBigEndian(bits)
<1>1. \A c \in Nat : 2 ^ c \in Nat /\ 2 ^ c > 0 /\ 2 ^ (c + 1) = 2 * 2 ^ c
  BY Powers
<1>2. k \in Nat /\ \A i \in 1 .. k : bits[i] \in Bit
  OBVIOUS
<1>3. PICK read \in [0 .. k -> Nat] :
        /\ read[0] = 0 /\ n = read[k]
        /\ \A i \in 1 .. k : read[i] = 2 * read[i - 1] + bits[i]
  BY ReadingBits
<1> HIDE DEF k, n
<1>4. n < 2 ^ k
  <2> DEFINE S == { i \in Nat : i <= k => read[i] < 2 ^ i }
  <2>1. 0 \in S
    BY <1>3, Powers
  <2>2. ASSUME NEW i \in Nat, i \in S PROVE i + 1 \in S
    <3>1. SUFFICES ASSUME i + 1 <= k PROVE read[i + 1] < 2 ^ (i + 1)
      OBVIOUS
    <3>2. i + 1 \in 1 .. k /\ (i + 1) - 1 = i /\ i \in 0 .. k /\ i <= k
      BY <1>2, <3>1
    <3>3. read[i + 1] = 2 * read[i] + bits[i + 1] /\ bits[i + 1] \in {0, 1}
      BY <1>2, <1>3, <3>2 DEF Bit
    <3>4. read[i] < 2 ^ i /\ 2 ^ i \in Nat /\ 2 ^ (i + 1) = 2 * 2 ^ i /\ read[i] \in Nat
      BY <1>1, <1>3, <2>2, <3>2
    <3>. QED BY <3>3, <3>4
  <2>3. Nat \subseteq S
    <3>. HIDE DEF S
    <3>. QED BY <2>1, <2>2, NatSetInduction
  <2>. QED BY <1>2, <1>3, <2>3
<1>5. n \in Nat
  BY <1>2, <1>3
<1> DEFINE S == { c \in Nat : c <= k => n \div 2 ^ c = read[k - c] }
<1>6. 0 \in S
  <2>1. n \div 1 = n
    BY <1>5
  <2>. QED BY <1>2, <1>3, <2>1, Powers
<1>7. ASSUME NEW c \in Nat, c \in S PROVE c + 1 \in S
  <2>1. SUFFICES ASSUME c + 1 <= k PROVE n \div 2 ^ (c + 1) = read[k - (c + 1)]
    OBVIOUS
  <2> DEFINE i == k - c
             r == read[i - 1]
  <2>2. i \in 1 .. k /\ i - 1 \in 0 .. k /\ i - 1 = k - (c + 1) /\ c <= k
    BY <1>2, <2>1
  <2>3. n \div 2 ^ c = 2 * r + bits[i] /\ r \in Nat /\ bits[i] \in {0, 1}
    BY <1>2, <1>3, <1>7, <2>2 DEF Bit
  <2> DEFINE p == 2 ^ c
  <2>4. p \in Nat /\ p > 0 /\ 2 ^ (c + 1) = 2 * p
    BY <1>1
  <2>5. (n \div p) \div 2 = n \div (2 * p)
    <3>. HIDE DEF p
    <3>. QED BY <1>5, <2>4, HalfOfQuotient
  <2> HIDE DEF r
  <2>6. (2 * r + bits[i]) \div 2 = r
    <3> DEFINE x == 2 * r + bits[i]
    <3>1. x \in Nat /\ r \in Nat /\ 2 * r <= x /\ x < 2 * r + 2
      BY <2>3
    <3> HIDE DEF x
    <3>2. x \div 2 = r
      BY <3>1, DivisionIsUnique
    <3>. QED BY <3>2 DEF x
  <2>. QED BY <2>2, <2>3, <2>4, <2>5, <2>6 DEF r
<1>8. Nat \subseteq S
  <2>. HIDE DEF S
  <2>. QED BY <1>6, <1>7, NatSetInduction
<1>9. ASSUME NEW i \in 1 .. k PROVE (n \div 2 ^ (k - i)) % 2 = bits[i]
  <2>1. k - i \in Nat /\ k - i <= k /\ k - (k - i) = i /\ i - 1 \in 0 .. k
    BY <1>2
  <2>2. n \div 2 ^ (k - i) = read[i]
    <3>1. k - i \in S
      BY <1>8, <2>1
    <3>. QED BY <2>1, <3>1
  <2>3. read[i] = 2 * read[i - 1] + bits[i] /\ read[i - 1] \in Nat /\ bits[i] \in {0, 1}
    BY <1>2, <1>3, <2>1 DEF Bit
  <2>. QED BY <2>2, <2>3
<1>10. BigEndian(n, k) = bits
  <2>1. BigEndian(n, k) = [i \in 1 .. k |-> bits[i]]
    BY <1>9 DEF BigEndian
  <2>2. bits = [i \in 1 .. k |-> bits[i]]
    BY DEF k
  <2>. QED BY <2>1, <2>2
<1>11. 2 ^ k \in Nat
  BY <1>1, <1>2
<1>. QED BY <1>4, <1>5, <1>10, <1>11 DEF n, k

(* The same for the bits of a determinant.                                 *)
LEMMA LittleEndianWritesBack ==
  ASSUME NEW bits \in Seq(Bit)
  PROVE  LittleEndian(FromLittleEndian(bits), Len(bits)) = bits
<1> DEFINE k == Len(bits)
           back == Reverse(bits)
           n == FromBigEndian(back)
<1>1. k \in Nat /\ bits = [i \in 1 .. k |-> bits[i]]
  OBVIOUS
<1>2. back \in Seq(Bit) /\ Len(back) = k /\ back = [i \in 1 .. k |-> bits[k - i + 1]]
  BY DEF Reverse
<1> HIDE DEF back
<1>3. BigEndian(n, k) = back
  BY <1>2, BigEndianWritesBack
<1> HIDE DEF n, k
<1>4. ASSUME NEW i \in 1 .. k PROVE (n \div 2 ^ (i - 1)) % 2 = bits[i]
  <2> DEFINE j == k - i + 1
  <2>1. j \in 1 .. k /\ k - j = i - 1 /\ k - j + 1 = i
    BY <1>1
  <2>2. BigEndian(n, k)[j] = (n \div 2 ^ (k - j)) % 2
    BY <2>1 DEF BigEndian
  <2>3. back[j] = bits[k - j + 1]
    BY <1>2, <2>1
  <2>. QED BY <1>3, <2>1, <2>2, <2>3
<1>5. LittleEndian(n, k) = [i \in 1 .. k |-> bits[i]]
  BY <1>4 DEF LittleEndian
<1>. QED BY <1>1, <1>5 DEF FromLittleEndian, n, k, back

(* A quantity is as long as its first byte says, and if it is not longer   *)
(* than need be, it is the one that is written of its number.              *)
LEMMA QuantityWritesBack ==
  ASSUME NEW got \in Seq(Bit), QuantityDone(got)
  PROVE  /\ FromVlq(got) \in Lengths
         /\ QuantityBits(got) \in Nat /\ QuantityBits(got) <= Len(got)
         /\ VlqBytes(FromVlq(got)) = VlqLength(got) =>
              Vlq(FromVlq(got)) = SubSeq(got, 1, QuantityBits(got))
<1> DEFINE k == VlqLength(got)
           u == UnaryBits(k)
           w == ValueBits(k)
           m == ByteBits * k
           data == SubSeq(got, u + 1, m)
           n == FromVlq(got)
<1>1. ByteBits \in Nat /\ ByteBits > 0 /\ Len(got) \in Nat
  BY FormatConstants
<1>2. ByteBits <= Len(got) /\ QuantityBits(got) = m /\ m <= Len(got)
  <2>1. Len(got) >= QuantityBits(got)
    BY DEF QuantityDone
  <2>2. ByteBits <= Len(got)
    BY <1>1, <2>1 DEF QuantityBits
  <2>. QED BY <1>1, <2>1, <2>2 DEF QuantityBits
<1>3. /\ k \in 1 .. ByteBits + 1 /\ (k <= ByteBits => got[k] = 0)
      /\ \A i \in 1 .. k - 1 : got[i] = 1
  BY <1>2, QuantityHasLength
<1>4. u \in 1 .. ByteBits /\ w \in Nat /\ u + w = m /\ m \in Nat
  BY <1>3, QuantityParts
<1>5. (k <= ByteBits => u = k) /\ (k > ByteBits => u = ByteBits /\ k = ByteBits + 1)
  <2>. HIDE DEF k
  <2>. QED BY <1>1, <1>3 DEF UnaryBits
<1>6. n = FromBigEndian(data)
  BY DEF FromVlq
<1> HIDE DEF k, u, w, m, n
<1>7. data \in Seq(Bit) /\ Len(data) = w /\ \A i \in 1 .. w : data[i] = got[u + i]
  <2> DEFINE l == u + 1
  <2>1. /\ l \in 1 .. Len(got) + 1 /\ m \in l - 1 .. Len(got) /\ m - l + 1 = w
        /\ \A i \in 1 .. w : l + i - 1 = u + i
    BY <1>1, <1>2, <1>4
  <2> HIDE DEF l
  <2>2. /\ SubSeq(got, l, m) \in Seq(Bit) /\ Len(SubSeq(got, l, m)) = w
        /\ \A i \in 1 .. w : SubSeq(got, l, m)[i] = got[l + i - 1]
    BY <2>1, SubSeqProperties
  <2>. QED BY <2>1, <2>2 DEF l
<1> HIDE DEF data
<1>8. n \in 0 .. 2 ^ w - 1 /\ BigEndian(n, w) = data
  BY <1>6, <1>7, BigEndianWritesBack
<1>9. n \in Lengths
  <2>1. 2 ^ w \in Nat
    BY <1>4, Powers
  <2>. QED BY <1>3, <1>8, <2>1 DEF Lengths, w
<1>10. ASSUME VlqBytes(n) = k PROVE Vlq(n) = SubSeq(got, 1, m)
  <2> DEFINE first == SubSeq(got, 1, m)
             q == Vlq(n)
  <2>1. first \in Seq(Bit) /\ Len(first) = m /\ \A i \in 1 .. m : first[i] = got[i]
    <3>1. 1 \in 1 .. Len(got) + 1 /\ m \in 1 - 1 .. Len(got) /\ m - 1 + 1 = m
      BY <1>1, <1>2, <1>4
    <3>2. \A i \in 1 .. m : 1 + i - 1 = i
      OBVIOUS
    <3>. QED BY <3>1, <3>2, SubSeqProperties
  <2>2. /\ q \in Seq(Bit) /\ Len(q) = m
        /\ \A i \in 1 .. u : q[i] = IF i < k THEN 1 ELSE 0
        /\ \A i \in 1 .. w : q[u + i] = BigEndian(n, w)[i]
    BY <1>9, <1>10, QuantityBitsOf DEF m, u, w
  <2> HIDE DEF first, q
  <2>3. ASSUME NEW i \in 1 .. m PROVE q[i] = first[i]
    <3>1. CASE i <= u
      <4>1. i \in 1 .. u /\ (i < k => i \in 1 .. k - 1) /\ (~(i < k) => i = k /\ k <= ByteBits)
        BY <1>1, <1>3, <1>4, <1>5, <3>1
      <4>. QED BY <1>3, <2>1, <2>2, <4>1
    <3>2. CASE ~(i <= u)
      <4>1. i - u \in 1 .. w /\ u + (i - u) = i
        BY <1>1, <1>4, <3>2
      <4>2. q[i] = data[i - u] /\ data[i - u] = got[i]
        BY <1>7, <1>8, <2>2, <4>1
      <4>. QED BY <2>1, <4>2
    <3>. QED BY <3>1, <3>2
  <2>4. q = first
    BY <2>1, <2>2, <2>3, SeqEqual
  <2>. QED BY <2>4 DEF first, q
<1>. QED BY <1>2, <1>4, <1>9, <1>10 DEF n, k, m

(* Bytes that are read one by one are those that are written one by one.   *)
LEMMA BytesWriteBack ==
  ASSUME NEW data \in Seq(Bit), NEW n \in Nat, Len(data) = ByteBits * n
  PROVE  LET bytes == [i \in 1 .. Len(data) \div ByteBits |->
                         Value(FromBigEndian(SubSeq(data, ByteBits * (i - 1) + 1, ByteBits * i)), <<>>)]
         IN  /\ Len(bytes) = n
             /\ \A i \in 1 .. n : bytes[i] = Value(bytes[i].n, <<>>) /\ bytes[i].n \in Nat
             /\ FlattenSeq([i \in 1 .. Len(bytes) |-> BigEndian(bytes[i].n, ByteBits)]) = data
<1> DEFINE piece(i) == SubSeq(data, ByteBits * (i - 1) + 1, ByteBits * i)
           bytes == [i \in 1 .. Len(data) \div ByteBits |-> Value(FromBigEndian(piece(i)), <<>>)]
           pieces == [i \in 1 .. Len(bytes) |-> BigEndian(bytes[i].n, ByteBits)]
           flat == FlattenSeq(pieces)
<1>1. ByteBits \in Nat /\ ByteBits > 0 /\ Len(data) \in Nat
  BY FormatConstants
<1>2. Len(data) \div ByteBits = n
  <2>1. ByteBits * n <= Len(data) /\ Len(data) < ByteBits * n + ByteBits
    BY <1>1
  <2>. QED BY <1>1, <2>1, DivisionIsUnique
<1>3. Len(bytes) = n /\ \A i \in 1 .. n : bytes[i] = Value(FromBigEndian(piece(i)), <<>>)
  BY <1>2
<1>4. ASSUME NEW i \in 1 .. n
      PROVE  /\ ByteBits * (i - 1) \in Nat /\ ByteBits * i = ByteBits * (i - 1) + ByteBits
             /\ ByteBits * i <= Len(data)
  <2>1. /\ i - 1 \in Nat /\ n - i \in Nat /\ i = (i - 1) + 1 /\ n = i + (n - i)
    OBVIOUS
  <2>2. ByteBits * (i - 1) \in Nat /\ ByteBits * (n - i) \in Nat
    BY <1>1, <2>1
  <2>3. /\ ByteBits * i = ByteBits * (i - 1) + ByteBits
        /\ ByteBits * n = ByteBits * i + ByteBits * (n - i)
    BY <1>1
  <2>. QED BY <1>1, <2>2, <2>3
<1>5. ASSUME NEW i \in 1 .. n
      PROVE  /\ piece(i) \in Seq(Bit) /\ Len(piece(i)) = ByteBits
             /\ \A r \in 1 .. ByteBits : piece(i)[r] = data[ByteBits * (i - 1) + r]
  <2> DEFINE l == ByteBits * (i - 1) + 1
             m == ByteBits * i
  <2>1. /\ l \in 1 .. Len(data) + 1 /\ m \in l - 1 .. Len(data) /\ m - l + 1 = ByteBits
        /\ \A r \in 1 .. ByteBits : l + r - 1 = ByteBits * (i - 1) + r
    <3> DEFINE b == ByteBits * (i - 1)
    <3>1. b \in Nat /\ m = b + ByteBits /\ m <= Len(data) /\ l = b + 1
      BY <1>4
    <3>. HIDE DEF b, m, l
    <3>2. /\ l \in 1 .. Len(data) + 1 /\ m \in l - 1 .. Len(data) /\ m - l + 1 = ByteBits
          /\ \A r \in 1 .. ByteBits : l + r - 1 = b + r
      BY <1>1, <3>1
    <3>. QED BY <3>2 DEF b
  <2> HIDE DEF l, m
  <2>2. /\ SubSeq(data, l, m) \in Seq(Bit) /\ Len(SubSeq(data, l, m)) = ByteBits
        /\ \A r \in 1 .. ByteBits : SubSeq(data, l, m)[r] = data[l + r - 1]
    BY <2>1, SubSeqProperties
  <2>. QED BY <2>1, <2>2 DEF l, m
<1> HIDE DEF piece
<1>6. ASSUME NEW i \in 1 .. n
      PROVE  /\ FromBigEndian(piece(i)) \in Nat
             /\ BigEndian(FromBigEndian(piece(i)), ByteBits) = piece(i)
  <2>1. FromBigEndian(piece(i)) \in Nat
    BY <1>5, DeterminantHasValue
  <2>. QED BY <1>5, <2>1, BigEndianWritesBack
<1>7. \A i \in 1 .. n : bytes[i] = Value(bytes[i].n, <<>>) /\ bytes[i].n \in Nat
  BY <1>3, <1>6 DEF Value
<1>8. /\ pieces \in Seq(Seq(Bit)) /\ Len(pieces) = n
      /\ \A i \in 1 .. n : pieces[i] = piece(i)
  <2>1. ASSUME NEW i \in 1 .. n PROVE BigEndian(bytes[i].n, ByteBits) = piece(i)
    <3>. HIDE DEF bytes
    <3>1. bytes[i] = Value(FromBigEndian(piece(i)), <<>>)
      BY <1>3
    <3>2. bytes[i].n = FromBigEndian(piece(i))
      BY <3>1 DEF Value
    <3>. QED BY <1>6, <3>2
  <2>2. pieces = [i \in 1 .. n |-> piece(i)]
    <3>. HIDE DEF bytes
    <3>. QED BY <1>3, <2>1
  <2>. HIDE DEF pieces
  <2>. QED BY <1>5, <2>2
<1> HIDE DEF pieces
<1>9. /\ flat \in Seq(Bit) /\ Len(flat) = ByteBits * n
      /\ \A i \in 1 .. n : SubSeq(flat, ByteBits * (i - 1) + 1, ByteBits * i) = piece(i)
  <2>1. \A i \in 1 .. Len(pieces) : Len(pieces[i]) = ByteBits
    BY <1>5, <1>8
  <2>2. /\ flat \in Seq(Bit) /\ Len(flat) = ByteBits * Len(pieces)
        /\ \A i \in 1 .. Len(pieces) :
             SubSeq(flat, ByteBits * (i - 1) + 1, ByteBits * i) = pieces[i]
    BY <1>1, <1>8, <2>1, FlattenUniform
  <2>. QED BY <1>8, <2>2
<1> HIDE DEF flat
<1>10. ASSUME NEW j \in 1 .. Len(data) PROVE flat[j] = data[j]
  <2> DEFINE c == (j - 1) \div ByteBits
             i == c + 1
             r == j - ByteBits * c
  <2>1. c \in Nat /\ ByteBits * c <= j - 1 /\ j - 1 < ByteBits * c + ByteBits
    <3>1. j - 1 \in Nat
      OBVIOUS
    <3>. QED BY <1>1, <3>1, DivisionIsUnique
  <2> HIDE DEF c
  <2>2. r \in 1 .. ByteBits /\ j = ByteBits * c + r /\ i - 1 = c
    <3> DEFINE b == ByteBits * c
    <3>1. b \in Nat
      BY <1>1, <2>1
    <3>. HIDE DEF b
    <3>2. r = j - b /\ b <= j - 1 /\ j - 1 < b + ByteBits
      BY <2>1 DEF b
    <3>3. j - b \in 1 .. ByteBits /\ j = b + (j - b)
      BY <1>1, <3>1, <3>2
    <3>. QED BY <2>1, <3>2, <3>3 DEF b
  <2>3. i \in 1 .. n
    <3>1. CASE c >= n
      <4>1. c = n + (c - n) /\ c - n \in Nat
        BY <2>1, <3>1
      <4>2. ByteBits * c = ByteBits * n + ByteBits * (c - n) /\ ByteBits * (c - n) \in Nat
        BY <1>1, <4>1
      <4>3. /\ ByteBits * c \in Nat /\ ByteBits * n \in Nat
            /\ ByteBits * c <= j - 1 /\ j <= ByteBits * n
        BY <1>1, <2>1
      <4>. QED BY <4>2, <4>3
    <3>. QED BY <2>1, <3>1
  <2> DEFINE l == ByteBits * (i - 1) + 1
             m == ByteBits * i
  <2>4. /\ l \in 1 .. Len(flat) + 1 /\ m \in l - 1 .. Len(flat) /\ m - l + 1 = ByteBits
        /\ l + r - 1 = j
    <3> DEFINE b == ByteBits * (i - 1)
    <3>1. b \in Nat /\ m = b + ByteBits /\ m <= Len(data) /\ l = b + 1 /\ j = b + r
      BY <1>4, <2>2, <2>3
    <3>2. Len(flat) = Len(data)
      BY <1>9
    <3>3. r \in 1 .. ByteBits
      BY <2>2
    <3>. HIDE DEF b, m, l, r, i
    <3>. QED BY <1>1, <3>1, <3>2, <3>3
  <2>5. SubSeq(flat, l, m) = piece(i)
    BY <1>9, <2>3
  <2>6. piece(i)[r] = data[j]
    BY <1>5, <2>2, <2>3
  <2> HIDE DEF l, m, r
  <2>7. SubSeq(flat, l, m)[r] = flat[l + r - 1]
    BY <1>9, <2>2, <2>4, SubSeqProperties
  <2>. QED BY <2>4, <2>5, <2>6, <2>7
<1>11. flat = data
  BY <1>9, <1>10, SeqEqual
<1>. QED BY <1>3, <1>7, <1>11 DEF flat, pieces, piece

(* The parts that a frame has got, and all bits of its item that have been *)
(* read so far, those of its parts as well.                                *)
PartsRead(f) == [j \in 1 .. Len(f.parts) |-> Part(PartsDue(f)[j], f.parts[j])]
BitsRead(f)  == f.got \o Joined(PartsRead(f))

(* The quantity it has read is no longer than need be.                     *)
IsShortest(f) ==
  f.type.kind \in {"string", "vec"} /\ QuantityDone(f.got) =>
    VlqBytes(FromVlq(f.got)) = VlqLength(f.got)

(* The item that a whole frame makes.                                      *)
Made(f) == Part(f.type, ValueOf(f))
Accepts(f) ==
  /\ SomeFrame(f) /\ Whole(f) /\ ~InvalidDeterminant(f) /\ ~Refuses(f)
  /\ IsShortest(f) /\ PartsRead(f) \in Seq(Nested)
IsWritten(f) ==
  /\ IsValue(Made(f)) /\ Readable(Made(f))
  /\ Own(Made(f)).bits = f.got /\ Own(Made(f)).parts = PartsRead(f)

(* What there is to know of every frame that is whole.                     *)
LEMMA AcceptsFacts ==
  ASSUME NEW f, Accepts(f)
  PROVE  /\ IsType(f.type) /\ f.type.of \in Seq(Types) /\ Len(f.type.of) \in Nat
         /\ f.got \in Seq(Bit) /\ Len(f.got) = ReadsOf(f).bits
         /\ f.parts \in Seq(Values) /\ Len(f.parts) = Len(ReadsOf(f).parts)
         /\ PartsRead(f) \in Seq(Nested) /\ Len(PartsRead(f)) = Len(f.parts)
         /\ \A j \in 1 .. Len(f.parts) :
              /\ PartsRead(f)[j] \in Nested
              /\ PartsRead(f)[j] = Part(ReadsOf(f).parts[j], f.parts[j])
         /\ Made(f).type = f.type /\ Made(f).value = ValueOf(f)
<1>1. IsType(f.type) /\ f.type.of \in Seq(Types) /\ Len(f.type.of) \in Nat /\ f.got \in Seq(Bit)
  BY DeserializerConstants DEF Accepts, SomeFrame, IsType
<1>2. PICK S : f.parts \in Seq(S)
  BY DEF Accepts, SomeFrame
<1>3. ReadsOf(f).bits \in Nat
  BY BitsWanted DEF Accepts
<1>4. ReadsOf(f).bits - Len(f.got) = 0 /\ Len(f.parts) = Len(ReadsOf(f).parts)
  BY DEF Accepts, Whole, HeaderDone, Missing, PartsDue
<1> DEFINE l == Len(f.parts)
           parts == f.parts
           items == PartsRead(f)
<1>5. l \in Nat /\ parts = [j \in 1 .. l |-> parts[j]] /\ items \in Seq(Nested)
  BY <1>2 DEF Accepts
<1>6. Len(items) = l /\ \A j \in 1 .. l : items[j] = Part(ReadsOf(f).parts[j], parts[j])
  BY <1>5 DEF PartsRead, PartsDue
<1> HIDE DEF l, items, parts
<1>7. \A j \in 1 .. l : items[j] \in Nested
  BY <1>5, <1>6
<1>8. ASSUME NEW j \in 1 .. l PROVE parts[j] \in Values
  <2>1. items[j].value = parts[j] /\ items[j] \in Nested
    BY <1>6, <1>7 DEF Part
  <2>. QED BY <2>1 DEF Values
<1>9. parts \in Seq(Values)
  BY <1>5, <1>8
<1>10. Len(f.got) = ReadsOf(f).bits
  <2>1. Len(f.got) \in Nat
    BY <1>1
  <2>. QED BY <1>3, <1>4, <2>1
<1>11. Made(f).type = f.type /\ Made(f).value = ValueOf(f)
  BY DEF Made, Part
<1>. QED BY <1>1, <1>4, <1>5, <1>6, <1>7, <1>9, <1>10, <1>11 DEF l, items, parts

(* No bits, one bit.                                                       *)
LEMMA FewBits ==
  ASSUME NEW got \in Seq(Bit)
  PROVE  /\ Len(got) = 0 => got = <<>>
         /\ Len(got) = 1 => /\ got[1] \in Bit /\ got = <<got[1]>>
                            /\ FromBigEndian(got) = got[1]
<1>1. Len(got) = 0 => got = <<>>
  OBVIOUS
<1>2. ASSUME Len(got) = 1
      PROVE  got[1] \in Bit /\ got = <<got[1]>> /\ FromBigEndian(got) = got[1]
  <2>1. got[1] \in Bit /\ got = <<got[1]>>
    BY <1>2
  <2>. QED BY <2>1, OneBit
<1>. QED BY <1>1, <1>2

(* Codecs that hand on each of their parts to a codec of the same type.    *)
LEMMA EachRead ==
  ASSUME NEW f, Accepts(f), NEW T, \A j \in 1 .. Len(f.parts) : ReadsOf(f).parts[j] = T
  PROVE  Each(T, f.parts) = PartsRead(f)
<1> DEFINE l == Len(f.parts)
           items == PartsRead(f)
<1>1. /\ l \in Nat /\ items \in Seq(Nested) /\ Len(items) = l
      /\ \A j \in 1 .. l : items[j] = Part(ReadsOf(f).parts[j], f.parts[j])
  BY AcceptsFacts
<1> HIDE DEF items
<1>2. \A j \in 1 .. l : items[j] = Part(T, f.parts[j])
  BY <1>1
<1>3. items = [j \in 1 .. l |-> items[j]]
  BY <1>1
<1>. QED BY <1>2, <1>3 DEF Each, items

(* Codecs of plain bits: bool, numbers; unit.                              *)
LEMMA PlainIsWritten ==
  ASSUME NEW f, Accepts(f), f.type.kind \in {"bool", "number", "unit"}
  PROVE  IsWritten(f)
<1> DEFINE T == f.type
           v == ValueOf(f)
           it == Made(f)
           got == f.got
<1>1. /\ IsType(T) /\ got \in Seq(Bit) /\ Len(got) = ReadsOf(f).bits
      /\ f.parts \in Seq(Values) /\ Len(f.parts) = Len(ReadsOf(f).parts)
      /\ PartsRead(f) \in Seq(Nested) /\ Len(PartsRead(f)) = Len(f.parts)
      /\ it.type = T /\ it.value = v
  BY AcceptsFacts
<1>2. ReadsOf(f).parts = <<>>
  BY DEF ReadsOf, BoolReads, NumberReads, UnitReads, Reads
<1>3. f.parts = <<>> /\ PartsRead(f) = <<>>
  BY <1>1, <1>2
<1>4. Readable(it)
  BY <1>1 DEF Readable
<1>5. CASE T.kind = "bool"
  <2>1. Len(got) = 1 /\ v = Value(FromBigEndian(got), <<>>)
    BY <1>1, <1>5 DEF ReadsOf, BoolReads, Reads, ValueOf
  <2>2. got[1] \in {0, 1} /\ got = <<got[1]>> /\ v.n = got[1] /\ v.of = <<>> /\ v = Value(v.n, <<>>)
    <3>1. got[1] \in {0, 1} /\ got = <<got[1]>> /\ FromBigEndian(got) = got[1]
      BY <1>1, <2>1, FewBits DEF Bit
    <3>. QED BY <2>1, <3>1 DEF Value
  <2>3. Own(it).bits = <<v.n>> /\ Own(it).parts = <<>>
    BY <1>1, <1>5 DEF Own, WritesOf, BoolWrites, Writes
  <2>4. IsValue(it)
    BY <1>1, <1>5, <2>2 DEF IsValue
  <2>. QED BY <1>3, <1>4, <2>2, <2>3, <2>4 DEF IsWritten
<1>6. CASE T.kind = "number"
  <2>1. Len(got) = ByteBits * T.n /\ T.n \in Nat /\ v = Value(FromBigEndian(got), <<>>)
    BY <1>1, <1>6 DEF ReadsOf, NumberReads, Reads, ValueOf, IsType
  <2>2. v.n = FromBigEndian(got) /\ v.of = <<>> /\ v = Value(v.n, <<>>)
    BY <2>1 DEF Value
  <2>3. v.n \in 0 .. 2 ^ (ByteBits * T.n) - 1 /\ BigEndian(v.n, ByteBits * T.n) = got
    BY <1>1, <2>1, <2>2, BigEndianWritesBack
  <2>4. Own(it).bits = BigEndian(v.n, ByteBits * T.n) /\ Own(it).parts = <<>>
    BY <1>1, <1>6 DEF Own, WritesOf, NumberWrites, Writes
  <2>5. IsValue(it)
    BY <1>1, <1>6, <2>1, <2>2, <2>3 DEF IsValue
  <2>. QED BY <1>3, <1>4, <2>3, <2>4, <2>5 DEF IsWritten
<1>7. CASE T.kind = "unit"
  <2>1. Len(got) = 0 /\ v = Value(0, f.parts)
    BY <1>1, <1>7 DEF ReadsOf, UnitReads, Reads, ValueOf
  <2>2. got = <<>> /\ v = Value(0, <<>>) /\ v.n = 0 /\ v.of = <<>>
    BY <1>1, <1>3, <2>1 DEF Value
  <2>3. Own(it).bits = <<>> /\ Own(it).parts = <<>>
    BY <1>1, <1>7 DEF Own, WritesOf, UnitWrites, Writes
  <2>4. IsValue(it)
    BY <1>1, <1>7, <2>2 DEF IsValue
  <2>. QED BY <1>3, <1>4, <2>2, <2>3, <2>4 DEF IsWritten
<1>. QED BY <1>5, <1>6, <1>7

(* Codecs that convert: char, isize.                                       *)
LEMMA CastsAreWritten ==
  ASSUME NEW f, Accepts(f), f.type.kind \in {"char", "isize"}
  PROVE  IsWritten(f)
<1> DEFINE T == f.type
           v == ValueOf(f)
           it == Made(f)
           part == PartsRead(f)[1]
<1>1. /\ IsType(T) /\ f.got \in Seq(Bit) /\ Len(f.got) = ReadsOf(f).bits
      /\ f.parts \in Seq(Values) /\ Len(f.parts) = Len(ReadsOf(f).parts)
      /\ PartsRead(f) \in Seq(Nested) /\ Len(PartsRead(f)) = Len(f.parts)
      /\ it.type = T /\ it.value = v
      /\ \A j \in 1 .. Len(f.parts) :
           /\ PartsRead(f)[j] \in Nested
           /\ PartsRead(f)[j] = Part(ReadsOf(f).parts[j], f.parts[j])
  BY AcceptsFacts
<1>2. ReadsOf(f).parts = T.of /\ ReadsOf(f).bits = 0 /\ v = f.parts[1]
  BY DEF ReadsOf, CastReads, Reads, ValueOf
<1>3. Len(T.of) = 1 /\ T.n \in Nat /\ T.of[1].kind = "number"
  BY <1>1 DEF IsType
<1>4. /\ Len(f.parts) = 1 /\ part \in Nested /\ part = Part(T.of[1], v)
      /\ PartsRead(f) = <<part>> /\ f.got = <<>>
  BY <1>1, <1>2, <1>3
<1>5. v = Value(v.n, <<>>) /\ v.n \in Nat
  <2>1. IsValue(part) /\ part.type.kind = "number" /\ part.value = v
    BY <1>3, <1>4, DeserializerConstants DEF Part
  <2>2. v = Value(v.n, <<>>) /\ part.type.n \in Nat /\ v.n \in 0 .. 2 ^ (ByteBits * part.type.n) - 1
    <3>1. v = Value(v.n, <<>>)
      BY <2>1 DEF IsValue
    <3>2. part.type.n \in Nat /\ v.n \in 0 .. 2 ^ (ByteBits * part.type.n) - 1
      BY <2>1 DEF IsValue
    <3>. QED BY <3>1, <3>2
  <2>. QED BY <2>2
<1>6. v.n < T.n
  <2>1. ~MapRefuses(f)
    BY DEF Accepts, Refuses
  <2>. QED BY <1>2, <1>3, <1>5, <2>1 DEF MapRefuses
<1>7. Own(it).bits = <<>> /\ Own(it).parts = <<Part(T.of[1], Value(v.n, <<>>))>>
  BY <1>1 DEF Own, WritesOf, CastWrites, Writes
<1>8. v = Value(v.n, v.of)
  BY <1>5 DEF Value
<1>9. IsValue(it)
  <2>1. CASE T.kind = "char"
    BY <1>1, <1>3, <1>5, <1>6, <1>8, <2>1 DEF IsValue
  <2>2. CASE T.kind = "isize"
    BY <1>1, <1>3, <1>5, <1>6, <1>8, <2>2 DEF IsValue
  <2>. QED BY <2>1, <2>2
<1>10. Readable(it)
  BY <1>1, <1>6 DEF Readable
<1>. QED BY <1>4, <1>5, <1>7, <1>9, <1>10 DEF IsWritten

(* Codecs that only hand on: Box, Map, a user's future.                    *)
LEMMA HandedOnIsWritten ==
  ASSUME NEW f, Accepts(f), f.type.kind \in {"box", "future", "mapped"}
  PROVE  IsWritten(f)
<1> DEFINE T == f.type
           v == ValueOf(f)
           it == Made(f)
           items == PartsRead(f)
<1>1. /\ IsType(T) /\ f.got \in Seq(Bit) /\ Len(f.got) = ReadsOf(f).bits
      /\ f.parts \in Seq(Values) /\ Len(f.parts) = Len(ReadsOf(f).parts)
      /\ it.type = T /\ it.value = v
      /\ items \in Seq(Nested) /\ Len(items) = Len(f.parts)
      /\ \A j \in 1 .. Len(f.parts) :
           items[j] \in Nested /\ items[j] = Part(ReadsOf(f).parts[j], f.parts[j])
  BY AcceptsFacts
<1>2. ReadsOf(f).parts = T.of /\ ReadsOf(f).bits = 0 /\ v = Value(0, f.parts)
  BY DEF ReadsOf, BoxReads, MapReads, Reads, ValueOf
<1>3. Len(T.of) = 1
  BY <1>1 DEF IsType
<1>4. Len(f.parts) = 1 /\ f.got = <<>>
  BY <1>1, <1>2, <1>3
<1>5. Each(T.of[1], f.parts) = items
  <2>1. \A j \in 1 .. Len(f.parts) : ReadsOf(f).parts[j] = T.of[1]
    BY <1>2, <1>4
  <2>. QED BY <2>1, EachRead
<1>6. v.n = 0 /\ v.of = f.parts /\ v = Value(v.n, v.of) /\ v.n # 1
  BY <1>2 DEF Value
<1>7. Own(it).bits = <<>> /\ Own(it).parts = Each(T.of[1], v.of)
  <2>1. CASE T.kind \in {"box", "future"}
    BY <1>1, <2>1 DEF Own, WritesOf, BoxWrites, Writes
  <2>2. CASE T.kind = "mapped"
    BY <1>1, <1>6, <2>2 DEF Own, WritesOf, MapWrites, Writes
  <2>. QED BY <2>1, <2>2
<1>8. IsValue(it)
  BY <1>1, <1>3, <1>4, <1>6 DEF IsValue, Values
<1>9. Readable(it)
  <2>1. CASE T.kind \in {"box", "future"}
    BY <1>1, <2>1 DEF Readable
  <2>2. CASE T.kind = "mapped"
    <3>1. T.n \in Nat /\ ~MapRefuses(f)
      BY <1>1, <2>2 DEF IsType, Accepts, Refuses
    <3>2. f.parts[1].n \in Nat
      <4>1. items[1] \in Nested /\ items[1].value = f.parts[1]
        BY <1>1, <1>4 DEF Part
      <4>2. IsValue(items[1])
        BY <4>1, DeserializerConstants
      <4> DEFINE w == items[1].value
                 k == items[1].type.kind
      <4>3. \/ w.n \in {0, 1} \/ w = Value(0, <<>>) \/ w.n = 0 \/ w.n \in Nat
            \/ \E m : w.n \in 0 .. m
        BY <4>2 DEF IsValue
      <4>. QED BY <4>1, <4>3 DEF Value
    <3>3. f.parts[1].n \in 0 .. T.n - 1
      BY <3>1, <3>2 DEF MapRefuses
    <3>. QED BY <1>1, <1>6, <2>2, <3>1, <3>3 DEF Readable
  <2>. QED BY <2>1, <2>2
<1>. QED BY <1>4, <1>5, <1>6, <1>7, <1>8, <1>9 DEF IsWritten

(* Codecs of parts only: tuples, derived structs, arrays.                  *)
LEMMA ProductsAreWritten ==
  ASSUME NEW f, Accepts(f), f.type.kind \in {"tuple", "array"}
  PROVE  IsWritten(f)
<1> DEFINE T == f.type
           v == ValueOf(f)
           it == Made(f)
           items == PartsRead(f)
           l == Len(f.parts)
<1>1. /\ IsType(T) /\ f.got \in Seq(Bit) /\ Len(f.got) = ReadsOf(f).bits
      /\ f.parts \in Seq(Values) /\ l = Len(ReadsOf(f).parts)
      /\ it.type = T /\ it.value = v /\ Len(T.of) \in Nat
      /\ items \in Seq(Nested) /\ Len(items) = l
      /\ \A j \in 1 .. l : items[j] = Part(ReadsOf(f).parts[j], f.parts[j])
  BY AcceptsFacts
<1>2. ReadsOf(f).bits = 0 /\ v = Value(0, f.parts)
  BY DEF ReadsOf, TupleReads, ArrayReads, Reads, ValueOf
<1>3. v.n = 0 /\ v.of = f.parts /\ v = Value(v.n, v.of) /\ f.got = <<>>
  BY <1>1, <1>2 DEF Value
<1>4. Readable(it)
  BY <1>1 DEF Readable
<1>5. CASE T.kind = "tuple"
  <2>1. ReadsOf(f).parts = T.of /\ l = Len(T.of)
    BY <1>1, <1>5 DEF ReadsOf, TupleReads, Reads
  <2>2. /\ Own(it).bits = <<>>
        /\ Own(it).parts = [i \in 1 .. Len(T.of) |-> Part(T.of[i], v.of[i])]
    BY <1>1, <1>5 DEF Own, WritesOf, TupleWrites, Writes
  <2>3. items = [i \in 1 .. l |-> items[i]]
    BY <1>1
  <2>4. items = [i \in 1 .. Len(T.of) |-> Part(T.of[i], v.of[i])]
    <3>. HIDE DEF items, l
    <3>. QED BY <1>1, <1>3, <2>1, <2>3
  <2>5. IsValue(it)
    BY <1>1, <1>3, <1>5, <2>1 DEF IsValue, Values
  <2>. QED BY <1>3, <1>4, <2>2, <2>4, <2>5 DEF IsWritten
<1>6. CASE T.kind = "array"
  <2>1. T.n \in Nat /\ Len(T.of) = 1
    BY <1>1, <1>6 DEF IsType
  <2>2. ReadsOf(f).parts = [i \in 1 .. T.n |-> T.of[1]]
    BY <1>6 DEF ReadsOf, ArrayReads, Reads
  <2>3. l = T.n /\ \A j \in 1 .. l : ReadsOf(f).parts[j] = T.of[1]
    BY <1>1, <2>1, <2>2
  <2>4. Each(T.of[1], f.parts) = items
    BY <2>3, EachRead
  <2>5. Own(it).bits = <<>> /\ Own(it).parts = Each(T.of[1], v.of)
    BY <1>1, <1>6 DEF Own, WritesOf, ArrayWrites, Writes
  <2>6. IsValue(it)
    BY <1>1, <1>3, <1>6, <2>3 DEF IsValue, Values
  <2>. QED BY <1>3, <1>4, <2>4, <2>5, <2>6 DEF IsWritten
<1>. QED BY <1>5, <1>6

(* Codecs of one bit that says what comes: Option, Result.                 *)
LEMMA ChoicesAreWritten ==
  ASSUME NEW f, Accepts(f), f.type.kind \in {"option", "result"}
  PROVE  IsWritten(f)
<1> DEFINE T == f.type
           v == ValueOf(f)
           it == Made(f)
           items == PartsRead(f)
           got == f.got
           l == Len(f.parts)
<1>1. /\ IsType(T) /\ got \in Seq(Bit) /\ Len(got) = ReadsOf(f).bits
      /\ f.parts \in Seq(Values) /\ l = Len(ReadsOf(f).parts)
      /\ it.type = T /\ it.value = v
  BY AcceptsFacts
<1>2. ReadsOf(f).bits = 1
  BY DEF ReadsOf, OptionReads, ResultReads, Reads
<1>3. got[1] \in {0, 1} /\ got = <<got[1]>> /\ FromBigEndian(got) = got[1]
  BY <1>1, <1>2, FewBits DEF Bit
<1>4. Readable(it)
  BY <1>1 DEF Readable
<1>5. CASE T.kind = "option"
  <2>1. v = Value(0, f.parts) /\ ReadsOf(f).parts = IF got = <<1>> THEN T.of ELSE <<>>
    BY <1>5 DEF ReadsOf, OptionReads, Reads, ValueOf
  <2>2. v.n = 0 /\ v.of = f.parts /\ v = Value(v.n, v.of)
    BY <2>1 DEF Value
  <2>3. Len(T.of) = 1
    BY <1>1, <1>5 DEF IsType
  <2>4. /\ l \in {0, 1} /\ got = <<l>>
        /\ \A j \in 1 .. l : ReadsOf(f).parts[j] = T.of[1]
    <3>1. CASE got[1] = 1
      <4>1. got = <<1>>
        BY <1>3, <3>1
      <4>2. ReadsOf(f).parts = T.of
        BY <2>1, <4>1
      <4>3. l = 1
        BY <1>1, <2>3, <4>2
      <4>. QED BY <4>1, <4>2, <4>3
    <3>2. CASE got[1] = 0
      <4>1. got = <<0>> /\ got # <<1>>
        BY <1>3, <3>2
      <4>2. ReadsOf(f).parts = <<>>
        BY <2>1, <4>1
      <4>3. l = 0
        BY <1>1, <4>2
      <4>. QED BY <4>1, <4>3
    <3>. QED BY <1>3, <3>1, <3>2
  <2>5. Each(T.of[1], f.parts) = items
    BY <2>4, EachRead
  <2>6. Own(it).bits = <<Len(v.of)>> /\ Own(it).parts = Each(T.of[1], v.of)
    BY <1>1, <1>5 DEF Own, WritesOf, OptionWrites, Writes
  <2>7. IsValue(it)
    BY <1>1, <1>5, <2>2, <2>3, <2>4 DEF IsValue, Values
  <2>. QED BY <1>4, <2>2, <2>4, <2>5, <2>6, <2>7 DEF IsWritten
<1>6. CASE T.kind = "result"
  <2> DEFINE U == T.of[IF v.n = 1 THEN 1 ELSE 2]
  <2>1. /\ v = Value(FromBigEndian(got), f.parts)
        /\ ReadsOf(f).parts = <<T.of[IF got = <<1>> THEN 1 ELSE 2]>>
    BY <1>6 DEF ReadsOf, ResultReads, Reads, ValueOf
  <2>2. v.n = got[1] /\ v.of = f.parts /\ v = Value(v.n, v.of)
    BY <1>3, <2>1 DEF Value
  <2>3. got = <<1>> <=> v.n = 1
    BY <1>3, <2>2
  <2>4. ReadsOf(f).parts = <<U>> /\ l = 1
    BY <1>1, <2>1, <2>3
  <2>5. Each(U, f.parts) = items
    <3>1. \A j \in 1 .. Len(f.parts) : ReadsOf(f).parts[j] = U
      <4>. HIDE DEF U
      <4>. QED BY <2>4
    <3>. HIDE DEF U
    <3>. QED BY <3>1, EachRead
  <2>6. Own(it).bits = <<v.n>> /\ Own(it).parts = Each(U, v.of)
    BY <1>1, <1>6 DEF Own, WritesOf, ResultWrites, Writes
  <2>7. IsValue(it)
    BY <1>1, <1>3, <1>6, <2>2, <2>4 DEF IsValue, Values
  <2>. QED BY <1>3, <1>4, <2>2, <2>5, <2>6, <2>7 DEF IsWritten
<1>. QED BY <1>5, <1>6

(* What derive generates for an enum.                                      *)
LEMMA EnumsAreWritten ==
  ASSUME NEW f, Accepts(f), f.type.kind = "enum"
  PROVE  IsWritten(f)
<1> DEFINE T == f.type
           v == ValueOf(f)
           it == Made(f)
           items == PartsRead(f)
           got == f.got
           l == Len(f.parts)
           n == Determinant(f)
           fields == T.of[n + 1].of
<1>1. /\ IsType(T) /\ got \in Seq(Bit) /\ Len(got) = ReadsOf(f).bits
      /\ f.parts \in Seq(Values) /\ l = Len(ReadsOf(f).parts)
      /\ it.type = T /\ it.value = v /\ Len(T.of) \in Nat
      /\ items \in Seq(Nested) /\ Len(items) = l
      /\ \A j \in 1 .. l : items[j] = Part(ReadsOf(f).parts[j], f.parts[j])
  BY AcceptsFacts
<1>2. n \in Nat /\ n < Len(T.of)
  <2>1. n \in Nat
    BY <1>1, DeterminantHasValue DEF Determinant
  <2>2. ~(n >= Len(T.of))
    BY DEF Accepts, Whole, InvalidDeterminant
  <2>. QED BY <1>1, <2>1, <2>2
<1>3. /\ ReadsOf(f).bits = DeterminantBits(Len(T.of)) /\ ReadsOf(f).parts = fields
      /\ v = Value(n, f.parts)
  BY <1>2 DEF ReadsOf, DerivedReads, Reads, ValueOf
<1>4. v.n = n /\ v.of = f.parts /\ v = Value(v.n, v.of)
  BY <1>3 DEF Value
<1>5. LittleEndian(n, DeterminantBits(Len(T.of))) = got
  BY <1>1, <1>3, LittleEndianWritesBack DEF Determinant
<1> HIDE DEF n
<1>6. /\ Own(it).bits = LittleEndian(v.n, DeterminantBits(Len(T.of)))
      /\ Own(it).parts = [i \in 1 .. Len(fields) |-> Part(fields[i], v.of[i])]
  BY <1>1, <1>4 DEF Own, WritesOf, DerivedWrites, TupleWrites, Writes
<1>7. items = [i \in 1 .. l |-> items[i]]
  BY <1>1
<1>8. items = [i \in 1 .. Len(fields) |-> Part(fields[i], v.of[i])]
  <2>. HIDE DEF items, l, fields
  <2>. QED BY <1>1, <1>3, <1>4, <1>7
<1>9. IsValue(it)
  <2>1. l = Len(fields) /\ v.n \in 0 .. Len(T.of) - 1
    BY <1>1, <1>2, <1>3, <1>4
  <2>. QED BY <1>1, <1>4, <2>1 DEF IsValue, Values
<1>10. Readable(it)
  BY <1>1 DEF Readable
<1>. QED BY <1>4, <1>5, <1>6, <1>8, <1>9, <1>10 DEF IsWritten

(* A sequence is its beginning with what comes behind that.                *)
LEMMA SplitAt ==
  ASSUME NEW X, NEW s \in Seq(X), NEW a \in Nat, NEW b \in Nat, a <= b, b <= Len(s)
  PROVE  /\ SubSeq(s, 1, a) \in Seq(X) /\ Len(SubSeq(s, 1, a)) = a
         /\ SubSeq(s, a + 1, b) \in Seq(X) /\ Len(SubSeq(s, a + 1, b)) = b - a
         /\ SubSeq(s, 1, a) \o SubSeq(s, a + 1, b) = SubSeq(s, 1, b)
<1>1. SubSeq(s, 1, a) \in Seq(X) /\ Len(SubSeq(s, 1, a)) = a
  OBVIOUS
<1>2. SubSeq(s, a + 1, b) \in Seq(X) /\ Len(SubSeq(s, a + 1, b)) = b - a
  OBVIOUS
<1>3. 1 \in 1 .. Len(s) + 1 /\ a \in 1 - 1 .. Len(s) /\ b \in a .. Len(s)
  OBVIOUS
<1>. QED BY <1>1, <1>2, <1>3, ConcatAdjacentSubSeq

(* A function on the first numbers is a sequence of what it maps to.       *)
LEMMA MapsToSeq ==
  ASSUME NEW X, NEW n \in Nat, NEW s, s = [i \in 1 .. n |-> s[i]], \A i \in 1 .. n : s[i] \in X
  PROVE  s \in Seq(X) /\ Len(s) = n
OBVIOUS

(* A length that has been accepted.                                        *)
LEMMA LengthAccepted ==
  ASSUME NEW f, Accepts(f), f.type.kind \in {"string", "vec"}
  PROVE  /\ QuantityDone(f.got) /\ LengthKnown(f)
         /\ FromVlq(f.got) \in Lengths /\ FromVlq(f.got) < UsizeLimit
         /\ QuantityBits(f.got) \in Nat /\ QuantityBits(f.got) <= Len(f.got)
         /\ Vlq(FromVlq(f.got)) = SubSeq(f.got, 1, QuantityBits(f.got))
<1>1. f.got \in Seq(Bit) /\ Len(f.got) = ReadsOf(f).bits /\ Len(f.got) \in Nat
  BY AcceptsFacts
<1>2. QuantityBits(f.got) \in Nat /\ QuantityBits(f.got) <= ReadsOf(f).bits
  BY BitsWanted DEF Accepts
<1>3. QuantityDone(f.got)
  BY <1>1, <1>2 DEF QuantityDone
<1>4. LengthKnown(f)
  BY <1>3 DEF Accepts, Refuses, TooLong
<1>5. FromVlq(f.got) < UsizeLimit
  BY <1>4 DEF LengthKnown
<1>6. VlqBytes(FromVlq(f.got)) = VlqLength(f.got)
  BY <1>3 DEF Accepts, IsShortest
<1>. QED BY <1>1, <1>3, <1>4, <1>5, <1>6, QuantityWritesBack

(* Codecs of a length and as many parts.                                   *)
LEMMA VecsAreWritten ==
  ASSUME NEW f, Accepts(f), f.type.kind = "vec"
  PROVE  IsWritten(f)
<1> DEFINE T == f.type
           v == ValueOf(f)
           it == Made(f)
           items == PartsRead(f)
           got == f.got
           l == Len(f.parts)
           n == FromVlq(got)
<1>1. /\ IsType(T) /\ got \in Seq(Bit) /\ Len(got) = ReadsOf(f).bits /\ Len(got) \in Nat
      /\ f.parts \in Seq(Values) /\ l = Len(ReadsOf(f).parts)
      /\ it.type = T /\ it.value = v
  BY AcceptsFacts
<1>2. /\ LengthKnown(f) /\ n \in Lengths /\ n < UsizeLimit
      /\ Vlq(n) = SubSeq(got, 1, QuantityBits(got))
  BY LengthAccepted
<1>3. /\ ReadsOf(f).bits = QuantityBits(got)
      /\ ReadsOf(f).parts = [i \in 1 .. n |-> T.of[1]]
      /\ v = Value(0, f.parts)
  BY <1>2 DEF ReadsOf, VecReads, Reads, ValueOf
<1>4. v.n = 0 /\ v.of = f.parts /\ v = Value(v.n, v.of)
  BY <1>3 DEF Value
<1>5. n \in Nat
  BY <1>2 DEF Lengths
<1>6. l = n /\ \A j \in 1 .. l : ReadsOf(f).parts[j] = T.of[1]
  <2>. HIDE DEF n, l
  <2>. QED BY <1>1, <1>3, <1>5
<1>7. Each(T.of[1], f.parts) = items
  BY <1>6, EachRead
<1>8. Vlq(n) = got
  <2>1. SubSeq(got, 1, Len(got)) = got
    BY <1>1
  <2>. QED BY <1>1, <1>2, <1>3, <2>1
<1>9. Own(it).bits = Vlq(Len(v.of)) /\ Own(it).parts = Each(T.of[1], v.of)
  BY <1>1 DEF Own, WritesOf, VecWrites, Writes
<1>10. IsValue(it)
  BY <1>1, <1>2, <1>4, <1>6 DEF IsValue, Values
<1>11. Readable(it)
  BY <1>1, <1>2, <1>4, <1>6 DEF Readable
<1>. QED BY <1>4, <1>6, <1>7, <1>8, <1>9, <1>10, <1>11 DEF IsWritten

(* Codecs of a length and as many bytes.                                   *)
LEMMA StringsAreWritten ==
  ASSUME NEW f, Accepts(f), f.type.kind = "string"
  PROVE  IsWritten(f)
<1> DEFINE T == f.type
           v == ValueOf(f)
           it == Made(f)
           got == f.got
           n == FromVlq(got)
           q == QuantityBits(got)
           data == SubSeq(got, q + 1, Len(got))
           bytes == BytesOf(f)
<1>1. /\ IsType(T) /\ got \in Seq(Bit) /\ Len(got) = ReadsOf(f).bits /\ Len(got) \in Nat
      /\ f.parts \in Seq(Values) /\ Len(f.parts) = Len(ReadsOf(f).parts)
      /\ PartsRead(f) \in Seq(Nested) /\ Len(PartsRead(f)) = Len(f.parts)
      /\ it.type = T /\ it.value = v
  BY AcceptsFacts
<1>2. /\ LengthKnown(f) /\ n \in Lengths /\ n < UsizeLimit
      /\ q \in Nat /\ q <= Len(got) /\ Vlq(n) = SubSeq(got, 1, q)
  BY LengthAccepted
<1>3. /\ ReadsOf(f).bits = q + ByteBits * n /\ ReadsOf(f).parts = <<>>
      /\ v = Value(0, bytes)
  BY <1>2 DEF ReadsOf, StringReads, Reads, ValueOf
<1>4. v.n = 0 /\ v.of = bytes /\ v = Value(v.n, v.of)
  BY <1>3 DEF Value
<1>5. n \in Nat /\ ByteBits \in Nat /\ ByteBits * n \in Nat
  BY <1>2, FormatConstants DEF Lengths
<1>6. PartsRead(f) = <<>>
  BY <1>1, <1>3
<1>7. /\ data \in Seq(Bit) /\ Len(data) = ByteBits * n
      /\ SubSeq(got, 1, q) \o data = got
  <2>1. /\ data \in Seq(Bit) /\ Len(data) = Len(got) - q
        /\ SubSeq(got, 1, q) \o data = SubSeq(got, 1, Len(got))
    <3>1. got \in Seq(Bit) /\ q \in Nat /\ Len(got) \in Nat /\ q <= Len(got) /\ Len(got) <= Len(got)
      BY <1>1, <1>2
    <3>2. data = SubSeq(got, q + 1, Len(got))
      OBVIOUS
    <3>. HIDE DEF got, q, data
    <3>3. /\ SubSeq(got, q + 1, Len(got)) \in Seq(Bit)
          /\ Len(SubSeq(got, q + 1, Len(got))) = Len(got) - q
          /\ SubSeq(got, 1, q) \o SubSeq(got, q + 1, Len(got)) = SubSeq(got, 1, Len(got))
      <4> DEFINE z == Len(got)
      <4>1. z \in Nat /\ q <= z /\ z <= Len(got)
        BY <3>1
      <4> HIDE DEF z
      <4>2. /\ SubSeq(got, q + 1, z) \in Seq(Bit) /\ Len(SubSeq(got, q + 1, z)) = z - q
            /\ SubSeq(got, 1, q) \o SubSeq(got, q + 1, z) = SubSeq(got, 1, z)
        BY <3>1, <4>1, SplitAt
      <4>. QED BY <4>2 DEF z
    <3>. QED BY <3>2, <3>3
  <2>2. SubSeq(got, 1, Len(got)) = got
    BY <1>1
  <2>3. Len(data) = ByteBits * n
    <3>1. Len(got) = q + ByteBits * n /\ q \in Nat /\ ByteBits * n \in Nat
      BY <1>1, <1>2, <1>3, <1>5
    <3>2. Len(data) = Len(got) - q
      BY <2>1
    <3>. HIDE DEF data, got, q, n
    <3>. QED BY <3>1, <3>2
  <2>. QED BY <2>1, <2>2, <2>3
<1>8. bytes = [i \in 1 .. Len(data) \div ByteBits |->
                 Value(FromBigEndian(SubSeq(data, ByteBits * (i - 1) + 1, ByteBits * i)), <<>>)]
  BY DEF BytesOf
<1>9. /\ Len(bytes) = n
      /\ \A i \in 1 .. n : bytes[i] = Value(bytes[i].n, <<>>) /\ bytes[i].n \in Nat
      /\ FlattenSeq([i \in 1 .. Len(bytes) |-> BigEndian(bytes[i].n, ByteBits)]) = data
  <2>. HIDE DEF data, bytes, n
  <2> DEFINE made == [i \in 1 .. Len(data) \div ByteBits |->
                        Value(FromBigEndian(SubSeq(data, ByteBits * (i - 1) + 1, ByteBits * i)), <<>>)]
  <2>1. /\ Len(made) = n
        /\ \A i \in 1 .. n : made[i] = Value(made[i].n, <<>>) /\ made[i].n \in Nat
        /\ FlattenSeq([i \in 1 .. Len(made) |-> BigEndian(made[i].n, ByteBits)]) = data
    BY <1>5, <1>7, BytesWriteBack
  <2>2. bytes = made
    BY <1>8
  <2> HIDE DEF made
  <2>. QED BY <2>1, <2>2
<1>10. bytes \in Seq(Byte)
  <2>1. ~InvalidUtf8(f)
    BY DEF Accepts, Refuses
  <2>2. \A i \in 1 .. n : ~(bytes[i].n >= 2 ^ (ByteBits - 1))
    BY <1>9, <2>1 DEF InvalidUtf8
  <2>3. 2 ^ (ByteBits - 1) \in Nat
    BY Powers, FormatConstants
  <2>4. ASSUME NEW i \in 1 .. n PROVE bytes[i] \in Byte
    <3>1. bytes[i].n \in 0 .. 2 ^ (ByteBits - 1) - 1
      BY <1>9, <2>2, <2>3
    <3>2. bytes[i] = [n |-> bytes[i].n, of |-> <<>>]
      BY <1>9 DEF Value
    <3>. QED BY <3>1, <3>2 DEF Byte
  <2>5. bytes = [i \in 1 .. n |-> bytes[i]]
    <3>1. \E m : bytes = [i \in 1 .. m |-> bytes[i]]
      BY <1>8
    <3>2. Len(data) \div ByteBits \in Nat
      BY <1>5, <1>7, FormatConstants, DivisionIsUnique
    <3>3. Len(bytes) = Len(data) \div ByteBits
      <4>. HIDE DEF data, bytes
      <4>. QED BY <1>8, <3>2
    <3>4. bytes = [i \in 1 .. Len(data) \div ByteBits |-> bytes[i]]
      <4>. HIDE DEF data
      <4>. QED BY <1>8
    <3>. QED BY <1>9, <3>3, <3>4
  <2>. HIDE DEF bytes, n
  <2>. QED BY <1>5, <2>4, <2>5, MapsToSeq
<1>11. /\ Own(it).bits = Vlq(Len(v.of)) \o
            FlattenSeq([i \in 1 .. Len(v.of) |-> BigEndian(v.of[i].n, ByteBits)])
       /\ Own(it).parts = <<>>
  BY <1>1 DEF Own, WritesOf, BytesWrites, Writes
<1>12. Own(it).bits = got
  <2>. HIDE DEF bytes, data, v, n, q, got, it
  <2>. QED BY <1>2, <1>4, <1>7, <1>9, <1>11
<1>13. IsValue(it)
  <2>1. v.n = 0 /\ v.of \in Seq(Byte) /\ Len(v.of) \in Lengths
    BY <1>2, <1>4, <1>9, <1>10
  <2>. QED BY <1>1, <1>4, <2>1 DEF IsValue
<1>14. Readable(it)
  <2>1. Len(v.of) < UsizeLimit
    BY <1>2, <1>4, <1>9
  <2>. QED BY <1>1, <2>1 DEF Readable
<1>. QED BY <1>6, <1>11, <1>12, <1>13, <1>14 DEF IsWritten

(* What is accepted is what is written: the other direction of SidesAgree. *)
THEOREM AcceptedIsWritten ==
  ASSUME NEW f, Accepts(f)
  PROVE  IsWritten(f)
<1>1. IsType(f.type)
  BY AcceptsFacts
<1>2. f.type.kind # "empty"
  BY DEF Accepts, Refuses
<1>3. f.type.kind \in {"bool", "number", "unit", "char", "isize", "box", "future", "mapped",
                       "tuple", "array", "option", "result", "enum", "vec", "string"}
  BY <1>1, <1>2 DEF IsType
<1>. QED BY <1>3, PlainIsWritten, CastsAreWritten, HandedOnIsWritten, ProductsAreWritten,
            ChoicesAreWritten, EnumsAreWritten, VecsAreWritten, StringsAreWritten

(* Nested has whatever is built from its items and is accepted.            *)
AllItems ==
  \A it :
    /\ it = Part(it.type, it.value) /\ it.type \in Types
    /\ IsValue(it) /\ Readable(it) /\ Own(it).parts \in Seq(Nested)
    => it \in Nested

(* No parts, no encodings.                                                 *)
LEMMA NothingJoined == Joined(<<>>) = <<>>
<1>1. [i \in 1 .. Len(<<>>) |-> EncodingOf(<<>>[i])] = <<>>
  OBVIOUS
<1>2. FlattenSeq(<<>>) = <<>>
  BY FlattenHeadTail, EmptySeq
<1>. QED BY <1>1, <1>2 DEF Joined

(* The encodings of one more part.                                         *)
LEMMA JoinedGrows ==
  ASSUME NEW parts \in Seq(Nested), NEW it \in Nested
  PROVE  /\ Joined(<<>>) = <<>> /\ Joined(parts) \in Seq(Bit) /\ EncodingOf(it) \in Seq(Bit)
         /\ Joined(Append(parts, it)) = Joined(parts) \o EncodingOf(it)
<1> DEFINE encoded == [i \in 1 .. Len(parts) |-> EncodingOf(parts[i])]
           more == Append(parts, it)
<1>1. \A x \in Nested : EncodingOf(x) \in Seq(Bit)
  BY ItemsAreEncoded DEF IsEncoded, Bit
<1>2. Joined(<<>>) = <<>>
  BY NothingJoined
<1>3. encoded \in Seq(Seq(Bit)) /\ Len(encoded) = Len(parts)
      /\ \A i \in 1 .. Len(parts) : encoded[i] = EncodingOf(parts[i])
  <2>1. Len(parts) \in Nat /\ \A i \in 1 .. Len(parts) : parts[i] \in Nested
    OBVIOUS
  <2>. QED BY <1>1, <2>1
<1>4. Joined(parts) \in Seq(Bit)
  BY <1>3, FlattenHeadTail DEF Joined
<1>5. /\ Len(more) = Len(parts) + 1 /\ more[Len(parts) + 1] = it
      /\ \A i \in 1 .. Len(parts) : more[i] = parts[i]
  OBVIOUS
<1> HIDE DEF more
<1>6. [i \in 1 .. Len(more) |-> EncodingOf(more[i])] = Append(encoded, EncodingOf(it))
  <2> DEFINE x == [i \in 1 .. Len(more) |-> EncodingOf(more[i])]
             last == EncodingOf(it)
             y == Append(encoded, last)
  <2>1. Len(parts) \in Nat
    OBVIOUS
  <2>2. /\ x = [i \in 1 .. Len(parts) + 1 |-> x[i]]
        /\ \A i \in 1 .. Len(parts) + 1 : x[i] = EncodingOf(more[i])
    BY <1>5
  <2>3. last \in Seq(Bit)
    BY <1>1
  <2> HIDE DEF encoded, last
  <2>4. y = [i \in 1 .. Len(parts) + 1 |-> y[i]] /\ y[Len(parts) + 1] = last
        /\ \A i \in 1 .. Len(parts) : y[i] = encoded[i]
    <3> DEFINE n == Len(parts)
    <3>1. n \in Nat /\ encoded \in Seq(Seq(Bit)) /\ Len(encoded) = n
      BY <1>3, <2>1
    <3> HIDE DEF n
    <3>2. /\ y \in Seq(Seq(Bit)) /\ Len(y) = n + 1 /\ y[n + 1] = last
          /\ \A i \in 1 .. n : y[i] = encoded[i]
      BY <2>3, <3>1, AppendProperties
    <3> HIDE DEF y
    <3>3. y = [i \in 1 .. n + 1 |-> y[i]]
      BY <3>2
    <3>. QED BY <3>2, <3>3 DEF n
  <2> HIDE DEF x, y
  <2>5. ASSUME NEW i \in 1 .. Len(parts) + 1 PROVE x[i] = y[i]
    <3>1. CASE i = Len(parts) + 1
      BY <1>5, <2>2, <2>4, <3>1 DEF last
    <3>2. CASE i \in 1 .. Len(parts)
      BY <1>3, <1>5, <2>2, <2>4, <3>2
    <3>. QED BY <2>1, <3>1, <3>2
  <2>6. x = y
    BY <2>2, <2>4, <2>5
  <2>. QED BY <2>6 DEF x, y, last
<1>7. FlattenSeq(Append(encoded, EncodingOf(it))) = FlattenSeq(encoded) \o EncodingOf(it)
  <2>. HIDE DEF encoded
  <2>. QED BY <1>1, <1>3, FlattenAppend
<1>. QED BY <1>1, <1>2, <1>4, <1>6, <1>7 DEF Joined, more

(* What frames have read, up to the k-th of them.                          *)
ReadBelow(frames, k) == FlattenSeq([i \in 1 .. k |-> BitsRead(frames[i])])

(* Those of one frame more.                                                *)
LEMMA ReadBelowGrows ==
  ASSUME NEW frames, NEW k \in Nat, \A i \in 1 .. k + 1 : BitsRead(frames[i]) \in Seq(Bit)
  PROVE  /\ ReadBelow(frames, 0) = <<>> /\ ReadBelow(frames, k) \in Seq(Bit)
         /\ ReadBelow(frames, k + 1) = ReadBelow(frames, k) \o BitsRead(frames[k + 1])
<1> DEFINE below == [i \in 1 .. k |-> BitsRead(frames[i])]
           all == [i \in 1 .. k + 1 |-> BitsRead(frames[i])]
           last == BitsRead(frames[k + 1])
           y == Append(below, last)
<1>1. ReadBelow(frames, 0) = <<>>
  <2>1. [i \in 1 .. 0 |-> BitsRead(frames[i])] = <<>>
    OBVIOUS
  <2>2. FlattenSeq(<<>>) = <<>>
    BY FlattenHeadTail, EmptySeq
  <2>. QED BY <2>1, <2>2 DEF ReadBelow
<1>2. below \in Seq(Seq(Bit)) /\ Len(below) = k /\ last \in Seq(Bit)
      /\ \A i \in 1 .. k : below[i] = BitsRead(frames[i])
  <2>1. \A i \in 1 .. k : i \in 1 .. k + 1
    OBVIOUS
  <2>2. k + 1 \in 1 .. k + 1
    OBVIOUS
  <2>. QED BY <2>1, <2>2
<1>3. all = [i \in 1 .. k + 1 |-> all[i]] /\ \A i \in 1 .. k + 1 : all[i] = BitsRead(frames[i])
  OBVIOUS
<1> HIDE DEF below, all
<1>4. y = [i \in 1 .. k + 1 |-> y[i]] /\ y[k + 1] = last /\ \A i \in 1 .. k : y[i] = below[i]
  BY <1>2
<1> HIDE DEF y
<1>5. ASSUME NEW i \in 1 .. k + 1 PROVE all[i] = y[i]
  <2>1. CASE i = k + 1
    BY <1>3, <1>4, <2>1
  <2>2. CASE i \in 1 .. k
    BY <1>2, <1>3, <1>4, <2>2
  <2>. QED BY <2>1, <2>2
<1>6. all = y
  BY <1>3, <1>4, <1>5
<1>7. FlattenSeq(y) = FlattenSeq(below) \o last /\ FlattenSeq(below) \in Seq(Bit)
  BY <1>2, FlattenAppend, FlattenHeadTail DEF y
<1>. QED BY <1>1, <1>6, <1>7 DEF ReadBelow, below, all

(* They are those of the frames up to it.                                  *)
LEMMA ReadBelowSame ==
  ASSUME NEW frames, NEW others, NEW k \in Nat, \A i \in 1 .. k : others[i] = frames[i]
  PROVE  ReadBelow(others, k) = ReadBelow(frames, k)
<1>1. [i \in 1 .. k |-> BitsRead(others[i])] = [i \in 1 .. k |-> BitsRead(frames[i])]
  OBVIOUS
<1>. QED BY <1>1 DEF ReadBelow

(* A frame that has read the same bits has the same to do.                 *)
LEMMA SameDue ==
  ASSUME NEW f, NEW g, g.type = f.type, g.got = f.got
  PROVE  /\ PartsDue(g) = PartsDue(f) /\ (HeaderDone(g) <=> HeaderDone(f))
         /\ (InvalidDeterminant(g) <=> InvalidDeterminant(f))
<1>1. ReadsOf(g) = ReadsOf(f)
  BY DEF ReadsOf, BoolReads, NumberReads, UnitReads, CastReads, StringReads, OptionReads,
         ResultReads, TupleReads, DerivedReads, ArrayReads, VecReads, BoxReads, MapReads,
         LengthKnown, Determinant
<1>. QED BY <1>1 DEF PartsDue, HeaderDone, Missing, InvalidDeterminant, Determinant

(* An item that is accepted is encoded in the bits that it was read from.  *)
LEMMA AcceptedEncodes ==
  ASSUME AllItems, NEW f, Accepts(f)
  PROVE  /\ Made(f) \in Nested /\ Made(f) = Part(f.type, ValueOf(f))
         /\ EncodingOf(Made(f)) = BitsRead(f)
<1>1. IsWritten(f)
  BY AcceptedIsWritten
<1>2. /\ IsValue(Made(f)) /\ Readable(Made(f))
      /\ Own(Made(f)).bits = f.got /\ Own(Made(f)).parts = PartsRead(f)
  BY <1>1 DEF IsWritten
<1>3. /\ f.type \in Types /\ PartsRead(f) \in Seq(Nested)
      /\ Made(f).type = f.type /\ Made(f).value = ValueOf(f)
  BY AcceptsFacts DEF Accepts, SomeFrame
<1>4. Made(f) = Part(Made(f).type, Made(f).value)
  BY <1>3 DEF Made
<1>5. Made(f) \in Nested
  BY <1>2, <1>3, <1>4 DEF AllItems
<1>6. EncodingOf(Made(f)) = Own(Made(f)).bits \o Joined(Own(Made(f)).parts)
  BY <1>5, ItemsAreEncoded DEF IsEncoded
<1>. QED BY <1>2, <1>5, <1>6 DEF BitsRead, Made

(* A frame has items for parts, and has them when it has read its own      *)
(* bits; one that is below another waits for that one's item.              *)
ReadInOrder(f) ==
  /\ PartsRead(f) \in Seq(Nested)
  /\ f.parts # <<>> =>
       HeaderDone(f) /\ ~InvalidDeterminant(f) /\ Len(f.parts) <= Len(PartsDue(f))
WaitsFor(f, g) ==
  /\ HeaderDone(f) /\ ~InvalidDeterminant(f) /\ Len(f.parts) < Len(PartsDue(f))
  /\ g.type = PartsDue(f)[Len(f.parts) + 1]

(* All bits that were read from the stream are in the frames.              *)
InOrder(s, frames, at) ==
  /\ Len(frames) \in Nat /\ Len(frames) > 0
  /\ \A i \in 1 .. Len(frames) : SomeFrame(frames[i]) /\ ReadInOrder(frames[i])
  /\ \A i \in 1 .. Len(frames) - 1 : WaitsFor(frames[i], frames[i + 1])
  /\ frames[1].type = s.type
  /\ ReadBelow(frames, Len(frames)) = SubSeq(s.bits, 1, at)

(* How bits are put together does not matter.                              *)
LEMMA ConcatAgain ==
  ASSUME NEW a \in Seq(Bit), NEW b \in Seq(Bit), NEW c \in Seq(Bit)
  PROVE  (a \o b) \o c = a \o (b \o c)
<1> DEFINE x == a \o b
           y == b \o c
           l == x \o c
           r == a \o y
           n == Len(a)
           m == Len(b)
           k == Len(c)
<1>1. /\ n \in Nat /\ m \in Nat /\ x \in Seq(Bit) /\ Len(x) = n + m
      /\ \A i \in 1 .. n : x[i] = a[i]
      /\ \A i \in 1 .. m : x[n + i] = b[i]
  BY ConcatParts
<1>2. /\ k \in Nat /\ y \in Seq(Bit) /\ Len(y) = m + k
      /\ \A i \in 1 .. m : y[i] = b[i]
      /\ \A i \in 1 .. k : y[m + i] = c[i]
  BY ConcatParts
<1> HIDE DEF x, y
<1>3. /\ l \in Seq(Bit) /\ Len(l) = Len(x) + k
      /\ \A i \in 1 .. Len(x) : l[i] = x[i]
      /\ \A i \in 1 .. k : l[Len(x) + i] = c[i]
  <2>1. x \in Seq(Bit)
    BY <1>1
  <2>. QED BY <2>1, ConcatParts
<1>4. /\ r \in Seq(Bit) /\ Len(r) = n + Len(y)
      /\ \A i \in 1 .. n : r[i] = a[i]
      /\ \A i \in 1 .. Len(y) : r[n + i] = y[i]
  <2>1. y \in Seq(Bit)
    BY <1>2
  <2>. QED BY <2>1, ConcatParts
<1> HIDE DEF l, r, n, m, k
<1>5. Len(l) = n + m + k /\ Len(r) = n + m + k
  BY <1>1, <1>2, <1>3, <1>4
<1>6. ASSUME NEW i \in 1 .. n + m + k PROVE l[i] = r[i]
  <2>1. CASE i \in 1 .. n
    <3>1. i \in 1 .. Len(x)
      BY <1>1, <1>2, <2>1
    <3>. QED BY <1>1, <1>3, <1>4, <2>1, <3>1
  <2>2. CASE i \in n + 1 .. n + m
    <3>1. i - n \in 1 .. m /\ i - n \in 1 .. Len(y) /\ n + (i - n) = i /\ i \in 1 .. Len(x)
      BY <1>1, <1>2, <2>2
    <3>2. l[i] = b[i - n]
      BY <1>1, <1>3, <3>1
    <3>3. r[n + (i - n)] = b[i - n]
      BY <1>2, <1>4, <3>1
    <3>. QED BY <3>1, <3>2, <3>3
  <2>3. CASE i \in n + m + 1 .. n + m + k
    <3> DEFINE j == i - (n + m)
    <3>1. /\ j \in 1 .. k /\ m + j \in 1 .. Len(y) /\ Len(x) + j = i /\ n + (m + j) = i
      BY <1>1, <1>2, <2>3
    <3> HIDE DEF j
    <3>2. l[i] = c[j]
      BY <1>3, <3>1
    <3>3. r[n + (m + j)] = c[j]
      BY <1>2, <1>4, <3>1
    <3>. QED BY <3>1, <3>2, <3>3
  <2>. QED BY <1>1, <1>2, <2>1, <2>2, <2>3
<1>7. l = r
  <2>1. n + m + k \in Nat
    BY <1>1, <1>2
  <2>2. l = [i \in 1 .. n + m + k |-> l[i]]
    BY <1>3, <1>5
  <2>3. r = [i \in 1 .. n + m + k |-> r[i]]
    BY <1>4, <1>5
  <2>. QED BY <1>6, <2>1, <2>2, <2>3
<1>. QED BY <1>7 DEF l, r, x, y

(* What a frame has read are bits; without parts, its own.                 *)
LEMMA FrameBits ==
  ASSUME NEW f, SomeFrame(f), ReadInOrder(f)
  PROVE  /\ f.got \in Seq(Bit) /\ Joined(PartsRead(f)) \in Seq(Bit) /\ BitsRead(f) \in Seq(Bit)
         /\ f.parts = <<>> => PartsRead(f) = <<>> /\ BitsRead(f) = f.got
<1>1. f.got \in Seq(Bit) /\ PartsRead(f) \in Seq(Nested)
  BY DEF SomeFrame, ReadInOrder
<1>2. Joined(PartsRead(f)) \in Seq(Bit)
  <2>1. CASE Nested = {}
    <3>1. PartsRead(f) = <<>>
      BY <1>1, <2>1
    <3>2. <<>> \in Seq(Bit)
      OBVIOUS
    <3>. QED BY <3>1, <3>2, NothingJoined
  <2>2. CASE Nested # {}
    BY <1>1, <2>2, JoinedGrows
  <2>. QED BY <2>1, <2>2
<1>3. ASSUME f.parts = <<>> PROVE PartsRead(f) = <<>> /\ BitsRead(f) = f.got
  <2>1. PartsRead(f) = <<>>
    BY <1>3 DEF PartsRead
  <2>2. BitsRead(f) = f.got \o <<>>
    BY <2>1, NothingJoined DEF BitsRead
  <2>. QED BY <1>1, <2>1, <2>2, ConcatEmptySeq
<1>4. BitsRead(f) \in Seq(Bit)
  BY <1>1, <1>2, ConcatParts DEF BitsRead
<1>. QED BY <1>1, <1>2, <1>3, <1>4

(* The bits of the frame on top are the last that were read.               *)
LEMMA LastRead ==
  ASSUME NEW frames, NEW n \in Nat, n > 0,
         \A i \in 1 .. n : SomeFrame(frames[i]) /\ ReadInOrder(frames[i])
  PROVE  /\ ReadBelow(frames, 0) = <<>>
         /\ ReadBelow(frames, n - 1) \in Seq(Bit) /\ BitsRead(frames[n]) \in Seq(Bit)
         /\ ReadBelow(frames, n) = ReadBelow(frames, n - 1) \o BitsRead(frames[n])
<1> DEFINE k == n - 1
<1>1. k \in Nat /\ k + 1 = n /\ n \in 1 .. n
  OBVIOUS
<1>2. \A i \in 1 .. n : BitsRead(frames[i]) \in Seq(Bit)
  BY FrameBits
<1> HIDE DEF k
<1>3. \A i \in 1 .. k + 1 : BitsRead(frames[i]) \in Seq(Bit)
  BY <1>1, <1>2
<1>4. /\ ReadBelow(frames, 0) = <<>> /\ ReadBelow(frames, k) \in Seq(Bit)
      /\ ReadBelow(frames, k + 1) = ReadBelow(frames, k) \o BitsRead(frames[k + 1])
  BY <1>1, <1>3, ReadBelowGrows
<1>. QED BY <1>1, <1>2, <1>4 DEF k

(* More of its own bits for the frame on top.                              *)
GetsBits(frames, after, more) ==
  LET n == Len(frames)  f == frames[n]
  IN  /\ Len(after) = n /\ SomeFrame(after[n])
      /\ after[n] = [type |-> f.type, got |-> f.got \o more, parts |-> f.parts]
      /\ \A i \in 1 .. n - 1 : after[i] = frames[i]

(* All that was read is in the frames then, too.                           *)
LEMMA FillInOrder ==
  ASSUME NEW s, s.bits \in Seq(Bit), NEW frames, NEW at \in Nat, InOrder(s, frames, at),
         ~HeaderDone(frames[Len(frames)]),
         NEW k \in Nat, at + k <= Len(s.bits),
         NEW after, GetsBits(frames, after, SubSeq(s.bits, at + 1, at + k))
  PROVE  InOrder(s, after, at + k)
<1> DEFINE n == Len(frames)
           f == frames[n]
           more == SubSeq(s.bits, at + 1, at + k)
           g == after[n]
<1>0. /\ Len(after) = n /\ SomeFrame(g) /\ ~HeaderDone(f)
      /\ g = [type |-> f.type, got |-> f.got \o more, parts |-> f.parts]
      /\ g = after[n] /\ \A i \in 1 .. n - 1 : after[i] = frames[i]
      /\ n = Len(frames) /\ f = frames[n] /\ more = SubSeq(s.bits, at + 1, at + k)
  BY DEF GetsBits
<1> HIDE DEF n, f, more, g
<1>1. g.parts = f.parts /\ g.type = f.type /\ g.got = f.got \o more
  <2>1. g = [type |-> f.type, got |-> f.got \o more, parts |-> f.parts]
    BY <1>0
  <2>. QED BY <2>1
<1> USE <1>0
<1>2. /\ n \in Nat /\ n > 0 /\ n \in 1 .. n /\ SomeFrame(f) /\ ReadInOrder(f)
      /\ frames[1].type = s.type /\ ReadBelow(frames, n) = SubSeq(s.bits, 1, at)
      /\ \A i \in 1 .. n : SomeFrame(frames[i]) /\ ReadInOrder(frames[i])
      /\ \A i \in 1 .. n - 1 : WaitsFor(frames[i], frames[i + 1])
  BY DEF InOrder
<1>3. f.parts = <<>> /\ g.parts = <<>>
  <2>1. f.parts = <<>>
    BY <1>2 DEF ReadInOrder
  <2>. QED BY <1>1, <2>1
<1>4. ReadInOrder(g)
  <2>1. PartsRead(g) = <<>>
    BY <1>3 DEF PartsRead
  <2>. QED BY <1>3, <2>1 DEF ReadInOrder
<1>5. \A i \in 1 .. n : SomeFrame(after[i]) /\ ReadInOrder(after[i])
  <2>1. \A i \in 1 .. n : i = n \/ i \in 1 .. n - 1
    BY <1>2
  <2>. QED BY <1>2, <1>4, <2>1
<1>6. after[n] = g /\ \A i \in 1 .. n - 1 : after[i] = frames[i]
  OBVIOUS
<1>7. \A i \in 1 .. n - 1 : WaitsFor(after[i], after[i + 1])
  <2>1. SUFFICES ASSUME NEW i \in 1 .. n - 1 PROVE WaitsFor(after[i], after[i + 1])
    OBVIOUS
  <2>2. WaitsFor(frames[i], frames[i + 1]) /\ after[i] = frames[i]
    BY <1>2, <1>6
  <2>3. after[i + 1].type = frames[i + 1].type
    <3>1. CASE i + 1 = n
      BY <1>1, <1>6, <3>1
    <3>2. CASE i + 1 \in 1 .. n - 1
      BY <1>6, <3>2
    <3>. QED BY <1>2, <3>1, <3>2
  <2>. QED BY <2>2, <2>3 DEF WaitsFor
<1>8. after[1].type = s.type
  <2>1. CASE n = 1
    BY <1>1, <1>2, <1>6, <2>1
  <2>2. CASE 1 \in 1 .. n - 1
    BY <1>2, <1>6, <2>2
  <2>. QED BY <1>2, <2>1, <2>2
<1>9. ReadBelow(after, n) = SubSeq(s.bits, 1, at + k)
  <2>1. ReadBelow(after, n - 1) = ReadBelow(frames, n - 1)
    <3>1. n - 1 \in Nat
      BY <1>2
    <3>. QED BY <1>6, <3>1, ReadBelowSame
  <2>2. /\ ReadBelow(frames, n - 1) \in Seq(Bit)
        /\ ReadBelow(frames, n) = ReadBelow(frames, n - 1) \o f.got
        /\ f.got \in Seq(Bit)
    <3>1. BitsRead(f) = f.got /\ f.got \in Seq(Bit)
      BY <1>2, <1>3, FrameBits
    <3>. QED BY <1>2, <3>1, LastRead
  <2>3. ReadBelow(after, n) = ReadBelow(after, n - 1) \o (f.got \o more)
    <3>1. BitsRead(g) = f.got \o more
      BY <1>1, <1>3, <1>4, FrameBits
    <3>. QED BY <1>2, <1>5, <1>6, <3>1, LastRead
  <2>4. more \in Seq(Bit) /\ SubSeq(s.bits, 1, at) \o more = SubSeq(s.bits, 1, at + k)
    <3>1. at <= at + k /\ at + k \in Nat
      OBVIOUS
    <3>2. /\ SubSeq(s.bits, at + 1, at + k) \in Seq(Bit)
          /\ SubSeq(s.bits, 1, at) \o SubSeq(s.bits, at + 1, at + k) = SubSeq(s.bits, 1, at + k)
      BY <3>1, SplitAt
    <3>. QED BY <3>2 DEF more
  <2>5. (ReadBelow(frames, n - 1) \o f.got) \o more = ReadBelow(frames, n - 1) \o (f.got \o more)
    <3> DEFINE low == ReadBelow(frames, n - 1)
               got == f.got
    <3>1. low \in Seq(Bit) /\ got \in Seq(Bit) /\ more \in Seq(Bit)
      BY <2>2, <2>4
    <3> HIDE DEF low, got
    <3>2. (low \o got) \o more = low \o (got \o more)
      BY <3>1, ConcatAgain
    <3>. QED BY <3>2 DEF low, got
  <2>. QED BY <1>2, <2>1, <2>2, <2>3, <2>4, <2>5
<1>. QED BY <1>2, <1>5, <1>7, <1>8, <1>9 DEF InOrder

(* A new frame for the next part of the one on top.                        *)
GetsFrame(frames, after, T) ==
  LET n == Len(frames)
  IN  /\ Len(after) = n + 1 /\ SomeFrame(after[n + 1]) /\ after[n + 1] = FrameFor(T)
      /\ \A i \in 1 .. n : after[i] = frames[i]

(* All that was read is still in the frames.                               *)
LEMMA DescendInOrder ==
  ASSUME NEW s, NEW frames, NEW at, InOrder(s, frames, at),
         NEW f, f = frames[Len(frames)],
         HeaderDone(f), ~InvalidDeterminant(f), Len(f.parts) < Len(PartsDue(f)),
         NEW after, GetsFrame(frames, after, PartsDue(f)[Len(f.parts) + 1])
  PROVE  InOrder(s, after, at)
<1> DEFINE n == Len(frames)
           g == after[n + 1]
<1>0. /\ Len(after) = n + 1 /\ SomeFrame(g) /\ g = FrameFor(PartsDue(f)[Len(f.parts) + 1])
      /\ g = after[n + 1] /\ \A i \in 1 .. n : after[i] = frames[i]
      /\ n = Len(frames) /\ f = frames[n]
  BY DEF GetsFrame
<1> HIDE DEF n, g
<1>1. g.parts = <<>> /\ g.got = <<>> /\ g.type = PartsDue(f)[Len(f.parts) + 1]
  BY <1>0 DEF FrameFor
<1>2. ReadInOrder(g)
  <2>1. PartsRead(g) = <<>>
    BY <1>1 DEF PartsRead
  <2>2. <<>> \in Seq(Nested)
    OBVIOUS
  <2>. QED BY <1>1, <2>1, <2>2 DEF ReadInOrder
<1> USE <1>0
<1>3. /\ n \in Nat /\ n > 0 /\ n \in 1 .. n
      /\ frames[1].type = s.type /\ ReadBelow(frames, n) = SubSeq(s.bits, 1, at)
      /\ \A i \in 1 .. n : SomeFrame(frames[i]) /\ ReadInOrder(frames[i])
      /\ \A i \in 1 .. n - 1 : WaitsFor(frames[i], frames[i + 1])
  BY DEF InOrder
<1>4. after[n + 1] = g /\ \A i \in 1 .. n : after[i] = frames[i]
  OBVIOUS
<1>5. \A i \in 1 .. n + 1 : SomeFrame(after[i]) /\ ReadInOrder(after[i])
  <2>1. \A i \in 1 .. n + 1 : i = n + 1 \/ i \in 1 .. n
    BY <1>3
  <2>. QED BY <1>3, <1>2, <1>4, <2>1
<1>6. \A i \in 1 .. n : WaitsFor(after[i], after[i + 1])
  <2>1. SUFFICES ASSUME NEW i \in 1 .. n PROVE WaitsFor(after[i], after[i + 1])
    OBVIOUS
  <2>2. CASE i = n
    BY <1>3, <1>1, <1>4, <2>2 DEF WaitsFor
  <2>3. CASE i \in 1 .. n - 1
    <3>1. i + 1 \in 1 .. n
      BY <1>3, <2>3
    <3>. QED BY <1>3, <1>4, <2>3, <3>1
  <2>. QED BY <1>3, <2>2, <2>3
<1>7. after[1].type = s.type
  <2>1. 1 \in 1 .. n
    BY <1>3
  <2>. QED BY <1>3, <1>4, <2>1
<1>8. ReadBelow(after, n + 1) = SubSeq(s.bits, 1, at)
  <2>1. ReadBelow(after, n) = ReadBelow(frames, n)
    BY <1>3, <1>4, ReadBelowSame
  <2>2. BitsRead(g) = <<>>
    BY <1>1, <1>2, FrameBits
  <2> DEFINE m == n + 1
  <2>3. m \in Nat /\ m > 0 /\ m - 1 = n
    BY <1>3
  <2> HIDE DEF m
  <2>4. \A i \in 1 .. m : SomeFrame(after[i]) /\ ReadInOrder(after[i])
    BY <1>5 DEF m
  <2>5. ReadBelow(after, m - 1) \in Seq(Bit)
        /\ ReadBelow(after, m) = ReadBelow(after, m - 1) \o BitsRead(after[m])
    BY <2>3, <2>4, LastRead
  <2>6. after[m] = g
    BY <1>4 DEF m
  <2>7. ReadBelow(after, m) = ReadBelow(after, n)
    BY <2>2, <2>3, <2>5, <2>6, ConcatEmptySeq
  <2>. QED BY <1>3, <2>1, <2>7 DEF m
<1>. QED BY <1>3, <1>5, <1>6, <1>7, <1>8 DEF InOrder

(* The frame on top is whole: its item is accepted.                        *)
LEMMA TopIsAccepted ==
  ASSUME AllItems, NEW s, NEW frames, NEW at, InOrder(s, frames, at),
         NEW n, n = Len(frames), NEW f, f = frames[n],
         Whole(f), ~InvalidDeterminant(f), ~Refuses(f), IsShortest(f)
  PROVE  /\ Made(f) \in Nested /\ Made(f) = Part(f.type, ValueOf(f))
         /\ EncodingOf(Made(f)) = BitsRead(f) /\ BitsRead(f) \in Seq(Bit)
<1>1. SomeFrame(f) /\ ReadInOrder(f)
  BY DEF InOrder
<1>2. Accepts(f)
  BY <1>1 DEF Accepts, ReadInOrder
<1>. QED BY <1>1, <1>2, AcceptedEncodes, FrameBits

(* Its item becomes a part of the frame below.                             *)
GetsPart(frames, after, v) ==
  LET m == Len(frames) - 1  w == frames[m]
  IN  /\ Len(after) = m /\ SomeFrame(after[m])
      /\ after[m] = [type |-> w.type, got |-> w.got, parts |-> Append(w.parts, v)]
      /\ \A i \in 1 .. m - 1 : after[i] = frames[i]

(* All that was read is still in the frames.                               *)
LEMMA FinishInOrder ==
  ASSUME AllItems, NEW s, NEW frames, NEW at, InOrder(s, frames, at), Len(frames) # 1,
         NEW f, f = frames[Len(frames)],
         Whole(f), ~InvalidDeterminant(f), ~Refuses(f), IsShortest(f),
         NEW after, GetsPart(frames, after, ValueOf(f))
  PROVE  InOrder(s, after, at)
<1> DEFINE n == Len(frames)
           m == n - 1
           w == frames[m]
           g == after[m]
<1>0. /\ Len(after) = m /\ SomeFrame(g) /\ f = frames[n]
      /\ g = [type |-> w.type, got |-> w.got, parts |-> Append(w.parts, ValueOf(f))]
      /\ g = after[m] /\ \A i \in 1 .. m - 1 : after[i] = frames[i]
      /\ n = Len(frames) /\ m = n - 1 /\ w = frames[m] /\ n # 1
  BY DEF GetsPart
<1> HIDE DEF n, m, w, g
<1> USE <1>0
<1>1. /\ n \in Nat /\ n > 0 /\ n \in 1 .. n /\ m \in Nat /\ m \in 1 .. n - 1 /\ m + 1 = n
      /\ m \in 1 .. n /\ m \in 1 .. m
      /\ frames[1].type = s.type /\ ReadBelow(frames, n) = SubSeq(s.bits, 1, at)
      /\ \A i \in 1 .. n : SomeFrame(frames[i]) /\ ReadInOrder(frames[i])
      /\ \A i \in 1 .. n - 1 : WaitsFor(frames[i], frames[i + 1])
  BY DEF InOrder
<1>2. SomeFrame(w) /\ ReadInOrder(w) /\ WaitsFor(w, f)
  BY <1>1
<1>3. /\ Made(f) \in Nested /\ Made(f) = Part(f.type, ValueOf(f))
      /\ EncodingOf(Made(f)) = BitsRead(f) /\ BitsRead(f) \in Seq(Bit)
  BY TopIsAccepted
<1>4. g.type = w.type /\ g.got = w.got /\ g.parts = Append(w.parts, ValueOf(f))
  OBVIOUS
<1>5. /\ PartsDue(g) = PartsDue(w) /\ (HeaderDone(g) <=> HeaderDone(w))
      /\ (InvalidDeterminant(g) <=> InvalidDeterminant(w))
  BY <1>4, SameDue
<1>6. PartsRead(g) = Append(PartsRead(w), Made(f))
  <2> DEFINE k == Len(w.parts)
             due == PartsDue(w)
             values == g.parts
             items == PartsRead(w)
             x == PartsRead(g)
             y == Append(items, Made(f))
  <2>1. PICK V : w.parts \in Seq(V)
    BY <1>2 DEF SomeFrame
  <2>2. k \in Nat
    BY <2>1
  <2>3. Len(values) = k + 1 /\ values[k + 1] = ValueOf(f) /\ \A j \in 1 .. k : values[j] = w.parts[j]
    <3> DEFINE v == ValueOf(f)
               p == w.parts
    <3> HIDE DEF v, p
    <3>1. p \in Seq(V \cup {v}) /\ v \in V \cup {v}
      BY <2>1 DEF p
    <3>2. /\ Len(Append(p, v)) = Len(p) + 1 /\ Append(p, v)[Len(p) + 1] = v
          /\ \A j \in 1 .. Len(p) : Append(p, v)[j] = p[j]
      BY <3>1, AppendProperties
    <3>. QED BY <1>4, <3>2 DEF p, v
  <2>4. /\ items \in Seq(Nested) /\ Len(items) = k
        /\ \A j \in 1 .. k : items[j] = Part(due[j], w.parts[j])
    BY <1>2, <2>2 DEF PartsRead, ReadInOrder
  <2>5. x = [j \in 1 .. k + 1 |-> x[j]] /\ \A j \in 1 .. k + 1 : x[j] = Part(due[j], values[j])
    BY <1>5, <2>3 DEF PartsRead
  <2>6. y = [j \in 1 .. k + 1 |-> y[j]] /\ y[k + 1] = Made(f) /\ \A j \in 1 .. k : y[j] = items[j]
    <3> DEFINE it == Made(f)
    <3>1. it \in Nested
      BY <1>3
    <3> HIDE DEF it, items, k
    <3>2. /\ Append(items, it) \in Seq(Nested) /\ Len(Append(items, it)) = k + 1
          /\ Append(items, it)[k + 1] = it /\ \A j \in 1 .. k : Append(items, it)[j] = items[j]
      BY <2>4, <3>1, AppendProperties
    <3> DEFINE z == Append(items, it)
    <3> HIDE DEF z
    <3>3. z = [j \in 1 .. k + 1 |-> z[j]] /\ z[k + 1] = it /\ \A j \in 1 .. k : z[j] = items[j]
      <4>1. z \in Seq(Nested) /\ Len(z) = k + 1 /\ z[k + 1] = it /\ \A j \in 1 .. k : z[j] = items[j]
        BY <3>2 DEF z
      <4>. QED BY <4>1
    <3>. QED BY <3>3 DEF it, z
  <2>7. Made(f) = Part(due[k + 1], ValueOf(f))
    BY <1>2, <1>3 DEF WaitsFor
  <2> HIDE DEF x, y, items, values, due, k
  <2>8. ASSUME NEW j \in 1 .. k + 1 PROVE x[j] = y[j]
    <3>1. CASE j = k + 1
      BY <2>3, <2>5, <2>6, <2>7, <3>1
    <3>2. CASE j \in 1 .. k
      <4>1. y[j] = items[j] /\ items[j] = Part(due[j], w.parts[j])
        BY <2>4, <2>6, <3>2
      <4>2. x[j] = Part(due[j], values[j]) /\ values[j] = w.parts[j]
        BY <2>3, <2>5, <3>2
      <4>. QED BY <4>1, <4>2
    <3>. QED BY <2>2, <3>1, <3>2
  <2>9. x = y
    BY <2>5, <2>6, <2>8
  <2>. QED BY <2>9 DEF x, y, items
<1>7. ReadInOrder(g)
  <2>1. PartsRead(g) \in Seq(Nested)
    <3> DEFINE items == PartsRead(w)
               it == Made(f)
    <3>1. items \in Seq(Nested) /\ it \in Nested
      BY <1>2, <1>3 DEF ReadInOrder
    <3> HIDE DEF items, it
    <3>2. Append(items, it) \in Seq(Nested)
      BY <3>1, AppendProperties
    <3>. QED BY <1>6, <3>2 DEF items, it
  <2>2. HeaderDone(g) /\ ~InvalidDeterminant(g)
    BY <1>2, <1>5 DEF WaitsFor
  <2>3. Len(g.parts) <= Len(PartsDue(g))
    <3>1. PICK V : w.parts \in Seq(V)
      BY <1>2 DEF SomeFrame
    <3>2. Len(w.parts) \in Nat /\ Len(g.parts) = Len(w.parts) + 1
      BY <1>4, <3>1, AppendProperties
    <3>3. Len(PartsDue(w)) \in Nat
      <4>1. PartsDue(w) \in Seq(Types)
        BY <1>2, PartsHaveTypes DEF WaitsFor
      <4>. QED BY <4>1
    <3>4. Len(w.parts) < Len(PartsDue(w))
      BY <1>2 DEF WaitsFor
    <3>. QED BY <1>5, <3>2, <3>3, <3>4
  <2>. QED BY <2>1, <2>2, <2>3 DEF ReadInOrder
<1>8. BitsRead(g) = BitsRead(w) \o BitsRead(f)
  <2> DEFINE items == PartsRead(w)
             own == w.got
             rest == BitsRead(f)
  <2>1. items \in Seq(Nested)
    BY <1>2 DEF ReadInOrder
  <2>2. Joined(Append(items, Made(f))) = Joined(items) \o EncodingOf(Made(f))
    <3>. HIDE DEF items
    <3>. QED BY <1>3, <2>1, JoinedGrows
  <2>3. own \in Seq(Bit) /\ Joined(items) \in Seq(Bit) /\ rest \in Seq(Bit)
    BY <1>2, <1>3, FrameBits
  <2>4. BitsRead(g) = own \o (Joined(items) \o rest)
    BY <1>3, <1>4, <1>6, <2>2 DEF BitsRead
  <2>5. BitsRead(w) = own \o Joined(items)
    BY DEF BitsRead
  <2> HIDE DEF own, items, rest
  <2>6. own \o (Joined(items) \o rest) = (own \o Joined(items)) \o rest
    BY <2>3, ConcatAgain
  <2>. QED BY <2>4, <2>5, <2>6 DEF rest
<1>9. after[m] = g /\ \A i \in 1 .. m - 1 : after[i] = frames[i]
  OBVIOUS
<1>10. \A i \in 1 .. m : SomeFrame(after[i]) /\ ReadInOrder(after[i])
  <2>1. \A i \in 1 .. m : i \in 1 .. n /\ (i = m \/ i \in 1 .. m - 1)
    BY <1>1
  <2>. QED BY <1>1, <1>7, <2>1
<1>11. \A i \in 1 .. m - 1 : WaitsFor(after[i], after[i + 1])
  <2>1. SUFFICES ASSUME NEW i \in 1 .. m - 1 PROVE WaitsFor(after[i], after[i + 1])
    OBVIOUS
  <2>2. WaitsFor(frames[i], frames[i + 1]) /\ after[i] = frames[i]
    <3>1. i \in 1 .. n - 1
      BY <1>1
    <3>. QED BY <1>1, <1>9, <3>1
  <2>3. after[i + 1].type = frames[i + 1].type
    <3>1. CASE i + 1 = m
      BY <1>4, <1>9, <3>1
    <3>2. CASE i + 1 \in 1 .. m - 1
      BY <1>9, <3>2
    <3>. QED BY <1>1, <3>1, <3>2
  <2>. QED BY <2>2, <2>3 DEF WaitsFor
<1>12. after[1].type = s.type
  <2>1. CASE m = 1
    BY <1>1, <1>4, <1>9, <2>1
  <2>2. CASE 1 \in 1 .. m - 1
    BY <1>1, <1>9, <2>2
  <2>. QED BY <1>1, <2>1, <2>2
<1>13. ReadBelow(after, m) = SubSeq(s.bits, 1, at)
  <2> DEFINE low == ReadBelow(frames, m - 1)
             x == BitsRead(w)
             y == BitsRead(f)
  <2>1. \A i \in 1 .. m : SomeFrame(frames[i]) /\ ReadInOrder(frames[i])
    <3>1. \A i \in 1 .. m : i \in 1 .. n
      BY <1>1
    <3>. QED BY <1>1, <3>1
  <2>2. low \in Seq(Bit) /\ x \in Seq(Bit) /\ ReadBelow(frames, m) = low \o x
    <3>1. m \in Nat /\ m > 0
      BY <1>1
    <3>. QED BY <2>1, <3>1, LastRead
  <2>3. y \in Seq(Bit) /\ ReadBelow(frames, n) = ReadBelow(frames, m) \o y
    BY <1>1, LastRead
  <2>4. ReadBelow(after, m - 1) = low
    <3>1. m - 1 \in Nat
      BY <1>1
    <3>. QED BY <1>9, <3>1, ReadBelowSame
  <2>5. ReadBelow(after, m) = ReadBelow(after, m - 1) \o (x \o y)
    <3>1. m \in Nat /\ m > 0
      BY <1>1
    <3>2. ReadBelow(after, m) = ReadBelow(after, m - 1) \o BitsRead(after[m])
      BY <1>10, <3>1, LastRead
    <3>3. BitsRead(after[m]) = x \o y
      BY <1>8
    <3>. QED BY <3>2, <3>3
  <2> HIDE DEF low, x, y
  <2>6. (low \o x) \o y = low \o (x \o y)
    BY <2>2, <2>3, ConcatAgain
  <2>. QED BY <1>1, <2>2, <2>3, <2>4, <2>5, <2>6
<1>. QED BY <1>1, <1>10, <1>11, <1>12, <1>13 DEF InOrder

(* The last item is the one that was read from the stream.                 *)
LEMMA EndInOrder ==
  ASSUME AllItems, NEW s, NEW frames, NEW at, InOrder(s, frames, at), Len(frames) = 1,
         NEW f, f = frames[1], Whole(f), ~InvalidDeterminant(f), ~Refuses(f), IsShortest(f)
  PROVE  EncodingOf([type |-> s.type, value |-> ValueOf(f)]) = SubSeq(s.bits, 1, at)
<1>1. /\ f.type = s.type /\ ReadBelow(frames, 1) = SubSeq(s.bits, 1, at)
      /\ \A i \in 1 .. 1 : SomeFrame(frames[i]) /\ ReadInOrder(frames[i])
  BY DEF InOrder
<1>2. /\ Made(f) = Part(f.type, ValueOf(f))
      /\ EncodingOf(Made(f)) = BitsRead(f) /\ BitsRead(f) \in Seq(Bit)
  BY TopIsAccepted
<1>3. ReadBelow(frames, 1) = BitsRead(f)
  <2>1. /\ ReadBelow(frames, 0) = <<>>
        /\ ReadBelow(frames, 1) = ReadBelow(frames, 1 - 1) \o BitsRead(frames[1])
    BY <1>1, LastRead
  <2>2. 1 - 1 = 0
    OBVIOUS
  <2>. QED BY <1>2, <2>1, <2>2, ConcatEmptySeq
<1>. QED BY <1>1, <1>2, <1>3 DEF Part

(* It is so of a new deserializer.                                         *)
LEMMA InitInOrder ==
  ASSUME NEW s, s.type \in Types, s.bits \in Seq(Bit)
  PROVE  InOrder(s, <<FrameFor(s.type)>>, 0)
<1> DEFINE f == FrameFor(s.type)
           frames == <<f>>
<1>1. SomeFrame(f) /\ f.parts = <<>> /\ f.got = <<>> /\ f.type = s.type
  BY NewFrame DEF FrameFor
<1>2. ReadInOrder(f)
  <2>1. PartsRead(f) = <<>>
    BY <1>1 DEF PartsRead
  <2>. QED BY <1>1, <2>1 DEF ReadInOrder
<1> HIDE DEF f
<1>3. Len(frames) = 1 /\ frames[1] = f /\ 1 .. Len(frames) - 1 = {}
  OBVIOUS
<1> HIDE DEF frames
<1>4. \A i \in 1 .. 1 : SomeFrame(frames[i]) /\ ReadInOrder(frames[i])
  BY <1>1, <1>2, <1>3
<1>5. ReadBelow(frames, 1) = <<>>
  <2>1. /\ ReadBelow(frames, 0) = <<>>
        /\ ReadBelow(frames, 1) = ReadBelow(frames, 1 - 1) \o BitsRead(frames[1])
    BY <1>4, LastRead
  <2>2. BitsRead(f) = <<>>
    BY <1>1, <1>2, FrameBits
  <2>3. 1 - 1 = 0 /\ <<>> \in Seq(Bit)
    OBVIOUS
  <2>. QED BY <1>3, <2>1, <2>2, <2>3, ConcatEmptySeq
<1>6. SubSeq(s.bits, 1, 0) = <<>>
  OBVIOUS
<1>7. InOrder(s, frames, 0)
  <2>1. \A i \in 1 .. Len(frames) - 1 : WaitsFor(frames[i], frames[i + 1])
    BY <1>3
  <2>2. ReadBelow(frames, Len(frames)) = SubSeq(s.bits, 1, 0)
    BY <1>3, <1>5, <1>6
  <2>. QED BY <1>1, <1>3, <1>4, <2>1, <2>2 DEF InOrder
<1>. QED BY <1>7 DEF frames, f

(* No deserializer at work has read a quantity that is longer than need be *)
(* (what bitbuf-vlq makes of such a one is not in src/).                   *)
ShortestForms == \A i \in 1 .. Len(stack) : IsShortest(stack[i])

NoiseInv ==
  /\ outcome # "Ready" => InOrder(stream, stack, pos)
  /\ Canonical

(* The invariant over noise, in the beginning and step by step.            *)
LEMMA InitNoise == Init => NoiseInv
<1> SUFFICES ASSUME Init PROVE NoiseInv
  OBVIOUS
<1>1. /\ stream \in Streams /\ stack = <<FrameFor(stream.type)>> /\ pos = 0 /\ outcome = "New"
  BY DEF Init
<1>2. stream.type \in Types /\ stream.bits \in Seq(Bit)
  BY <1>1, DeserializerConstants DEF Bit
<1>. QED BY <1>1, <1>2, InitInOrder DEF NoiseInv, Canonical

(* Bits that are read go to the frame on top.                              *)
LEMMA FillKeepsNoise ==
  ASSUME TypedInv, NoiseInv, Fill
  PROVE  NoiseInv'
<1> DEFINE k == IF Missing(Top) < room THEN Missing(Top) ELSE room
           f == Top
           n == Len(stack)
           more == SubSeq(stream.bits, pos + 1, pos + k)
           g == [f EXCEPT !.got = f.got \o more]
           h == [type |-> f.type, got |-> f.got \o more, parts |-> f.parts]
<1>1. /\ outcome = "Running" /\ Missing(f) > 0 /\ room > 0
      /\ stack' = [stack EXCEPT ![n] = g] /\ pos' = pos + k
      /\ UNCHANGED <<stream, outcome, result>>
  BY DEF Fill, WithTop, Running
<1>2. /\ n \in Nat /\ n \in 1 .. n /\ SomeFrame(f) /\ Missing(f) \in Nat /\ f = stack[n]
  BY <1>1, TopTyped DEF TypedInv, Top
<1>3. /\ stream.bits \in Seq(Bit) /\ Len(stream.bits) \in Nat /\ pos \in Nat /\ room \in Nat
      /\ pos + room <= Len(stream.bits)
  BY <1>1 DEF TypedInv
<1>4. k \in Nat /\ pos + k <= Len(stream.bits)
  BY <1>1, <1>2, <1>3
<1>5. TypedInv'
  BY FillKeepsTypes
<1>6. InOrder(stream, stack, pos) /\ ~HeaderDone(f)
  BY <1>1 DEF NoiseInv, HeaderDone
<1> HIDE DEF k, more, f
<1>7. g = h
  <2>1. f = [type |-> f.type, got |-> f.got, parts |-> f.parts]
    BY <1>2 DEF SomeFrame
  <2>. QED BY <2>1
<1> HIDE DEF g, h
<1>8. PICK S : stack \in Seq(S)
  BY DEF TypedInv
<1>9. Len(stack') = n /\ \A i \in 1 .. n : stack'[i] = IF i = n THEN g ELSE stack[i]
  BY <1>1, <1>2, <1>8, OneReplaced
<1>10. SomeFrame(h)
  BY <1>2, <1>5, <1>7, <1>9 DEF TypedInv
<1>11. InOrder(stream, stack', pos + k)
  <2>1. GetsBits(stack, stack', more)
    <3>1. \A i \in 1 .. n - 1 : i \in 1 .. n /\ i # n
      BY <1>2
    <3>. QED BY <1>2, <1>7, <1>9, <1>10, <3>1 DEF GetsBits, h
  <2>2. ~HeaderDone(stack[Len(stack)]) /\ InOrder(stream, stack, pos)
    BY <1>2, <1>6
  <2> DEFINE after == stack'
  <2>3. GetsBits(stack, after, SubSeq(stream.bits, pos + 1, pos + k))
    BY <2>1 DEF more
  <2> HIDE DEF n, after
  <2>4. InOrder(stream, after, pos + k)
    BY <1>3, <1>4, <2>2, <2>3, FillInOrder
  <2>. QED BY <2>4 DEF after
<1>. QED BY <1>1, <1>11 DEF NoiseInv, Canonical

(* A new frame has none yet.                                               *)
LEMMA DescendKeepsNoise ==
  ASSUME TypedInv, NoiseInv, Descend
  PROVE  NoiseInv'
<1> DEFINE f == Top
           g == FrameFor(PartsDue(f)[Len(f.parts) + 1])
           n == Len(stack)
<1>1. /\ outcome = "Running" /\ HeaderDone(f) /\ ~InvalidDeterminant(f)
      /\ Len(f.parts) < Len(PartsDue(f))
      /\ stack' = Append(stack, g) /\ UNCHANGED <<stream, pos, room, outcome, result>>
  BY DEF Descend, Running
<1>2. n \in Nat /\ f = stack[n] /\ InOrder(stream, stack, pos)
  BY <1>1, TopTyped DEF TypedInv, NoiseInv, Top
<1>3. TypedInv'
  BY DescendKeepsTypes
<1>4. PICK S : stack \in Seq(S)
  BY DEF TypedInv
<1> HIDE DEF f, g
<1>5. /\ Len(stack') = n + 1 /\ n + 1 \in 1 .. n + 1
      /\ \A i \in 1 .. n + 1 : stack'[i] = IF i = n + 1 THEN g ELSE stack[i]
  BY <1>1, <1>2, <1>4
<1>6. SomeFrame(g)
  BY <1>3, <1>5 DEF TypedInv
<1>7. InOrder(stream, stack', pos)
  <2>1. GetsFrame(stack, stack', PartsDue(f)[Len(f.parts) + 1])
    <3>1. \A i \in 1 .. n : i \in 1 .. n + 1 /\ i # n + 1
      BY <1>2
    <3>. QED BY <1>5, <1>6, <3>1 DEF GetsFrame, g
  <2> DEFINE after == stack'
  <2>2. GetsFrame(stack, after, PartsDue(f)[Len(f.parts) + 1])
    BY <2>1
  <2>3. InOrder(stream, stack, pos) /\ f = stack[Len(stack)]
    BY <1>2
  <2> HIDE DEF n, after
  <2>4. InOrder(stream, after, pos)
    BY <1>1, <2>2, <2>3, DescendInOrder
  <2>. QED BY <2>4 DEF after
<1>. QED BY <1>1, <1>7 DEF NoiseInv, Canonical

(* A whole one hands its item, and with it its bits, to the one below.     *)
LEMMA FinishKeepsNoise ==
  ASSUME AllItems, TypedInv, ShortestForms, NoiseInv, Finish
  PROVE  NoiseInv'
<1> DEFINE f == Top
           v == ValueOf(f)
           n == Len(stack)
<1>1. /\ outcome = "Running" /\ UNCHANGED <<stream, pos, room>>
      /\ Whole(f) /\ ~InvalidDeterminant(f) /\ ~Refuses(f)
  BY DEF Finish, Running
<1>2. /\ n \in Nat /\ n \in 1 .. n /\ f = stack[n] /\ InOrder(stream, stack, pos)
      /\ IsShortest(f)
  BY <1>1, TopTyped DEF TypedInv, NoiseInv, Top, ShortestForms
<1>3. PICK S : stack \in Seq(S)
  BY DEF TypedInv
<1>4. TypedInv'
  BY FinishKeepsTypes
<1>5. CASE n = 1
  <2>1. stack' = <<>> /\ result' = <<v>> /\ outcome' = "Ready"
    BY <1>5 DEF Finish
  <2>2. EncodingOf([type |-> stream.type, value |-> v]) = SubSeq(stream.bits, 1, pos)
    <3>. HIDE DEF f
    <3>. QED BY <1>1, <1>2, <1>5, EndInOrder
  <2>3. result'[1] = v
    BY <2>1
  <2>. QED BY <1>1, <2>1, <2>2, <2>3 DEF NoiseInv, Canonical
<1>6. CASE n # 1
  <2> DEFINE m == n - 1
             below == SubSeq(stack, 1, m)
             w == below[m]
             g == [w EXCEPT !.parts = Append(w.parts, v)]
             h == [type |-> w.type, got |-> w.got, parts |-> Append(w.parts, v)]
  <2>1. stack' = [below EXCEPT ![m] = g] /\ UNCHANGED <<result, outcome>>
    BY <1>6 DEF Finish
  <2>2. m \in Nat /\ m \in 1 .. n /\ m > 0 /\ m <= n /\ m = n - 1
    <3>1. n \in Nat /\ n # 1 /\ n >= 1
      BY <1>2, <1>6
    <3>. HIDE DEF n
    <3>. QED BY <3>1
  <2>. HIDE DEF m, v, f
  <2>3. below \in Seq(S) /\ Len(below) = m /\ \A i \in 1 .. m : below[i] = stack[i]
    BY <1>2, <1>3, <2>2
  <2>. HIDE DEF below
  <2>4. w = stack[m] /\ SomeFrame(w) /\ m \in 1 .. Len(below) /\ m \in 1 .. m
    BY <2>2, <2>3 DEF TypedInv
  <2>. HIDE DEF w
  <2>5. g = h
    <3>1. w = [type |-> w.type, got |-> w.got, parts |-> w.parts]
      BY <2>4 DEF SomeFrame
    <3>. QED BY <3>1
  <2>. HIDE DEF g, h
  <2>6. Len(stack') = m /\ \A i \in 1 .. m : stack'[i] = IF i = m THEN g ELSE below[i]
    BY <2>1, <2>3, <2>4, OneReplaced
  <2>7. SomeFrame(h)
    BY <1>4, <2>4, <2>5, <2>6 DEF TypedInv
  <2>8. \A i \in 1 .. m : stack'[i] = IF i = m THEN h ELSE stack[i]
    BY <2>3, <2>5, <2>6
  <2>9. InOrder(stream, stack', pos)
    <3>1. GetsPart(stack, stack', ValueOf(f))
      <4>1. \A i \in 1 .. m - 1 : i \in 1 .. m /\ i # m
        BY <2>2
      <4>2. m = Len(stack) - 1
        BY <2>2
      <4>. QED BY <2>4, <2>6, <2>7, <2>8, <4>1, <4>2 DEF GetsPart, h, v
    <3> DEFINE after == stack'
    <3>2. GetsPart(stack, after, ValueOf(f))
      BY <3>1
    <3>3. InOrder(stream, stack, pos) /\ Len(stack) # 1 /\ f = stack[Len(stack)]
      BY <1>2, <1>6
    <3> HIDE DEF n, after
    <3>4. InOrder(stream, after, pos)
      BY <1>1, <1>2, <3>2, <3>3, FinishInOrder
    <3>. QED BY <3>4 DEF after
  <2>. QED BY <1>1, <2>1, <2>9 DEF NoiseInv, Canonical
<1>. QED BY <1>5, <1>6

(* Every other step leaves the frames alone.                               *)
LEMMA StepKeepsNoise ==
  ASSUME AllItems, TypedInv, ShortestForms, NoiseInv, [Next]_vars
  PROVE  NoiseInv'
<1>1. CASE Fill
  BY <1>1, FillKeepsNoise
<1>2. CASE Descend
  BY <1>2, DescendKeepsNoise
<1>3. CASE Finish
  BY <1>3, FinishKeepsNoise
<1>4. CASE Insufficient \/ Suspend \/ Fail \/ Panic
  BY <1>4 DEF NoiseInv, Canonical, Insufficient, Suspend, Fail, Panic, Running
<1>5. ASSUME NEW r \in Pieces, Poll(r) PROVE NoiseInv'
  BY <1>5 DEF NoiseInv, Canonical, Poll
<1>6. CASE UNCHANGED vars
  BY <1>6 DEF NoiseInv, Canonical, vars
<1>. QED BY <1>1, <1>2, <1>3, <1>4, <1>5, <1>6 DEF Next, LoopTurn

(* Whatever bits are read, be they noise: a value that is accepted is one  *)
(* whose encoding those bits are, as long as every length in them stands   *)
(* in its shortest form.  Nothing is read that is not used, no two streams *)
(* stand for a value, and what is passed on is written as it was read.     *)
THEOREM DeserializerCanonical ==
  ASSUME AllItems
  PROVE  Spec /\ []ShortestForms => []Canonical
<1>1. TypedInv /\ ShortestForms /\ NoiseInv /\ [Next]_vars => NoiseInv'
  BY StepKeepsNoise
<1>2. NoiseInv => Canonical
  BY DEF NoiseInv
<1>. QED BY <1>1, <1>2, InitTyped, StepKeepsTypes, InitNoise, PTL DEF Spec

-----------------------------------------------------------------------------
(* The contract over noise.                                                *)

(* What noise begins with, be it the encoding of a value, is read as if    *)
(* that value had been sent.                                               *)
Begins(s, v) ==
  LET it == [type |-> s.type, value |-> v]
  IN  it \in Nested /\ IsPrefix(EncodingOf(it), s.bits) /\ s.size = Len(EncodingOf(it))
AsIfSent(s, v) == [type |-> s.type, sent |-> <<v>>, size |-> s.size, bits |-> s.bits]

(* The streams differ only in what was sent on them, and no step sees that. *)
LEMMA BeginsCarries ==
  ASSUME NEW s, NEW v, Begins(s, v), s.bits \in Seq(Bit)
  PROVE  LET t == AsIfSent(s, v)
         IN  /\ Carries(t) /\ t.sent = <<v>> /\ t.type = s.type
             /\ t.bits = s.bits /\ t.size = s.size
             /\ AllBits(t) = s.bits
<1> DEFINE t == AsIfSent(s, v)
           it == [type |-> s.type, value |-> v]
<1>1. /\ t.sent = <<v>> /\ t.type = s.type /\ t.bits = s.bits /\ t.size = s.size
      /\ t.sent = <<t.sent[1]>> /\ SentOn(t) = it
  BY DEF AsIfSent, SentOn
<1>2. it \in Nested /\ IsPrefix(EncodingOf(it), s.bits) /\ s.size = Len(EncodingOf(it))
  BY DEF Begins
<1> HIDE DEF t, it
<1>3. Carries(t)
  BY <1>1, <1>2 DEF Carries, IsSent
<1>4. AllBits(t) = s.bits
  <2>1. EncodingOf(it) \in Seq(Bit)
    BY <1>2, PartsInPlace
  <2> DEFINE e == EncodingOf(it)
             bits == s.bits
  <2>2. e \in Seq(Bit) /\ bits \in Seq(Bit) /\ IsPrefix(e, bits)
    BY <1>2, <2>1
  <2>. HIDE DEF e, bits
  <2>3. Len(e) <= Len(bits)
    BY <2>2, PrefixFacts
  <2>. QED BY <1>1, <1>2, <2>3 DEF AllBits, e, bits
<1>. QED BY <1>1, <1>3, <1>4 DEF t

(* What holds of the deserializers then.                                   *)
OnItsWay(v) ==
  /\ outcome \notin {"Error", "Panic"}
  /\ outcome # "Ready" => \E sources : Placed(AsIfSent(stream, v), sources, stack, pos)
  /\ outcome = "Ready" => pos = stream.size
GuidedInv == \A v : Begins(stream, v) => OnItsWay(v)

(* A new deserializer is on its way.                                       *)
LEMMA InitGuided == Init => GuidedInv
<1> SUFFICES ASSUME Init, NEW v, Begins(stream, v) PROVE OnItsWay(v)
  BY DEF GuidedInv
<1> DEFINE t == AsIfSent(stream, v)
<1>1. stream.bits \in Seq(Bit)
  BY InitTyped DEF TypedInv
<1>2. Carries(t) /\ t.type = stream.type
  BY <1>1, BeginsCarries
<1> HIDE DEF t
<1>3. \E sources : Placed(t, sources, <<FrameFor(t.type)>>, 0)
  BY <1>2, InitReads
<1>. QED BY <1>2, <1>3 DEF OnItsWay, Init, t

(* What the frame on top lacks is then among the bits of that value, and   *)
(* it does not refuse it.                                                  *)
LEMMA GuidedTop ==
  ASSUME AllReadable, TypedInv, NEW v, Begins(stream, v), OnItsWay(v), Running
  PROVE  /\ ~InvalidDeterminant(Top) /\ ~Refuses(Top)
         /\ Missing(Top) > 0 => pos + Missing(Top) <= stream.size
<1> DEFINE t == AsIfSent(stream, v)
           f == Top
<1>1. Carries(t) /\ t.size = stream.size
  BY BeginsCarries DEF TypedInv
<1> HIDE DEF t
<1>2. PICK sources : Placed(t, sources, stack, pos)
  BY DEF OnItsWay, Running, t
<1> DEFINE it == sources[Len(stack)].item
<1>3. f = stack[Len(stack)] /\ f \in Frames /\ AtItsPlace(t, f, sources[Len(stack)])
  BY <1>2, TopReads DEF Top
<1> HIDE DEF f
<1>4. it \in Nested /\ Readable(it) /\ ReadsItem(f, it)
  BY <1>3 DEF AtItsPlace, AllReadable
<1> HIDE DEF it
<1>5. ~InvalidDeterminant(f) /\ ~Refuses(f)
  BY <1>3, <1>4, FrameReads
<1>6. ASSUME Missing(f) > 0 PROVE pos + Missing(f) <= t.size
  <2>1. ~HeaderDone(f)
    BY <1>6, TopTyped DEF HeaderDone, f, TypedInv, Running
  <2>. QED BY <1>1, <1>2, <1>3, <2>1, PlacedRoom
<1>. QED BY <1>1, <1>5, <1>6 DEF f

(* Fill,                                                                   *)
LEMMA FillGuided ==
  ASSUME AllReadable, TypedInv, NEW v, Begins(stream, v), OnItsWay(v), Fill
  PROVE  OnItsWay(v)'
<1> DEFINE k == IF Missing(Top) < room THEN Missing(Top) ELSE room
           t == AsIfSent(stream, v)
           g == [Top EXCEPT !.got = Top.got \o SubSeq(stream.bits, pos + 1, pos + k)]
           after == [stack EXCEPT ![Len(stack)] = g]
<1>1. /\ Running /\ Missing(Top) > 0 /\ room > 0
      /\ stack' = after /\ pos' = pos + k
      /\ UNCHANGED <<stream, outcome>>
  BY DEF Fill, WithTop
<1>2. Missing(Top) \in Nat /\ ~HeaderDone(Top) /\ room \in Nat /\ Top = stack[Len(stack)]
  BY <1>1, TopTyped DEF TypedInv, HeaderDone, Running, Top
<1>3. k \in 1 .. Missing(Top)
  BY <1>1, <1>2
<1>4. Carries(t) /\ AllBits(t) = stream.bits
  BY BeginsCarries DEF TypedInv
<1> HIDE DEF k, t
<1>5. PICK sources : Placed(t, sources, stack, pos)
  BY <1>1 DEF OnItsWay, Running, t
<1>6. \E more : Placed(t, more, after, pos + k)
  BY <1>2, <1>3, <1>4, <1>5, PlacedFill
<1> HIDE DEF after
<1>7. outcome' = "Running"
  BY <1>1 DEF Running
<1>8. t = AsIfSent(stream', v)
  BY <1>1 DEF t
<1>9. \E more : Placed(AsIfSent(stream', v), more, stack', pos')
  BY <1>1, <1>6, <1>8
<1>. QED BY <1>7, <1>9 DEF OnItsWay

(* Descend                                                                 *)
LEMMA DescendGuided ==
  ASSUME AllReadable, TypedInv, NEW v, Begins(stream, v), OnItsWay(v), Descend
  PROVE  OnItsWay(v)'
<1> DEFINE t == AsIfSent(stream, v)
           after == Append(stack, FrameFor(PartsDue(Top)[Len(Top.parts) + 1]))
<1>1. /\ Running /\ HeaderDone(Top) /\ Len(Top.parts) < Len(PartsDue(Top))
      /\ stack' = after /\ UNCHANGED <<stream, pos, outcome>>
  BY DEF Descend
<1>2. Carries(t)
  BY BeginsCarries DEF TypedInv
<1> HIDE DEF t
<1>3. PICK sources : Placed(t, sources, stack, pos)
  BY <1>1 DEF OnItsWay, Running, t
<1>4. \E more : Placed(t, more, after, pos)
  <2>1. Top = stack[Len(stack)]
    BY DEF Top
  <2>. QED BY <1>1, <1>2, <1>3, <2>1, PlacedDescend
<1> HIDE DEF after
<1>5. outcome' = "Running"
  BY <1>1 DEF Running
<1>6. t = AsIfSent(stream', v)
  BY <1>1 DEF t
<1>7. \E more : Placed(AsIfSent(stream', v), more, stack', pos')
  BY <1>1, <1>4, <1>6
<1>. QED BY <1>5, <1>7 DEF OnItsWay

(* and Finish do to the frames what they do on the other stream.           *)
LEMMA FinishGuided ==
  ASSUME AllReadable, TypedInv, NEW v, Begins(stream, v), OnItsWay(v), Finish
  PROVE  OnItsWay(v)'
<1> DEFINE t == AsIfSent(stream, v)
<1>1. Running /\ Whole(Top) /\ UNCHANGED <<stream, pos>>
  BY DEF Finish
<1>2. Carries(t) /\ t.size = stream.size
  BY BeginsCarries DEF TypedInv
<1> HIDE DEF t
<1>3. PICK sources : Placed(t, sources, stack, pos)
  BY <1>1 DEF OnItsWay, Running, t
<1>4. Top = stack[Len(stack)]
  BY DEF Top
<1>5. CASE Len(stack) = 1
  <2>1. outcome' = "Ready"
    BY <1>5 DEF Finish
  <2>2. pos = t.size
    BY <1>1, <1>2, <1>3, <1>4, <1>5, PlacedEnd
  <2>. QED BY <1>1, <1>2, <2>1, <2>2 DEF OnItsWay
<1>6. CASE Len(stack) # 1
  <2> DEFINE after == [SubSeq(stack, 1, Len(stack) - 1)
                         EXCEPT ![Len(stack) - 1].parts = Append(@, ValueOf(Top))]
  <2>1. stack' = after /\ outcome' = "Running"
    BY <1>1, <1>6 DEF Finish, Running
  <2>2. \E fewer : Placed(t, fewer, after, pos)
    BY <1>1, <1>2, <1>3, <1>4, <1>6, PlacedFinish
  <2>. HIDE DEF after
  <2>3. t = AsIfSent(stream', v)
    BY <1>1 DEF t
  <2>4. \E fewer : Placed(AsIfSent(stream', v), fewer, stack', pos')
    BY <1>1, <2>1, <2>2, <2>3
  <2>. QED BY <2>1, <2>4 DEF OnItsWay
<1>. QED BY <1>5, <1>6

(* It is inductive.                                                        *)
LEMMA StepKeepsGuided ==
  ASSUME AllReadable, TypedInv, GuidedInv, [Next]_vars
  PROVE  GuidedInv'
<1>1. stream' = stream
  BY DEF Next, LoopTurn, Poll, Fill, Insufficient, Suspend, Descend, Finish, Fail, Panic, vars
<1> SUFFICES ASSUME NEW v, Begins(stream, v) PROVE OnItsWay(v)'
  BY <1>1 DEF GuidedInv
<1>2. OnItsWay(v)
  BY DEF GuidedInv
<1>3. CASE Fill
  BY <1>2, <1>3, FillGuided
<1>4. CASE Descend
  BY <1>2, <1>4, DescendGuided
<1>5. CASE Finish
  BY <1>2, <1>5, FinishGuided
<1>6. CASE Fail \/ Panic
  BY <1>2, <1>6, GuidedTop DEF Fail, Panic
<1>7. CASE Insufficient \/ Suspend
  BY <1>2, <1>7 DEF OnItsWay, Insufficient, Suspend, Running
<1>8. ASSUME NEW r \in Pieces, Poll(r) PROVE OnItsWay(v)'
  BY <1>2, <1>8 DEF OnItsWay, Poll
<1>9. CASE UNCHANGED vars
  BY <1>2, <1>9 DEF OnItsWay, vars
<1>. QED BY <1>3, <1>4, <1>5, <1>6, <1>7, <1>8, <1>9 DEF Next, LoopTurn

(* The contract counts the bits of the item, of which noise may have none: *)
(* then there is no end to reach.                                          *)
SizesGiven ==
  \A s \in Streams :
    s.sent = <<>> =>
      /\ s.size \in Nat
      /\ \/ \E v : Begins(s, v)
         \/ /\ Len(s.bits) < s.size
            /\ \A it \in Nested : it.type = s.type => ~IsPrefix(EncodingOf(it), s.bits)

(* If no item begins the stream, none is accepted.                         *)
LEMMA NothingToAccept ==
  ASSUME AllItems, TypedInv, NoiseInv, ShortestForms, Finish,
         \A it \in Nested : it.type = stream.type => ~IsPrefix(EncodingOf(it), stream.bits)
  PROVE  outcome' = outcome
<1> DEFINE f == Top
           it == [type |-> stream.type, value |-> ValueOf(f)]
<1> SUFFICES ASSUME Len(stack) = 1 PROVE FALSE
  BY DEF Finish
<1>1. /\ outcome = "Running" /\ Whole(f) /\ ~InvalidDeterminant(f) /\ ~Refuses(f)
  BY DEF Finish, Running
<1>2. /\ f = stack[1] /\ InOrder(stream, stack, pos) /\ IsShortest(f)
  BY <1>1, TopTyped DEF TypedInv, NoiseInv, Top, ShortestForms
<1>3. f.type = stream.type /\ Made(f) = Part(f.type, ValueOf(f)) /\ Made(f) \in Nested
  <2>. HIDE DEF f
  <2>. QED BY <1>1, <1>2, TopIsAccepted, AcceptedEncodes DEF InOrder
<1>4. EncodingOf(it) = SubSeq(stream.bits, 1, pos)
  <2>. HIDE DEF f
  <2>. QED BY <1>1, <1>2, EndInOrder
<1>5. it \in Nested
  BY <1>3 DEF Part
<1>6. IsPrefix(SubSeq(stream.bits, 1, pos), stream.bits)
  <2> DEFINE bits == stream.bits
  <2>1. bits \in Seq(Bit) /\ pos \in Nat /\ pos <= Len(bits)
    BY DEF TypedInv
  <2>. HIDE DEF bits
  <2>. QED BY <2>1 DEF IsPrefix, bits
<1>. QED BY <1>4, <1>5, <1>6

(* Every step over noise is one that the contract allows, too.             *)
LEMMA NoiseKeepsContract ==
  ASSUME AllReadable, AllItems, SizesGiven, stream \in Streams, stream.sent = <<>>,
         TypedInv, ShortestForms, NoiseInv, GuidedInv, [Next]_vars
  PROVE  [Contract!Next]_(Contract!vars)
<1> USE DEF Contract!vars
<1> DEFINE NothingBegins ==
             /\ Len(stream.bits) < stream.size
             /\ \A it \in Nested : it.type = stream.type => ~IsPrefix(EncodingOf(it), stream.bits)
           lacks == Missing(Top)
           len == Len(stream.bits)
<1>0. /\ stream.size \in Nat /\ pos \in Nat /\ room \in Nat /\ len \in Nat /\ pos <= len
      /\ outcome = "Running" => pos + room <= len
      /\ NothingBegins \/ \E v : Begins(stream, v)
  BY DEF SizesGiven, TypedInv
<1>1. ASSUME Running, lacks > 0
      PROVE  lacks \in Nat /\ (NothingBegins \/ pos + lacks <= stream.size)
  <2>1. lacks \in Nat
    BY <1>1, TopTyped DEF TypedInv, Running
  <2>2. ASSUME NEW v, Begins(stream, v) PROVE pos + lacks <= stream.size
    BY <1>1, <2>2, GuidedTop DEF GuidedInv
  <2>. QED BY <1>0, <2>1, <2>2
<1>2. CASE Fill
  <2> DEFINE k == IF lacks < room THEN lacks ELSE room
  <2>1. /\ Running /\ lacks > 0 /\ room > 0 /\ pos' = pos + k /\ room' = room - k
        /\ UNCHANGED <<stream, outcome>>
    BY <1>2 DEF Fill
  <2>2. lacks \in Nat /\ (NothingBegins \/ pos + lacks <= stream.size)
    BY <1>1, <2>1
  <2>3. len < stream.size \/ pos + lacks <= stream.size
    BY <2>2
  <2>. HIDE DEF lacks, len, NothingBegins
  <2>4. k \in 1 .. room /\ pos + k <= stream.size
    BY <1>0, <2>1, <2>2, <2>3 DEF Running
  <2>. HIDE DEF k
  <2>5. Contract!Move(k)
    BY <1>0, <2>1, <2>4 DEF Contract!Move, Running
  <2>. QED BY <2>4, <2>5 DEF Contract!Next
<1>3. CASE Insufficient
  <2>1. /\ Running /\ lacks > 0 /\ room = 0 /\ outcome' = "Insufficient"
        /\ UNCHANGED <<stream, pos, room>>
    BY <1>3 DEF Insufficient
  <2>2. lacks \in Nat /\ (len < stream.size \/ pos + lacks <= stream.size)
    BY <1>1, <2>1
  <2>. HIDE DEF lacks, len
  <2>3. pos < stream.size
    BY <1>0, <2>1, <2>2
  <2>. QED BY <2>1, <2>3 DEF Running, Contract!Next, Contract!Insufficient
<1>4. CASE Suspend
  BY <1>4 DEF Suspend, Running, Contract!Next, Contract!Pending
<1>5. CASE Fail \/ Panic
  BY <1>5 DEF Fail, Panic, Running, Contract!Next, Contract!Fail
<1>6. CASE Descend
  BY <1>6 DEF Descend
<1>7. CASE Finish
  <2>1. outcome = "Running" /\ UNCHANGED <<stream, pos, room>>
    BY <1>7 DEF Finish, Running
  <2>2. outcome' \in {"Ready", outcome}
    BY <1>7 DEF Finish
  <2>3. CASE outcome' = "Ready"
    <3>1. ~NothingBegins
      BY <1>7, <2>1, <2>3, NothingToAccept
    <3>2. PICK v : Begins(stream, v)
      BY <1>0, <3>1
    <3>3. GuidedInv'
      BY StepKeepsGuided
    <3>4. Begins(stream', v)
      BY <2>1, <3>2
    <3>5. pos' = stream'.size
      BY <2>3, <3>3, <3>4 DEF GuidedInv, OnItsWay
    <3>. QED BY <2>1, <2>3, <3>5 DEF Contract!Next, Contract!Ready
  <2>4. CASE outcome' = outcome
    BY <2>1, <2>4
  <2>. QED BY <2>2, <2>3, <2>4
<1>8. CASE \E r \in Pieces : Poll(r)
  <2>1. PICK r \in Pieces : Poll(r)
    BY <1>8
  <2>2. Contract!Poll(r)
    BY <2>1 DEF Poll, Contract!Poll
  <2>. QED BY <2>2 DEF Contract!Next
<1>9. CASE UNCHANGED vars
  BY <1>9 DEF vars
<1>. QED BY <1>2, <1>3, <1>4, <1>5, <1>6, <1>7, <1>8, <1>9 DEF Next, LoopTurn

(* Whatever bits arrive, a deserializer keeps the contract its adapters    *)
(* rely on: of noise that begins with the encoding of a value it reads     *)
(* that and no more; of other noise it is never Ready, but Insufficient,   *)
(* or fails (a panic counts as that), wherever the noise is cut.           *)
THEOREM DeserializerNoiseContract ==
  ASSUME AllReadable, AllItems, SizesGiven
  PROVE  Spec /\ []ShortestForms => KeepsContract
<1>1. Init => Contract!Init
  <2> SUFFICES ASSUME Init PROVE Contract!Init
    OBVIOUS
  <2>1. stream \in Streams
    BY DEF Init
  <2>2. stream.size \in Nat
    BY <2>1, SentCarries, StreamFacts DEF SizesGiven
  <2>. QED BY <2>2 DEF Init, Contract!Init
<1>2. ReadsInv /\ TypedInv /\ ShortestForms /\ NoiseInv /\ GuidedInv /\ [Next]_vars
        => [Contract!Next]_(Contract!vars)
  <2> SUFFICES ASSUME ReadsInv, TypedInv, ShortestForms, NoiseInv, GuidedInv, [Next]_vars
               PROVE  [Contract!Next]_(Contract!vars)
    OBVIOUS
  <2>1. stream \in Streams
    BY DEF ReadsInv
  <2>2. CASE stream.sent # <<>>
    BY <2>2, StepKeepsContract
  <2>3. CASE stream.sent = <<>>
    BY <2>1, <2>3, NoiseKeepsContract
  <2>. QED BY <2>2, <2>3
<1>3. TypedInv /\ ShortestForms /\ NoiseInv /\ [Next]_vars => NoiseInv'
  BY StepKeepsNoise
<1>4. TypedInv /\ GuidedInv /\ [Next]_vars => GuidedInv'
  BY StepKeepsGuided
<1>5. Spec => []ReadsInv
  BY AlwaysReads
<1>. QED BY <1>1, <1>2, <1>3, <1>4, <1>5, InitTyped, StepKeepsTypes, InitNoise, InitGuided,
            PTL DEF Spec, KeepsContract, Contract!Spec
=============================================================================
