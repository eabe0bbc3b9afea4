--------------------------- MODULE FiniteRecursion ---------------------------
(***************************************************************************)
(* Induction over the natural numbers, for sets instead of predicates, and *)
(* with it the existence of the functions that are defined by recursion    *)
(* over an interval.  The induction theorems of the library are about      *)
(* operators, which the provers cannot instantiate; these are about sets   *)
(* and functions, and rest on the fact that every non-empty set of natural *)
(* numbers has a least element (WFMin).                                    *)
(***************************************************************************)
EXTENDS Integers, SequencesExt, SequenceTheorems, WellFoundedInduction, TLAPS

(* A set of natural numbers that is not empty has a least element.         *)
LEMMA LeastOf ==
  ASSUME NEW S, S \subseteq Nat, S # {}
  PROVE  \E m \in S : \A n \in S : m <= n
<1> DEFINE R == OpToRel(<, Nat)
<1>1. IsWellFoundedOn(R, Nat)
  BY NatLessThanWellFounded
<1>2. \A x, y \in Nat : x < y => <<x, y>> \in R
  BY DEF OpToRel
<1> HIDE DEF R
<1>3. PICK m \in S : \A n \in S : <<n, m>> \notin R
  BY <1>1, WFMin
<1>4. ASSUME NEW n \in S PROVE m <= n
  <2>1. m \in Nat /\ n \in Nat /\ ~(n < m)
    BY <1>2, <1>3
  <2>. QED BY <2>1
<1>. QED BY <1>4

(* A set that has 0, and with every number the next, has all of them.      *)
LEMMA NatSetInduction ==
  ASSUME NEW S, 0 \in S, \A n \in Nat : n \in S => n + 1 \in S
  PROVE  Nat \subseteq S
<1> SUFFICES ASSUME Nat \ S # {} PROVE FALSE
  OBVIOUS
<1>1. PICK m \in Nat \ S : \A n \in Nat \ S : m <= n
  <2>1. Nat \ S \subseteq Nat /\ Nat \ S # {}
    OBVIOUS
  <2>. QED BY <2>1, LeastOf
<1>2. m - 1 \in Nat /\ ~(m <= m - 1) /\ (m - 1) + 1 = m
  BY <1>1
<1>3. m - 1 \in S
  BY <1>1, <1>2
<1>. QED BY <1>1, <1>2, <1>3

(* What a function f over 0 .. n satisfies that is defined by recursion    *)
(* from v0 on: step[i] makes its value at i from the one before.           *)
Follows(f, v0, step, n) ==
  /\ f[0] = v0
  /\ \A i \in 1 .. n : f[i] = step[i][f[i - 1]]

(* There is one, whatever the step.                                        *)
LEMMA RecursionExists ==
  ASSUME NEW V, NEW v0 \in V, NEW n \in Nat, NEW step \in [1 .. n -> [V -> V]]
  PROVE  \E f \in [0 .. n -> V] : Follows(f, v0, step, n)
<1> USE DEF Follows
<1> DEFINE Has(m) == \E f \in [0 .. m -> V] : Follows(f, v0, step, m)
           S == { m \in Nat : m <= n => Has(m) }
<1>1. 0 \in S
  <2> DEFINE f == [i \in 0 .. 0 |-> v0]
  <2>1. f \in [0 .. 0 -> V] /\ f[0] = v0 /\ 1 .. 0 = {}
    OBVIOUS
  <2>2. Has(0)
    <3>. HIDE DEF f
    <3>. QED BY <2>1
  <2>. HIDE DEF Has
  <2>. QED BY <2>2
<1>2. ASSUME NEW m \in Nat, m \in S PROVE m + 1 \in S
  <2>1. SUFFICES ASSUME m + 1 <= n PROVE Has(m + 1)
    <3>. HIDE DEF Has
    <3>. QED OBVIOUS
  <2>2. PICK f \in [0 .. m -> V] : Follows(f, v0, step, m)
    BY <1>2, <2>1
  <2>3. step[m + 1][f[m]] \in V
    <3>1. m + 1 \in 1 .. n /\ f[m] \in V
      BY <2>1
    <3>. QED BY <3>1
  <2> DEFINE g == [i \in 0 .. m + 1 |-> IF i = m + 1 THEN step[m + 1][f[m]] ELSE f[i]]
  <2>4. g \in [0 .. m + 1 -> V] /\ g[0] = v0
    BY <2>2, <2>3
  <2>5. ASSUME NEW i \in 1 .. m + 1 PROVE g[i] = step[i][g[i - 1]]
    <3>1. g[i - 1] = f[i - 1]
      OBVIOUS
    <3>2. CASE i = m + 1
      BY <3>1, <3>2
    <3>3. CASE i # m + 1
      BY <2>2, <3>1, <3>3
    <3>. QED BY <3>2, <3>3
  <2>. HIDE DEF g
  <2>. QED BY <2>4, <2>5
<1>3. Nat \subseteq S
  <2>. HIDE DEF S
  <2>. QED BY <1>1, <1>2, NatSetInduction
<1>4. Has(n)
  <2>. HIDE DEF Has
  <2>. QED BY <1>3
<1>. QED BY <1>4

-----------------------------------------------------------------------------
(* Sequences that are put together.                                        *)

(* Each of two sequences stands at its place in both together.             *)
LEMMA ConcatParts ==
  ASSUME NEW X, NEW a \in Seq(X), NEW b \in Seq(X)
  PROVE  /\ a \o b \in Seq(X) /\ Len(a) \in Nat /\ Len(b) \in Nat
         /\ Len(a \o b) = Len(a) + Len(b)
         /\ \A i \in 1 .. Len(a) : (a \o b)[i] = a[i]
         /\ \A i \in 1 .. Len(b) : (a \o b)[Len(a) + i] = b[i]
<1> DEFINE c == a \o b
<1>1. /\ c \in Seq(X) /\ Len(c) = Len(a) + Len(b)
      /\ \A i \in 1 .. Len(a) + Len(b) : c[i] = IF i <= Len(a) THEN a[i] ELSE b[i - Len(a)]
  BY ConcatProperties
<1>2. Len(a) \in Nat /\ Len(b) \in Nat
  OBVIOUS
<1> HIDE DEF c
<1>3. ASSUME NEW i \in 1 .. Len(b) PROVE c[Len(a) + i] = b[i]
  <2>1. /\ Len(a) + i \in 1 .. Len(a) + Len(b) /\ ~(Len(a) + i <= Len(a))
        /\ (Len(a) + i) - Len(a) = i
    BY <1>2
  <2>. QED BY <1>1, <2>1
<1>. QED BY <1>1, <1>2, <1>3 DEF c

(* The function that FlattenSeq computes its result with.                  *)
FlatOf(seqs) ==
  CHOOSE f : f = [i \in 1 .. Len(seqs) |-> IF i = 1 THEN seqs[i] ELSE f[i - 1] \o seqs[i]]

(* It grows by one sequence at a time.                                     *)
LEMMA FlatOfGrows ==
  ASSUME NEW X, NEW seqs \in Seq(Seq(X)), seqs # <<>>
  PROVE  /\ FlattenSeq(seqs) = FlatOf(seqs)[Len(seqs)]
         /\ FlatOf(seqs)[1] = seqs[1]
         /\ \A k \in 1 .. Len(seqs) : FlatOf(seqs)[k] \in Seq(X)
         /\ \A k \in 2 .. Len(seqs) : FlatOf(seqs)[k] = FlatOf(seqs)[k - 1] \o seqs[k]
<1> DEFINE V == Seq(X)
           n == Len(seqs)
           flat(f) == [i \in 1 .. Len(seqs) |->
                         IF i = 1 THEN seqs[i] ELSE f[i - 1] \o seqs[i]]
           step == [k \in 1 .. n |-> [v \in V |-> IF k = 1 THEN seqs[k] ELSE v \o seqs[k]]]
           F == FlatOf(seqs)
<1>1. /\ n \in Nat /\ n # 0 /\ 1 \in 1 .. n /\ <<>> \in V
      /\ \A k \in 1 .. n : seqs[k] \in V
  OBVIOUS
<1>2. step \in [1 .. n -> [V -> V]]
  <2>1. ASSUME NEW k \in 1 .. n, NEW v \in V PROVE v \o seqs[k] \in V
    BY <1>1
  <2>. HIDE DEF V, n
  <2>. QED BY <1>1, <2>1
<1>3. PICK g \in [0 .. n -> V] : Follows(g, <<>>, step, n)
  <2>. HIDE DEF step, V, n
  <2>. QED BY <1>1, <1>2, RecursionExists
<1> DEFINE f == [i \in 1 .. n |-> g[i]]
<1>4. f = flat(f)
  <2>1. ASSUME NEW k \in 1 .. n
        PROVE  f[k] = IF k = 1 THEN seqs[k] ELSE f[k - 1] \o seqs[k]
    <3>1. g[k] = step[k][g[k - 1]] /\ g[k - 1] \in V
      <4>1. k - 1 \in 0 .. n
        BY <1>1
      <4>. HIDE DEF step, V, n
      <4>. QED BY <1>3, <4>1 DEF Follows
    <3>2. step[k][g[k - 1]] = IF k = 1 THEN seqs[k] ELSE g[k - 1] \o seqs[k]
      BY <3>1
    <3>3. k # 1 => k - 1 \in 1 .. n
      BY <1>1
    <3>. QED BY <3>1, <3>2, <3>3
  <2>. HIDE DEF V, step
  <2>. QED BY <2>1
<1>5. F = flat(F)
  <2>1. F = CHOOSE h : h = flat(h)
    BY DEF FlatOf
  <2>. HIDE DEF flat, F, f
  <2>. QED BY <1>4, <2>1
<1>6. FlattenSeq(seqs) = F[n]
  BY <1>1 DEF FlattenSeq, FlatOf
<1> HIDE DEF F, f
<1>7. \A k \in 1 .. n : F[k] = IF k = 1 THEN seqs[k] ELSE F[k - 1] \o seqs[k]
  BY <1>5
<1>8. \A k \in 1 .. n : F[k] \in V
  <2> DEFINE S == { k \in Nat : k + 1 <= n => F[k + 1] \in V }
  <2>1. 0 \in S
    BY <1>1, <1>7
  <2>2. ASSUME NEW k \in Nat, k \in S PROVE k + 1 \in S
    <3>1. SUFFICES ASSUME k + 2 <= n PROVE F[k + 2] \in V
      OBVIOUS
    <3>2. k + 2 \in 1 .. n /\ k + 2 # 1 /\ (k + 2) - 1 = k + 1 /\ k + 1 <= n
      BY <1>1, <3>1
    <3>3. F[k + 1] \in V /\ seqs[k + 2] \in V /\ F[k + 2] = F[k + 1] \o seqs[k + 2]
      BY <1>1, <1>7, <2>2, <3>2
    <3>. QED BY <3>3
  <2>3. Nat \subseteq S
    <3>. HIDE DEF S
    <3>. QED BY <2>1, <2>2, NatSetInduction
  <2>4. ASSUME NEW k \in 1 .. n PROVE F[k] \in V
    <3>1. k - 1 \in Nat /\ (k - 1) + 1 = k /\ k <= n
      BY <1>1
    <3>2. k - 1 \in S
      BY <2>3, <3>1
    <3>. QED BY <3>1, <3>2
  <2>. QED BY <2>4
<1>9. \A k \in 2 .. n : F[k] = F[k - 1] \o seqs[k]
  <2>1. ASSUME NEW k \in 2 .. n PROVE F[k] = F[k - 1] \o seqs[k]
    <3>1. k \in 1 .. n /\ k # 1
      BY <1>1
    <3>. QED BY <1>7, <3>1
  <2>. QED BY <2>1
<1>. QED BY <1>1, <1>6, <1>7, <1>8, <1>9 DEF F

(* A flattened sequence is its head and the rest flattened.                *)
LEMMA FlattenHeadTail ==
  ASSUME NEW X, NEW s \in Seq(Seq(X))
  PROVE  /\ FlattenSeq(<<>>) = <<>>
         /\ FlattenSeq(s) \in Seq(X)
         /\ s # <<>> => FlattenSeq(s) = Head(s) \o FlattenSeq(Tail(s))
<1>1. FlattenSeq(<<>>) = <<>>
  BY DEF FlattenSeq
<1>2. ASSUME s # <<>>
      PROVE  FlattenSeq(s) \in Seq(X) /\ FlattenSeq(s) = Head(s) \o FlattenSeq(Tail(s))
  <2> DEFINE t == Tail(s)
  <2>1. /\ Len(s) \in Nat /\ Len(s) # 0 /\ t \in Seq(Seq(X)) /\ Len(t) = Len(s) - 1
        /\ Head(s) = s[1] /\ \A k \in 1 .. Len(t) : t[k] = s[k + 1]
        /\ \A k \in 1 .. Len(s) : s[k] \in Seq(X)
        /\ 1 \in 1 .. Len(s) /\ Len(s) \in 1 .. Len(s)
    BY <1>2
  <2>2. FlattenSeq(s) \in Seq(X)
    BY <1>2, <2>1, FlatOfGrows
  <2>0. t = <<>> <=> Len(t) = 0
    <3>. HIDE DEF t
    <3>. QED BY <2>1, EmptySeq
  <2>3. CASE t = <<>>
    <3>1. Len(s) = 1
      <4>. HIDE DEF t
      <4>. QED BY <2>0, <2>1, <2>3
    <3>2. FlattenSeq(s) = s[1]
      BY <1>2, <3>1, FlatOfGrows
    <3>3. s[1] \o <<>> = s[1]
      BY <2>1, ConcatEmptySeq
    <3>. QED BY <1>1, <2>1, <2>2, <2>3, <3>2, <3>3
  <2>4. CASE t # <<>>
    <3> HIDE DEF t
    <3> DEFINE fs == FlatOf(s)
               ft == FlatOf(t)
               Ahead(k) == fs[k + 1] = s[1] \o ft[k]
               S == { k \in Nat : k \in 1 .. Len(t) => Ahead(k) }
    <3>1. /\ Len(t) # 0 /\ 1 \in 1 .. Len(t) /\ 2 \in 2 .. Len(s) /\ Len(t) \in Nat
          /\ Len(t) \in 1 .. Len(t) /\ Len(t) + 1 = Len(s)
      BY <2>0, <2>1, <2>4
    <3>2. /\ fs[1] = s[1]
          /\ \A k \in 2 .. Len(s) : fs[k] = fs[k - 1] \o s[k]
          /\ FlattenSeq(s) = fs[Len(s)]
      BY <1>2, FlatOfGrows
    <3>3. /\ ft[1] = t[1] /\ FlattenSeq(t) = ft[Len(t)]
          /\ \A k \in 1 .. Len(t) : ft[k] \in Seq(X)
          /\ \A k \in 2 .. Len(t) : ft[k] = ft[k - 1] \o t[k]
      BY <2>1, <2>4, FlatOfGrows
    <3> HIDE DEF fs, ft
    <3>4. fs[1 + 1] = s[1] \o ft[1]
      <4>1. 2 - 1 = 1 /\ 1 + 1 = 2
        OBVIOUS
      <4>2. fs[2] = fs[2 - 1] \o s[2]
        BY <3>1, <3>2
      <4>3. t[1] = s[1 + 1]
        BY <2>1, <3>1
      <4>. QED BY <3>2, <3>3, <4>1, <4>2, <4>3, Zenon
    <3>5. ASSUME NEW k \in Nat, k \in S PROVE k + 1 \in S
      <4>1. CASE k = 0
        <5>1. k + 1 = 1
          BY <4>1
        <5>2. Ahead(k + 1)
          BY <3>4, <5>1, Zenon
        <5>. HIDE DEF Ahead
        <5>. QED BY <5>2
      <4>2. CASE k # 0 /\ k + 1 \in 1 .. Len(t)
        <5>1. k \in 1 .. Len(t) /\ (k + 1) + 1 \in 2 .. Len(s)
          BY <3>1, <4>2
        <5>2. fs[k + 1] = s[1] \o ft[k]
          BY <3>5, <5>1
        <5>3. fs[(k + 1) + 1] = fs[((k + 1) + 1) - 1] \o s[(k + 1) + 1]
          BY <3>2, <5>1, Zenon
        <5>4. ((k + 1) + 1) - 1 = k + 1 /\ (k + 1) - 1 = k /\ k + 1 \in 2 .. Len(t)
          BY <3>1, <4>2
        <5>5. ft[k + 1] = ft[(k + 1) - 1] \o t[k + 1]
          BY <3>3, <5>4, Zenon
        <5>6. t[k + 1] = s[(k + 1) + 1]
          BY <2>1, <4>2
        <5>7. s[1] \in Seq(X) /\ ft[k] \in Seq(X) /\ t[k + 1] \in Seq(X)
          BY <2>1, <3>3, <5>1, <5>6
        <5>8. (s[1] \o ft[k]) \o t[k + 1] = s[1] \o (ft[k] \o t[k + 1])
          <6> DEFINE a == s[1]
                     b == ft[k]
                     c == t[k + 1]
          <6>1. a \in Seq(X) /\ b \in Seq(X) /\ c \in Seq(X)
            BY <5>7
          <6>. HIDE DEF a, b, c
          <6>2. (a \o b) \o c = a \o (b \o c)
            BY <6>1, ConcatAssociative
          <6>. QED BY <6>2 DEF a, b, c
        <5>9. Ahead(k + 1)
          BY <5>2, <5>3, <5>4, <5>5, <5>6, <5>8, Zenon
        <5>. HIDE DEF Ahead
        <5>. QED BY <5>9
      <4>. HIDE DEF Ahead
      <4>. QED BY <4>1, <4>2
    <3>6. Nat \subseteq S
      <4>1. 0 \in S
        OBVIOUS
      <4>. HIDE DEF S
      <4>. QED BY <3>5, <4>1, NatSetInduction
    <3>7. fs[Len(t) + 1] = s[1] \o ft[Len(t)]
      BY <3>1, <3>6
    <3>. QED BY <2>1, <2>2, <3>1, <3>2, <3>3, <3>7 DEF t
  <2>. QED BY <2>3, <2>4
<1>3. FlattenSeq(s) \in Seq(X)
  BY <1>1, <1>2
<1>. QED BY <1>1, <1>2, <1>3

(* Sequences of one length, one behind the other: where each of them is.   *)
LEMMA FlattenUniform ==
  ASSUME NEW X, NEW w \in Nat, NEW seqs \in Seq(Seq(X)),
         \A k \in 1 .. Len(seqs) : Len(seqs[k]) = w
  PROVE  /\ FlattenSeq(seqs) \in Seq(X) /\ Len(FlattenSeq(seqs)) = w * Len(seqs)
         /\ \A k \in 1 .. Len(seqs) :
              SubSeq(FlattenSeq(seqs), w * (k - 1) + 1, w * k) = seqs[k]
<1> DEFINE n == Len(seqs)
           flat == FlattenSeq(seqs)
<1>1. n \in Nat /\ \A k \in 1 .. n : seqs[k] \in Seq(X) /\ Len(seqs[k]) = w
  OBVIOUS
<1>2. CASE n = 0
  <2>1. seqs = <<>>
    BY <1>2, EmptySeq
  <2>2. flat = <<>>
    BY <2>1, FlattenHeadTail
  <2>3. w * n = 0
    BY <1>2
  <2>. QED BY <1>2, <2>2, <2>3
<1>3. CASE n # 0
  <2> DEFINE F == FlatOf(seqs)
             Pieces(s, m) == \A k \in 1 .. m : \A j \in 1 .. w : s[w * (k - 1) + j] = seqs[k][j]
             S == { m \in Nat : m + 1 <= n =>
                      Len(F[m + 1]) = w * (m + 1) /\ Pieces(F[m + 1], m + 1) }
  <2>1. /\ flat = F[n] /\ F[1] = seqs[1]
        /\ \A k \in 1 .. n : F[k] \in Seq(X)
        /\ \A k \in 2 .. n : F[k] = F[k - 1] \o seqs[k]
    <3>1. seqs # <<>>
      BY <1>3
    <3>. QED BY <3>1, FlatOfGrows, Zenon
  <2> HIDE DEF F, n
  <2>2. 0 \in S
    <3>1. 1 \in 1 .. n /\ F[0 + 1] = seqs[1] /\ Len(seqs[1]) = w * (0 + 1)
      BY <1>1, <1>3, <2>1
    <3>2. Pieces(F[0 + 1], 0 + 1)
      <4>1. ASSUME NEW k \in 1 .. 0 + 1, NEW j \in 1 .. w
            PROVE  F[0 + 1][w * (k - 1) + j] = seqs[k][j]
        <5>1. k = 1 /\ w * (k - 1) + j = j
          OBVIOUS
        <5>. QED BY <3>1, <5>1
      <4>. QED BY <4>1
    <3>. HIDE DEF Pieces
    <3>. QED BY <3>1, <3>2
  <2>3. ASSUME NEW m \in Nat, m \in S PROVE m + 1 \in S
    <3> DEFINE before == F[m + 1]
               piece  == seqs[m + 2]
               after  == F[m + 2]
    <3>1. SUFFICES ASSUME m + 2 <= n
                   PROVE  Len(after) = w * (m + 2) /\ Pieces(after, m + 2)
      <4>1. (m + 1) + 1 = m + 2
        OBVIOUS
      <4>. HIDE DEF Pieces
      <4>. QED BY <4>1
    <3>2. /\ m + 2 \in 1 .. n /\ m + 1 \in 1 .. n /\ m + 2 \in 2 .. n /\ m + 1 <= n
          /\ (m + 2) - 1 = m + 1
      BY <1>1, <3>1
    <3>3. before \in Seq(X) /\ piece \in Seq(X) /\ Len(piece) = w /\ after = before \o piece
      BY <1>1, <2>1, <3>2
    <3>4. Len(before) = w * (m + 1) /\ Pieces(before, m + 1)
      <4>. HIDE DEF Pieces
      <4>. QED BY <2>3, <3>2
    <3> HIDE DEF before, piece, after
    <3>5. /\ Len(before) \in Nat /\ Len(before \o piece) = Len(before) + w
          /\ \A i \in 1 .. Len(before) : (before \o piece)[i] = before[i]
          /\ \A i \in 1 .. w : (before \o piece)[Len(before) + i] = piece[i]
      <4>1. before \in Seq(X) /\ piece \in Seq(X) /\ Len(piece) = w
        BY <3>3
      <4>2. /\ Len(before) \in Nat /\ Len(before \o piece) = Len(before) + Len(piece)
            /\ \A i \in 1 .. Len(before) : (before \o piece)[i] = before[i]
            /\ \A i \in 1 .. Len(piece) : (before \o piece)[Len(before) + i] = piece[i]
        <5>1. \A p, q \in Seq(X) :
                /\ Len(p) \in Nat /\ Len(p \o q) = Len(p) + Len(q)
                /\ \A i \in 1 .. Len(p) : (p \o q)[i] = p[i]
                /\ \A i \in 1 .. Len(q) : (p \o q)[Len(p) + i] = q[i]
          BY ConcatParts
        <5>. QED BY <4>1, <5>1, Zenon
      <4>. QED BY <4>1, <4>2, Zenon
    <3>6. Len(after) = w * (m + 2)
      BY <3>3, <3>4, <3>5
    <3>7. ASSUME NEW k \in 1 .. m + 2, NEW j \in 1 .. w
          PROVE  after[w * (k - 1) + j] = seqs[k][j]
      <4>1. CASE k = m + 2
        <5>1. w * (k - 1) = Len(before)
          BY <3>4, <4>1
        <5>. QED BY <3>3, <3>5, <4>1, <5>1 DEF piece
      <4>2. CASE k # m + 2
        <5>1. k \in 1 .. m + 1
          BY <4>2
        <5>2. w * (k - 1) + j \in 1 .. Len(before)
          <6> DEFINE a == w * (k - 1)
                     rest == w * (m + 1 - k)
          <6>1. a \in Nat /\ rest \in Nat
            BY <5>1
          <6>2. w * (m + 1) = a + w + rest
            BY <5>1
          <6>. HIDE DEF a, rest
          <6>3. a + j \in 1 .. Len(before)
            BY <3>4, <6>1, <6>2
          <6>. QED BY <6>3 DEF a
        <5>. QED BY <3>3, <3>4, <3>5, <5>1, <5>2
      <4>. QED BY <4>1, <4>2
    <3>. QED BY <3>6, <3>7
  <2>4. Nat \subseteq S
    <3>. HIDE DEF S
    <3>. QED BY <2>2, <2>3, NatSetInduction
  <2>5. n - 1 \in Nat /\ (n - 1) + 1 = n /\ n <= n /\ n \in 1 .. n
    BY <1>1, <1>3
  <2>6. Len(F[n]) = w * n /\ Pieces(F[n], n)
    <3>1. n - 1 \in S
      <4>. HIDE DEF S
      <4>. QED BY <2>4, <2>5
    <3>. HIDE DEF Pieces
    <3>. QED BY <2>5, <3>1
  <2> HIDE DEF flat
  <2>7. ASSUME NEW k \in 1 .. n PROVE SubSeq(flat, w * (k - 1) + 1, w * k) = seqs[k]
    <3> DEFINE a == w * (k - 1)
               rest == w * (n - k)
               m == a + 1
               e == w * k
               part == SubSeq(flat, m, e)
               piece == seqs[k]
    <3>1. /\ a \in Nat /\ rest \in Nat /\ e = a + w /\ Len(flat) = a + w + rest
          /\ flat \in Seq(X)
      BY <1>1, <2>1, <2>5, <2>6
    <3>2. \A j \in 1 .. w : flat[a + j] = piece[j]
      BY <2>1, <2>6
    <3>3. piece \in Seq(X) /\ Len(piece) = w
      BY <1>1 DEF n
    <3> HIDE DEF a, rest, e, piece
    <3>4. /\ m \in 1 .. Len(flat) + 1 /\ e \in m - 1 .. Len(flat) /\ e - m + 1 = w
          /\ \A j \in 1 .. w : m + j - 1 = a + j
      BY <3>1
    <3> HIDE DEF m
    <3>5. part \in Seq(X) /\ Len(part) = w /\ \A j \in 1 .. w : part[j] = flat[m + j - 1]
      BY <3>1, <3>4, SubSeqProperties
    <3> HIDE DEF part
    <3>6. part = piece
      <4>1. Len(part) = Len(piece) /\ \A j \in 1 .. Len(part) : part[j] = piece[j]
        BY <3>2, <3>3, <3>4, <3>5
      <4>. QED BY <3>3, <3>5, <4>1, SeqEqual, ZenonT(60)
    <3>. QED BY <3>6 DEF part, piece, a, m, e
  <2>8. flat \in Seq(X) /\ Len(flat) = w * n
    BY <2>1, <2>5, <2>6
  <2>. QED BY <2>7, <2>8, Zenon DEF flat, n
<1>. QED BY <1>2, <1>3

(* A flattened sequence grows with the sequence.                           *)
LEMMA FlattenAppend ==
  ASSUME NEW X, NEW s \in Seq(Seq(X)), NEW last \in Seq(X)
  PROVE  FlattenSeq(Append(s, last)) = FlattenSeq(s) \o last
<1> DEFINE t == Append(s, last)
           n == Len(s)
<1>1. /\ t \in Seq(Seq(X)) /\ Len(t) = n + 1 /\ n \in Nat /\ t # <<>>
      /\ t[n + 1] = last /\ \A k \in 1 .. n : t[k] = s[k]
  BY AppendProperties
<1>2. CASE n = 0
  <2>1. s = <<>>
    BY <1>2, EmptySeq
  <2>2. FlattenSeq(t) = t[1]
    <3>1. Len(t) = 1
      BY <1>1, <1>2
    <3>. HIDE DEF t
    <3>. QED BY <1>1, <3>1, FlatOfGrows
  <2>3. t[1] = last
    BY <1>1, <1>2
  <2>4. FlattenSeq(s) = <<>> /\ <<>> \o last = last
    BY <2>1, FlattenHeadTail, ConcatEmptySeq
  <2>. QED BY <2>2, <2>3, <2>4
<1>3. CASE n # 0
  <2> HIDE DEF t
  <2> DEFINE fs == FlatOf(s)
             ft == FlatOf(t)
             S == { k \in Nat : k + 1 <= n => ft[k + 1] = fs[k + 1] }
  <2>1. /\ FlattenSeq(s) = fs[n] /\ fs[1] = s[1]
        /\ \A k \in 2 .. n : fs[k] = fs[k - 1] \o s[k]
    <3>1. s # <<>>
      BY <1>3
    <3>. QED BY <3>1, FlatOfGrows
  <2>2. /\ FlattenSeq(t) = ft[n + 1] /\ ft[1] = t[1]
        /\ \A k \in 2 .. n + 1 : ft[k] = ft[k - 1] \o t[k]
    <3>1. /\ FlattenSeq(t) = ft[Len(t)] /\ ft[1] = t[1]
          /\ \A k \in 2 .. Len(t) : ft[k] = ft[k - 1] \o t[k]
      BY <1>1, FlatOfGrows
    <3>. HIDE DEF ft
    <3>. QED BY <1>1, <3>1
  <2> HIDE DEF fs, ft, n
  <2>3. 0 \in S
    BY <1>1, <1>3, <2>1, <2>2
  <2>4. ASSUME NEW k \in Nat, k \in S PROVE k + 1 \in S
    <3>1. SUFFICES ASSUME k + 2 <= n PROVE ft[k + 2] = fs[k + 2]
      <4>1. (k + 1) + 1 = k + 2
        OBVIOUS
      <4>. QED BY <4>1
    <3>2. /\ k + 2 \in 2 .. n /\ k + 2 \in 2 .. n + 1 /\ k + 2 \in 1 .. n
          /\ (k + 2) - 1 = k + 1 /\ k + 1 <= n
      BY <1>1, <3>1
    <3>3. ft[k + 1] = fs[k + 1]
      BY <2>4, <3>2
    <3>4. ft[k + 2] = ft[(k + 2) - 1] \o t[k + 2] /\ fs[k + 2] = fs[(k + 2) - 1] \o s[k + 2]
      BY <2>1, <2>2, <3>2, Zenon
    <3>5. t[k + 2] = s[k + 2]
      BY <1>1, <3>2
    <3>. QED BY <3>2, <3>3, <3>4, <3>5, Zenon
  <2>5. Nat \subseteq S
    <3>. HIDE DEF S
    <3>. QED BY <2>3, <2>4, NatSetInduction
  <2>6. n - 1 \in S /\ (n - 1) + 1 = n /\ n <= n /\ n + 1 \in 2 .. n + 1 /\ (n + 1) - 1 = n
    <3>1. n - 1 \in Nat
      BY <1>1, <1>3
    <3>. HIDE DEF S
    <3>. QED BY <1>1, <1>3, <2>5, <3>1
  <2>7. ft[n] = fs[n]
    BY <2>6
  <2>8. ft[n + 1] = ft[(n + 1) - 1] \o t[n + 1]
    BY <2>2, <2>6, Zenon
  <2>9. t[n + 1] = last
    BY <1>1
  <2>. QED BY <2>1, <2>2, <2>6, <2>7, <2>8, <2>9, Zenon DEF t
<1>. QED BY <1>2, <1>3

(* A sequence has another one in it, behind as many elements.              *)
Holds(whole, at, piece) ==
  /\ at + Len(piece) <= Len(whole)
  /\ \A j \in 1 .. Len(piece) : whole[at + j] = piece[j]

LEMMA ConcatHolds ==
  ASSUME NEW X, NEW a \in Seq(X), NEW b \in Seq(X)
  PROVE  Holds(a \o b, 0, a) /\ Holds(a \o b, Len(a), b)
<1> DEFINE c == a \o b
<1>1. /\ Len(c) = Len(a) + Len(b) /\ Len(a) \in Nat /\ Len(b) \in Nat
      /\ \A i \in 1 .. Len(a) : c[i] = a[i]
      /\ \A i \in 1 .. Len(b) : c[Len(a) + i] = b[i]
  BY ConcatParts
<1> HIDE DEF c
<1>2. Holds(c, 0, a) /\ Holds(c, Len(a), b)
  <2>1. \A i \in 1 .. Len(a) : 0 + i = i
    OBVIOUS
  <2>. QED BY <1>1, <2>1 DEF Holds
<1>. QED BY <1>2 DEF c

LEMMA HoldsWithin ==
  ASSUME NEW X, NEW whole \in Seq(X), NEW piece \in Seq(X), NEW inner \in Seq(X),
         NEW at \in Nat, NEW from \in Nat,
         Holds(whole, at, piece), Holds(piece, from, inner)
  PROVE  Holds(whole, at + from, inner)
<1>1. /\ Len(whole) \in Nat /\ Len(piece) \in Nat /\ Len(inner) \in Nat
      /\ at + Len(piece) <= Len(whole) /\ from + Len(inner) <= Len(piece)
  BY DEF Holds
<1>2. ASSUME NEW j \in 1 .. Len(inner) PROVE whole[(at + from) + j] = inner[j]
  <2>1. from + j \in 1 .. Len(piece) /\ at + (from + j) = (at + from) + j
    BY <1>1
  <2>2. piece[from + j] = inner[j]
    BY DEF Holds
  <2>3. whole[at + (from + j)] = piece[from + j]
    BY <2>1 DEF Holds
  <2>. QED BY <2>1, <2>2, <2>3
<1>3. (at + from) + Len(inner) <= Len(whole)
  BY <1>1
<1>. QED BY <1>2, <1>3 DEF Holds

=============================================================================
