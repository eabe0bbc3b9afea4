---------------------------- MODULE SessionProofs ----------------------------
(***************************************************************************)
(* What a session guarantees for every plan, every set of plans and all    *)
(* buffer sizes: the items arrive whole, unchanged and in order although   *)
(* nothing on the stream separates them.                                   *)
(***************************************************************************)
EXTENDS Session, FiniteRecursion

(* The two ends with what is proved about each: the instances of Session,  *)
(* of the modules that hold the theorems.                                  *)
WP == INSTANCE AsyncWriterProofs
        WITH BufSize <- WriterBufSize, ItemBits <- Sizes, WireBytes <- 0,
             Faults <- {}, SuspendAfter <- {}, fromStart <- w_fromStart,
             buffer <- w_buffer, cursor <- w_cursor, done <- w_done, state <- w_state,
             want <- w_want, emitted <- w_emitted, polling <- w_polling, res <- w_res,
             frame <- w_frame, pads <- w_pads, interrupted <- w_interrupted,
             failed <- w_failed

RP == INSTANCE AsyncReaderProofs
        WITH BufSize <- ReaderBufSize, ItemBits <- Sizes, StreamBytes <- 0,
             Faults <- ReadFaults, SuspendAfter <- {},
             buffer <- r_buffer, cursor <- r_cursor, last_byte <- r_last_byte,
             state <- r_state, want <- r_want, fed <- r_fed, polling <- r_polling,
             res <- r_res, frame <- r_frame

-----------------------------------------------------------------------------
(* The layout of a plan on the wire.                                       *)

(* StartOf adds up the bytes of the items before.                          *)
LEMMA StartOfAddsUp ==
  ASSUME NEW p \in Seq(Nat)
  PROVE  /\ StartOf(p, 1) = 0
         /\ \A k \in 1 .. Len(p) : /\ StartOf(p, k) \in Nat
                                   /\ StartOf(p, k + 1) \in Nat
                                   /\ StartOf(p, k + 1) = StartOf(p, k) + W!BytesFor(p[k])
<1> DEFINE starts(f) == [i \in 0 .. Len(p) |->
                           IF i = 0 THEN 0 ELSE f[i - 1] + W!BytesFor(p[i])]
           step == [i \in 1 .. Len(p) |-> [b \in Nat |-> b + W!BytesFor(p[i])]]
           bytes == CHOOSE f : f = starts(f)
<1>0. Len(p) \in Nat /\ 0 \in Nat
  OBVIOUS
<1>1. \A i \in 1 .. Len(p) : p[i] \in Nat /\ W!BytesFor(p[i]) \in Nat
  BY DEF W!BytesFor
<1>2. step \in [1 .. Len(p) -> [Nat -> Nat]]
  BY <1>1
<1>3. PICK f \in [0 .. Len(p) -> Nat] : Follows(f, 0, step, Len(p))
  <2>. HIDE DEF step
  <2>. QED BY <1>0, <1>2, RecursionExists
<1>4. f = starts(f)
  <2>1. ASSUME NEW i \in 1 .. Len(p) PROVE f[i] = f[i - 1] + W!BytesFor(p[i])
    <3>1. i - 1 \in 0 .. Len(p)
      BY <1>0
    <3>2. f[i - 1] \in Nat
      BY <3>1
    <3>. QED BY <1>3, <3>2 DEF Follows
  <2>. QED BY <1>0, <1>3, <2>1 DEF Follows
<1>5. bytes = starts(bytes)
  <2>. HIDE DEF starts
  <2>. QED BY <1>4
<1>6. \A k : StartOf(p, k) = bytes[k - 1]
  BY DEF StartOf
<1> HIDE DEF bytes
<1>7. /\ bytes[0] = 0
      /\ \A i \in 1 .. Len(p) : bytes[i] = bytes[i - 1] + W!BytesFor(p[i])
  <2>1. \A i \in 0 .. Len(p) :
          bytes[i] = IF i = 0 THEN 0 ELSE bytes[i - 1] + W!BytesFor(p[i])
    BY <1>5
  <2>. QED BY <1>0, <2>1
<1>8. \A i \in 0 .. Len(p) : bytes[i] \in Nat
  <2> DEFINE S == { i \in Nat : i <= Len(p) => bytes[i] \in Nat }
  <2>1. 0 \in S
    BY <1>7
  <2>2. ASSUME NEW i \in Nat, i \in S PROVE i + 1 \in S
    <3>1. CASE i + 1 <= Len(p)
      <4>1. i + 1 \in 1 .. Len(p) /\ (i + 1) - 1 = i /\ bytes[i] \in Nat
        BY <1>0, <2>2, <3>1
      <4>. QED BY <1>1, <1>7, <4>1
    <3>. QED BY <1>0, <3>1
  <2>3. Nat \subseteq S
    <3>. HIDE DEF S
    <3>. QED BY <2>1, <2>2, NatSetInduction
  <2>. QED BY <1>0, <2>3
<1>9. ASSUME NEW k \in 1 .. Len(p)
      PROVE  /\ StartOf(p, k) \in Nat
             /\ StartOf(p, k + 1) \in Nat
             /\ StartOf(p, k + 1) = StartOf(p, k) + W!BytesFor(p[k])
  <2>1. StartOf(p, k) = bytes[k - 1] /\ StartOf(p, k + 1) = bytes[k]
    <3>1. (k + 1) - 1 = k
      BY <1>0
    <3>. QED BY <1>6, <3>1
  <2>2. k - 1 \in 0 .. Len(p) /\ k \in 0 .. Len(p)
    BY <1>0
  <2>. QED BY <1>7, <1>8, <2>1, <2>2
<1>10. StartOf(p, 1) = 0
  BY <1>6, <1>7
<1>. QED BY <1>9, <1>10

(* Items are laid out one behind the other, in the order of the plan.      *)
LEMMA StartOfIsMonotonic ==
  ASSUME NEW p \in Seq(Nat), NEW j \in 1 .. Len(p) + 1, NEW k \in j .. Len(p) + 1
  PROVE  StartOf(p, j) \in Nat /\ StartOf(p, k) \in Nat /\ StartOf(p, j) <= StartOf(p, k)
<1> DEFINE S == { d \in Nat : j + d <= Len(p) + 1 => StartOf(p, j + d) \in Nat
                                               /\ StartOf(p, j) <= StartOf(p, j + d) }
<1>1. /\ Len(p) \in Nat
      /\ \A i \in 1 .. Len(p) : p[i] \in Nat /\ W!BytesFor(p[i]) \in Nat
  BY DEF W!BytesFor
<1>2. \A i \in 1 .. Len(p) + 1 : StartOf(p, i) \in Nat
  <2>1. ASSUME NEW i \in 1 .. Len(p) + 1 PROVE StartOf(p, i) \in Nat
    <3>1. CASE i = 1
      BY <3>1, StartOfAddsUp
    <3>2. CASE i # 1
      <4>1. i - 1 \in 1 .. Len(p) /\ (i - 1) + 1 = i
        BY <1>1, <3>2
      <4>. QED BY <4>1, StartOfAddsUp
    <3>. QED BY <3>1, <3>2
  <2>. QED BY <2>1
<1>3. 0 \in S
  BY <1>2
<1>4. ASSUME NEW d \in Nat, d \in S PROVE d + 1 \in S
  <2>1. CASE j + (d + 1) <= Len(p) + 1
    <3>1. j + d \in 1 .. Len(p) /\ j + (d + 1) = (j + d) + 1
      BY <1>1, <2>1
    <3>2. StartOf(p, (j + d) + 1) = StartOf(p, j + d) + W!BytesFor(p[j + d])
      BY <3>1, StartOfAddsUp
    <3>3. StartOf(p, j + d) \in Nat /\ StartOf(p, j) <= StartOf(p, j + d)
      BY <1>1, <1>4, <2>1
    <3>. QED BY <1>1, <1>2, <3>1, <3>2, <3>3
  <2>. QED BY <1>1, <2>1
<1>5. Nat \subseteq S
  <2>. HIDE DEF S
  <2>. QED BY <1>3, <1>4, NatSetInduction
<1>6. k - j \in Nat /\ j + (k - j) = k /\ k <= Len(p) + 1 /\ k \in 1 .. Len(p) + 1
  BY <1>1
<1>7. k - j \in S
  <2>. HIDE DEF S
  <2>. QED BY <1>5, <1>6
<1>. QED BY <1>2, <1>6, <1>7

-----------------------------------------------------------------------------
(* Histories without the items that have no bits.                          *)

(* What WithBits is made of: the items with bits among the first k.        *)
KeptOf(items) ==
  CHOOSE f : f = [k \in 0 .. Len(items) |->
                    IF k = 0 THEN <<>>
                    ELSE IF items[k] = <<>> THEN f[k - 1] ELSE Append(f[k - 1], items[k])]

(* It grows by the items that have bits, one at a time.                    *)
LEMMA KeptOfGrows ==
  ASSUME NEW items \in Seq(Seq(Nat))
  PROVE  /\ WithBits(items) = KeptOf(items)[Len(items)]
         /\ KeptOf(items)[0] = <<>>
         /\ \A k \in 0 .. Len(items) : KeptOf(items)[k] \in Seq(Seq(Nat))
         /\ \A k \in 1 .. Len(items) :
              KeptOf(items)[k] =
                IF items[k] = <<>> THEN KeptOf(items)[k - 1]
                                   ELSE Append(KeptOf(items)[k - 1], items[k])
<1> DEFINE V == Seq(Seq(Nat))
           kept(f) == [k \in 0 .. Len(items) |->
                         IF k = 0 THEN <<>>
                         ELSE IF items[k] = <<>> THEN f[k - 1]
                                                 ELSE Append(f[k - 1], items[k])]
           step == [k \in 1 .. Len(items) |->
                      [v \in V |-> IF items[k] = <<>> THEN v ELSE Append(v, items[k])]]
           F == KeptOf(items)
<1>1. Len(items) \in Nat /\ <<>> \in V /\ \A k \in 1 .. Len(items) : items[k] \in Seq(Nat)
  OBVIOUS
<1>2. step \in [1 .. Len(items) -> [V -> V]]
  <2>1. ASSUME NEW k \in 1 .. Len(items), NEW v \in V PROVE Append(v, items[k]) \in V
    BY <1>1
  <2>. HIDE DEF V
  <2>. QED BY <2>1
<1>3. PICK f \in [0 .. Len(items) -> V] : Follows(f, <<>>, step, Len(items))
  <2>. HIDE DEF step, V
  <2>. QED BY <1>1, <1>2, RecursionExists
<1>4. f = kept(f)
  <2>1. ASSUME NEW k \in 1 .. Len(items)
        PROVE  f[k] = IF items[k] = <<>> THEN f[k - 1] ELSE Append(f[k - 1], items[k])
    <3>1. k - 1 \in 0 .. Len(items)
      BY <1>1
    <3>2. f[k - 1] \in V
      <4>. HIDE DEF V
      <4>. QED BY <3>1
    <3>. HIDE DEF V
    <3>. QED BY <1>3, <3>2 DEF Follows
  <2>2. f[0] = <<>>
    BY <1>3 DEF Follows
  <2>3. \A k \in 0 .. Len(items) : k = 0 \/ k \in 1 .. Len(items)
    BY <1>1
  <2>. HIDE DEF step, V
  <2>. QED BY <2>1, <2>2, <2>3
<1>5. F = kept(F)
  <2>1. F = CHOOSE g : g = kept(g)
    BY DEF KeptOf
  <2>. HIDE DEF kept, F
  <2>. QED BY <1>4, <2>1
<1>6. WithBits(items) = F[Len(items)]
  BY DEF WithBits, KeptOf
<1> HIDE DEF F
<1>7. /\ F[0] = <<>>
      /\ \A k \in 1 .. Len(items) :
           F[k] = IF items[k] = <<>> THEN F[k - 1] ELSE Append(F[k - 1], items[k])
  <2>1. \A k \in 0 .. Len(items) :
          F[k] = IF k = 0 THEN <<>>
                 ELSE IF items[k] = <<>> THEN F[k - 1] ELSE Append(F[k - 1], items[k])
    BY <1>5
  <2>. QED BY <1>1, <2>1
<1>8. \A k \in 0 .. Len(items) : F[k] \in V
  <2> DEFINE S == { k \in Nat : k <= Len(items) => F[k] \in V }
  <2>1. 0 \in S
    <3>. HIDE DEF V
    <3>. QED BY <1>1, <1>7
  <2>2. ASSUME NEW k \in Nat, k \in S PROVE k + 1 \in S
    <3>1. CASE k + 1 <= Len(items)
      <4>1. k + 1 \in 1 .. Len(items) /\ (k + 1) - 1 = k /\ k <= Len(items)
        BY <1>1, <3>1
      <4>2. F[k] \in V
        BY <2>2, <4>1
      <4>3. F[k + 1] = IF items[k + 1] = <<>> THEN F[k] ELSE Append(F[k], items[k + 1])
        BY <1>7, <4>1
      <4>4. F[k + 1] \in V
        BY <1>1, <4>1, <4>2, <4>3
      <4>. QED BY <4>4
    <3>. QED BY <1>1, <3>1
  <2>3. Nat \subseteq S
    <3>. HIDE DEF S
    <3>. QED BY <2>1, <2>2, NatSetInduction
  <2>4. ASSUME NEW k \in 0 .. Len(items) PROVE F[k] \in V
    <3>1. k \in S /\ k <= Len(items)
      <4>. HIDE DEF S
      <4>. QED BY <1>1, <2>3
    <3>. HIDE DEF V
    <3>. QED BY <3>1
  <2>. QED BY <2>4
<1>. QED BY <1>6, <1>7, <1>8 DEF F

(* What is kept of the first items does not depend on those behind.        *)
LEMMA KeptOfPrefix ==
  ASSUME NEW s \in Seq(Seq(Nat)), NEW t \in Seq(Seq(Nat)), Len(s) <= Len(t),
         \A k \in 1 .. Len(s) : t[k] = s[k]
  PROVE  WithBits(s) = KeptOf(t)[Len(s)]
<1> DEFINE S == { k \in Nat : k <= Len(s) => KeptOf(s)[k] = KeptOf(t)[k] }
<1>1. Len(s) \in Nat /\ Len(t) \in Nat
  OBVIOUS
<1>2. 0 \in S
  BY KeptOfGrows
<1>3. ASSUME NEW k \in Nat, k \in S PROVE k + 1 \in S
  <2>1. CASE k + 1 <= Len(s)
    <3>1. k + 1 \in 1 .. Len(s) /\ k + 1 \in 1 .. Len(t) /\ (k + 1) - 1 = k /\ k <= Len(s)
      BY <1>1, <2>1
    <3>2. KeptOf(s)[k] = KeptOf(t)[k]
      BY <1>3, <3>1
    <3>3. KeptOf(s)[k + 1] = IF s[k + 1] = <<>> THEN KeptOf(s)[k]
                                                ELSE Append(KeptOf(s)[k], s[k + 1])
      BY <3>1, KeptOfGrows
    <3>4. KeptOf(t)[k + 1] = IF t[k + 1] = <<>> THEN KeptOf(t)[k]
                                                ELSE Append(KeptOf(t)[k], t[k + 1])
      BY <3>1, KeptOfGrows
    <3>5. KeptOf(s)[k + 1] = KeptOf(t)[k + 1]
      BY <3>1, <3>2, <3>3, <3>4
    <3>. QED BY <3>5
  <2>. QED BY <1>1, <2>1
<1>4. Nat \subseteq S
  <2>. HIDE DEF S
  <2>. QED BY <1>2, <1>3, NatSetInduction
<1>5. KeptOf(s)[Len(s)] = KeptOf(t)[Len(s)]
  BY <1>1, <1>4
<1>. QED BY <1>5, KeptOfGrows

(* WithBits of a history that has grown by an item.                        *)
LEMMA WithBitsOfAppend ==
  ASSUME NEW s \in Seq(Seq(Nat)), NEW x \in Seq(Nat)
  PROVE  /\ WithBits(s) \in Seq(Seq(Nat))
         /\ WithBits(Append(s, x)) =
              IF x = <<>> THEN WithBits(s) ELSE Append(WithBits(s), x)
<1> DEFINE t == Append(s, x)
<1>1. /\ t \in Seq(Seq(Nat)) /\ Len(t) = Len(s) + 1 /\ t[Len(s) + 1] = x
      /\ Len(s) \in Nat /\ \A k \in 1 .. Len(s) : t[k] = s[k]
  OBVIOUS
<1> HIDE DEF t
<1>2. WithBits(s) = KeptOf(t)[Len(s)] /\ WithBits(t) = KeptOf(t)[Len(s) + 1]
  <2>1. Len(s) <= Len(t)
    BY <1>1
  <2>2. WithBits(s) = KeptOf(t)[Len(s)]
    BY <1>1, <2>1, KeptOfPrefix
  <2>. QED BY <1>1, <2>2, KeptOfGrows
<1>3. Len(s) + 1 \in 1 .. Len(t) /\ (Len(s) + 1) - 1 = Len(s) /\ Len(s) \in 0 .. Len(t)
  BY <1>1
<1>4. /\ KeptOf(t)[Len(s)] \in Seq(Seq(Nat))
      /\ KeptOf(t)[Len(s) + 1] = IF t[Len(s) + 1] = <<>> THEN KeptOf(t)[Len(s)]
                                  ELSE Append(KeptOf(t)[Len(s)], t[Len(s) + 1])
  <2>1. /\ \A k \in 0 .. Len(t) : KeptOf(t)[k] \in Seq(Seq(Nat))
        /\ \A k \in 1 .. Len(t) :
             KeptOf(t)[k] = IF t[k] = <<>> THEN KeptOf(t)[k - 1]
                                           ELSE Append(KeptOf(t)[k - 1], t[k])
    BY <1>1, KeptOfGrows
  <2>. QED BY <1>3, <2>1, Zenon
<1>5. WithBits(t) = IF x = <<>> THEN WithBits(s) ELSE Append(WithBits(s), x)
  BY <1>1, <1>2, <1>4, Zenon
<1>6. WithBits(s) \in Seq(Seq(Nat))
  BY <1>2, <1>4, Zenon
<1>. QED BY <1>5, <1>6 DEF t

(* An item with bits that one history lacks is the next of the other.      *)
LEMMA WithBitsOfLonger ==
  ASSUME NEW s \in Seq(Seq(Nat)), NEW t \in Seq(Seq(Nat)), Len(s) < Len(t),
         \A k \in 1 .. Len(s) : t[k] = s[k], t[Len(s) + 1] # <<>>
  PROVE  /\ Len(WithBits(s)) < Len(WithBits(t))
         /\ WithBits(t)[Len(WithBits(s)) + 1] = t[Len(s) + 1]
<1> DEFINE K == KeptOf(t)
           m == Len(s)
           IsNext(k) == Len(K[m]) < Len(K[k]) /\ K[k][Len(K[m]) + 1] = t[m + 1]
           S == { d \in Nat : m + 1 + d <= Len(t) => IsNext(m + 1 + d) }
<1>1. m \in Nat /\ Len(t) \in Nat /\ m + 1 \in 1 .. Len(t) /\ m \in 0 .. Len(t)
  OBVIOUS
<1>2. WithBits(s) = K[m] /\ WithBits(t) = K[Len(t)]
  <2>1. Len(s) <= Len(t)
    BY <1>1
  <2>2. WithBits(s) = K[m]
    BY <2>1, KeptOfPrefix
  <2>. QED BY <2>2, KeptOfGrows
<1>3. /\ \A k \in 0 .. Len(t) : K[k] \in Seq(Seq(Nat))
      /\ \A k \in 1 .. Len(t) :
           K[k] = IF t[k] = <<>> THEN K[k - 1] ELSE Append(K[k - 1], t[k])
  BY KeptOfGrows
<1> HIDE DEF K
<1>4. 0 \in S
  <2>1. K[m + 1] = Append(K[m], t[m + 1]) /\ K[m] \in Seq(Seq(Nat))
    <3>1. (m + 1) - 1 = m
      BY <1>1
    <3>. QED BY <1>1, <1>3, <3>1
  <2>2. IsNext(m + 1)
    BY <2>1
  <2>3. m + 1 + 0 = m + 1
    BY <1>1
  <2>. HIDE DEF IsNext
  <2>. QED BY <2>2, <2>3
<1>5. ASSUME NEW d \in Nat, d \in S PROVE d + 1 \in S
  <2>1. SUFFICES ASSUME m + 1 + (d + 1) <= Len(t) PROVE IsNext(m + 1 + (d + 1))
    <3>. HIDE DEF IsNext
    <3>. QED OBVIOUS
  <2> DEFINE k == m + 1 + d
  <2>2. /\ k + 1 = m + 1 + (d + 1) /\ k + 1 \in 1 .. Len(t) /\ (k + 1) - 1 = k
        /\ k \in 0 .. Len(t) /\ k <= Len(t)
    BY <1>1, <2>1
  <2>3. IsNext(k)
    <3>. HIDE DEF IsNext
    <3>. QED BY <1>5, <2>2
  <2> HIDE DEF k
  <2>4. K[k + 1] = IF t[k + 1] = <<>> THEN K[k] ELSE Append(K[k], t[k + 1])
    BY <1>3, <2>2
  <2>5. K[k] \in Seq(Seq(Nat)) /\ K[m] \in Seq(Seq(Nat))
    BY <1>1, <1>3, <2>2
  <2>6. IsNext(k + 1)
    <3> DEFINE now  == K[k]
               next == K[k + 1]
               l    == Len(K[m])
    <3>1. now \in Seq(Seq(Nat)) /\ l \in Nat /\ l < Len(now) /\ now[l + 1] = t[m + 1]
      BY <2>3, <2>5
    <3>2. next = now \/ \E x \in Seq(Nat) : next = Append(now, x)
      <4>1. t[k + 1] \in Seq(Nat)
        BY <2>2
      <4>. QED BY <2>4, <4>1
    <3>3. l < Len(next) /\ next[l + 1] = t[m + 1]
      <4> HIDE DEF now, next, l
      <4>1. CASE next = now
        BY <3>1, <4>1
      <4>2. ASSUME NEW x \in Seq(Nat), next = Append(now, x)
            PROVE  l < Len(next) /\ next[l + 1] = t[m + 1]
        BY <3>1, <4>2
      <4>. QED BY <3>2, <4>1, <4>2
    <3>. QED BY <3>3
  <2>. QED BY <2>2, <2>6
<1>6. Nat \subseteq S
  <2>. HIDE DEF S
  <2>. QED BY <1>4, <1>5, NatSetInduction
<1>7. IsNext(Len(t))
  <2>1. Len(t) - (m + 1) \in Nat /\ m + 1 + (Len(t) - (m + 1)) = Len(t)
    BY <1>1
  <2>2. Len(t) - (m + 1) \in S
    <3>. HIDE DEF S
    <3>. QED BY <1>6, <2>1
  <2>. HIDE DEF IsNext
  <2>. QED BY <1>1, <2>1, <2>2
<1>. QED BY <1>2, <1>7

-----------------------------------------------------------------------------
(* The invariants of the two ends carry over.  W and WP (R and RP) are     *)
(* instances of the same definitions, which only their expansion shows.    *)

LEMMA SizesAreNumbers == /\ Sizes \subseteq Nat
                         /\ \A p \in Plans : \A k \in 1 .. Len(p) : p[k] \in Sizes
<1>1. ASSUME NEW p \in Plans, NEW k \in 1 .. Len(p) PROVE p[k] \in Nat /\ p[k] \in Sizes
  BY <1>1, SessionConstants DEF Sizes
<1>. QED BY <1>1 DEF Sizes

LEMMA SameWriterInv == (WP!WriterInv <=> W!WriterInv) /\ (WP!WriterInv' <=> W!WriterInv')
<1>. USE DEF W!Slots, WP!Slots, W!BytesFor, WP!BytesFor
<1>1. (WP!TypeOK <=> W!TypeOK) /\ (WP!TypeOK' <=> W!TypeOK')
  BY DEF W!TypeOK, WP!TypeOK, W!Results, WP!Results
<1>2. /\ WP!UninterruptedInv <=> W!UninterruptedInv
      /\ WP!UninterruptedInv' <=> W!UninterruptedInv'
  BY DEF W!UninterruptedInv, WP!UninterruptedInv,
         W!BufferContinuesWire, WP!BufferContinuesWire,
         W!WireExact, WP!WireExact, W!Flushed, WP!Flushed
<1>. QED
  BY <1>1, <1>2
  DEF W!WriterInv, WP!WriterInv, W!PanicOnlyAfterCutShort, WP!PanicOnlyAfterCutShort

(* The writer's invariant holds of a new writer, and every step of it that *)
(* a session takes preserves it.                                           *)
LEMMA WriterInvInSession ==
  /\ W!Init => W!WriterInv
  /\ /\ W!WriterInv
     /\ \/ W!Poll \/ W!SerializeReady \/ W!SerializeInsufficient \/ W!WriteWhole
        \/ W!IntoInner \/ UNCHANGED writer
        \/ \E bits \in Sizes : W!Reset(bits) \/ W!Renew(bits)
     => W!WriterInv'
<1>. USE DEF W!Slots, WP!Slots, W!BytesFor, WP!BytesFor, W!NoBit, WP!NoBit,
             W!held, WP!held, W!codec, WP!codec, W!history, WP!history,
             W!Return, WP!Return, W!InBounds, WP!InBounds, W!SliceLen, WP!SliceLen,
             W!Whole, WP!Whole, W!Re, WP!Re
<1>1. WP!WriterConstants
  BY SessionConstants, SizesAreNumbers DEF WP!WriterConstants, WP!FaultKinds
<1>2. W!Init => WP!Init
  BY DEF W!Init, WP!Init
<1>3. W!Poll \/ W!IntoInner => WP!Poll \/ WP!IntoInner
  BY DEF W!Poll, WP!Poll, W!IntoInner, WP!IntoInner
<1>4. W!SerializeReady => WP!SerializeReady
  BY DEF W!SerializeReady, WP!SerializeReady, W!Serializing, WP!Serializing,
         W!Left, WP!Left, W!Room, WP!Room, W!Finish, WP!Finish, W!Emit, WP!Emit,
         W!Length, WP!Length
<1>5. W!SerializeInsufficient => WP!SerializeInsufficient
  BY DEF W!SerializeInsufficient, WP!SerializeInsufficient, W!Serializing, WP!Serializing,
         W!Left, WP!Left, W!Room, WP!Room, W!Emit, WP!Emit, W!Length, WP!Length
<1>6. W!WriteWhole => WP!WriteWhole
  BY DEF W!WriteWhole, WP!WriteWhole, W!Writing, WP!Writing, W!Accept, WP!Accept,
         W!CarryOver, WP!CarryOver
<1>7. ASSUME NEW bits \in Sizes
      PROVE  (W!Reset(bits) => WP!Reset(bits)) /\ (W!Renew(bits) => WP!Renew(bits))
  BY DEF W!Reset, WP!Reset, W!Renew, WP!Renew
<1>8. W!Init => W!WriterInv
  BY <1>1, <1>2, SameWriterInv, WP!WriterInvInit
<1>9. ASSUME W!WriterInv,
             \/ W!Poll \/ W!SerializeReady \/ W!SerializeInsufficient \/ W!WriteWhole
             \/ W!IntoInner \/ UNCHANGED writer
             \/ \E bits \in Sizes : W!Reset(bits) \/ W!Renew(bits)
      PROVE  W!WriterInv'
  <2>1. WP!WriterInv
    BY <1>9, SameWriterInv
  <2>2. CASE W!Poll \/ W!SerializeReady \/ W!SerializeInsufficient \/ W!WriteWhole
             \/ W!IntoInner \/ UNCHANGED writer
    <3>1. [WP!Next]_WP!vars
      BY <1>3, <1>4, <1>5, <1>6, <2>2 DEF WP!Next, WP!LoopTurn, WP!Owner, WP!vars, writer
    <3>. QED BY <1>1, <2>1, <3>1, SameWriterInv, WP!WriterInvStep
  <2>3. ASSUME NEW bits \in Sizes, W!Reset(bits) PROVE W!WriterInv'
    BY <1>1, <1>7, <2>1, <2>3, SameWriterInv, WP!WriterInvAfterReset
  <2>4. ASSUME NEW bits \in Sizes, W!Renew(bits) PROVE W!WriterInv'
    BY <1>1, <1>7, <2>1, <2>4, SameWriterInv, WP!WriterInvAfterRenew
  <2>. QED BY <1>9, <2>2, <2>3, <2>4
<1>. QED BY <1>8, <1>9

LEMMA SameReaderInv == (RP!ReaderInv <=> R!ReaderInv) /\ (RP!ReaderInv' <=> R!ReaderInv')
<1>. USE DEF R!Slots, RP!Slots, R!BytesFor, RP!BytesFor, R!Position, RP!Position
<1>1. (RP!TypeOK <=> R!TypeOK) /\ (RP!TypeOK' <=> R!TypeOK')
  BY DEF R!TypeOK, RP!TypeOK
<1>2. /\ RP!BufferIsWindow <=> R!BufferIsWindow
      /\ RP!BufferIsWindow' <=> R!BufferIsWindow'
  BY DEF R!BufferIsWindow, RP!BufferIsWindow
<1>3. /\ RP!CursorFollowsCodec <=> R!CursorFollowsCodec
      /\ RP!CursorFollowsCodec' <=> R!CursorFollowsCodec'
  BY DEF R!CursorFollowsCodec, RP!CursorFollowsCodec
<1>4. (RP!FedExactly <=> R!FedExactly) /\ (RP!FedExactly' <=> R!FedExactly')
  BY DEF R!FedExactly, RP!FedExactly
<1>. QED BY <1>1, <1>2, <1>3, <1>4 DEF R!ReaderInv, RP!ReaderInv

(* The same for the reader.                                                *)
LEMMA ReaderInvInSession ==
  /\ R!Init => R!ReaderInv
  /\ /\ R!ReaderInv
     /\ \/ R!Poll \/ R!DeserializeReady \/ R!DeserializeInsufficient
        \/ \E size \in R!ReadSizes : R!ReadOk(size)
        \/ R!ReadPending \/ R!ReadFails
        \/ \E bits \in Sizes : R!Reset(bits)
        \/ (\E limit : R!Arrive(limit)) \/ UNCHANGED reader
     => R!ReaderInv'
<1>. USE DEF R!Slots, RP!Slots, R!BytesFor, RP!BytesFor, R!NoBit, RP!NoBit,
             R!held, RP!held, R!codec, RP!codec, R!transport, RP!transport,
             R!Return, RP!Return
<1>1. RP!ReaderConstants /\ {} \subseteq {0}
  BY SessionConstants, SizesAreNumbers DEF RP!ReaderConstants, RP!FaultKinds
<1>2. R!Init => RP!Init
  BY DEF R!Init, RP!Init
<1>3. R!Poll => RP!Poll
  BY DEF R!Poll, RP!Poll
<1>4. /\ R!DeserializeReady => RP!DeserializeReady
      /\ R!DeserializeInsufficient => RP!DeserializeInsufficient
  BY DEF R!DeserializeReady, RP!DeserializeReady,
         R!DeserializeInsufficient, RP!DeserializeInsufficient,
         R!Deserializing, RP!Deserializing, R!Left, RP!Left,
         R!Available, RP!Available, R!Feed, RP!Feed, R!RoundUp, RP!RoundUp
<1>5. ASSUME NEW size \in R!ReadSizes, R!ReadOk(size)
      PROVE  size \in RP!ReadSizes /\ RP!ReadOk(size)
  <2>. USE DEF R!Residue, RP!Residue, R!CursorByte, RP!CursorByte, R!Free, RP!Free
  <2>1. size \in RP!ReadSizes
    BY DEF R!ReadSizes, RP!ReadSizes, R!Smaller, RP!Smaller, R!Waiting, RP!Waiting
  <2>2. R!Refilled(size) = RP!Refilled(size)
    BY DEF R!Refilled, RP!Refilled
  <2>3. RP!ReadOk(size)
    BY <1>5, <2>2 DEF R!ReadOk, RP!ReadOk, R!Reading, RP!Reading
  <2>. QED BY <2>1, <2>3
<1>6. R!ReadPending \/ R!ReadFails => RP!ReadPending \/ RP!ReadFails
  BY DEF R!ReadPending, RP!ReadPending, R!ReadFails, RP!ReadFails, R!Reading, RP!Reading,
         R!Free, RP!Free, R!Waiting, RP!Waiting, R!Residue, RP!Residue,
         R!CursorByte, RP!CursorByte
<1>7. ASSUME NEW bits \in Sizes, R!Reset(bits) PROVE RP!Reset(bits)
  BY <1>7 DEF R!Reset, RP!Reset
<1>8. ASSUME NEW limit, R!Arrive(limit) PROVE RP!Arrive(limit)
  BY <1>8 DEF R!Arrive, RP!Arrive
<1>9. R!Init => R!ReaderInv
  BY <1>1, <1>2, SameReaderInv, RP!ReaderInvInit
<1>10. ASSUME R!ReaderInv,
              \/ R!Poll \/ R!DeserializeReady \/ R!DeserializeInsufficient
              \/ \E size \in R!ReadSizes : R!ReadOk(size)
              \/ R!ReadPending \/ R!ReadFails
              \/ \E bits \in Sizes : R!Reset(bits)
              \/ UNCHANGED reader
       PROVE  R!ReaderInv'
  <2>1. RP!ReaderInv
    BY <1>10, SameReaderInv
  <2>2. RP!LoopTurn \/ RP!Owner \/ UNCHANGED RP!vars
    BY <1>3, <1>4, <1>5, <1>6, <1>7, <1>10 DEF RP!LoopTurn, RP!Owner, RP!vars, reader
  <2>3. [RP!Next]_RP!vars
    BY <2>2 DEF RP!Next
  <2>. QED BY <1>1, <2>1, <2>3, SameReaderInv, RP!ReaderInvStep
<1>11. ASSUME R!ReaderInv, NEW limit, R!Arrive(limit) PROVE R!ReaderInv'
  BY <1>1, <1>8, <1>11, SameReaderInv, RP!ReaderInvAfterArrive
<1>. QED BY <1>9, <1>10, <1>11

(* Feeding the codec of a session's reader.                                *)
LEMMA FeedInSession ==
  ASSUME R!ReaderInv, r_state = "Deserialize", NEW k \in 0 .. R!Available, R!Feed(k)
  PROVE  r_fed' \in Seq(Int) /\ Len(r_fed') = Len(r_fed) + k
<1>1. RP!ReaderConstants
  BY SessionConstants, SizesAreNumbers DEF RP!ReaderConstants, RP!FaultKinds
<1>2. RP!ReaderInv /\ RP!Available = R!Available /\ RP!Feed(k)
  BY SameReaderInv DEF R!Available, RP!Available, R!Feed, RP!Feed
<1>. QED BY <1>1, <1>2, RP!FeedIsExact

-----------------------------------------------------------------------------
(* The session.                                                            *)

(* What the proofs below need of the types and of the adapters' invariants. *)
LEMMA PlanFacts ==
  ASSUME SessionInv
  PROVE  /\ plan \in Seq(Nat) /\ Len(plan) \in Nat /\ plan # <<>>
         /\ \A k \in 1 .. Len(plan) : plan[k] \in Nat /\ plan[k] \in Sizes
         /\ sent \in Seq(Seq(Nat)) /\ Len(sent) \in Nat /\ Len(sent) <= Len(plan)
         /\ received \in Seq(Seq(Nat)) /\ Len(received) \in Nat
         /\ Len(received) <= Len(plan)
BY SessionConstants, SizesAreNumbers DEF SessionInv, HistoryOf

WriterState ==
  /\ w_want \in Nat /\ w_emitted \in Nat /\ w_frame \in Nat /\ w_cursor \in Nat
  /\ wire \in Seq(Int) /\ Len(wire) \in Nat /\ w_pads \subseteq Nat
  /\ w_emitted <= w_want
  /\ w_state \in {"Serialize", "Writing", "Complete", "Taken"}
  /\ w_state \in {"Serialize", "Writing"} => Len(wire) + w_cursor = 8 * w_frame + w_emitted
  /\ w_state = "Serialize" => w_cursor = 0 /\ ~w_done
  /\ w_state = "Complete" => /\ Len(wire) = 8 * (w_frame + W!BytesFor(w_emitted))
                             /\ w_emitted = w_want
  /\ w_done => w_emitted = w_want
  /\ W!WireExact

LEMMA WriterFacts == W!WriterInv /\ ~w_failed /\ ~w_interrupted => WriterState
<1> SUFFICES ASSUME W!WriterInv, ~w_failed, ~w_interrupted PROVE WriterState
  OBVIOUS
<1>1. W!UninterruptedInv
  BY DEF W!WriterInv
<1>2. w_cursor \in Nat
  <2>1. w_cursor \in 0 .. 8 * WriterBufSize + (IF w_fromStart THEN 7 ELSE 0)
    BY DEF W!WriterInv, W!TypeOK
  <2>. QED BY <2>1, SessionConstants
<1>. QED
  BY <1>1, <1>2
  DEF WriterState, W!WriterInv, W!TypeOK, W!UninterruptedInv, W!BufferContinuesWire,
      W!Flushed, W!PanicOnlyAfterCutShort

LEMMA ReaderFacts ==
  ASSUME R!ReaderInv
  PROVE  /\ r_want \in Nat /\ r_frame \in Nat /\ r_cursor \in Nat /\ r_last_byte \in Nat
         /\ fetched \in Nat /\ arrived \in Nat /\ r_fed \in Seq(Int) /\ Len(r_fed) \in Nat
         /\ r_last_byte <= fetched /\ r_cursor <= 8 * r_last_byte /\ Len(r_fed) <= r_want
         /\ r_state # "Complete" => R!Position = 8 * r_frame + Len(r_fed)
         /\ R!FedExactly
<1>1. r_cursor \in Nat /\ r_last_byte \in Nat
  <2>1. r_cursor \in 0 .. 8 * ReaderBufSize /\ r_last_byte \in 0 .. ReaderBufSize
    BY DEF R!ReaderInv, R!TypeOK
  <2>. QED BY <2>1, SessionConstants
<1>. QED
  BY <1>1 DEF R!ReaderInv, R!TypeOK, R!BufferIsWindow, R!CursorFollowsCodec

(* Behind an item the next one starts.                                     *)
LEMMA NextStart ==
  ASSUME SessionInv, NEW k \in 1 .. Len(plan)
  PROVE  /\ StartOf(plan, k) \in Nat /\ StartOf(plan, k + 1) \in Nat
         /\ StartOf(plan, k + 1) = StartOf(plan, k) + W!BytesFor(plan[k])
         /\ StartOf(plan, k + 1) = StartOf(plan, k) + R!BytesFor(plan[k])
         /\ 8 * StartOf(plan, k) + plan[k] <= 8 * StartOf(plan, k + 1)
<1>1. plan \in Seq(Nat) /\ plan[k] \in Nat
  BY PlanFacts
<1>2. /\ StartOf(plan, k) \in Nat /\ StartOf(plan, k + 1) \in Nat
      /\ StartOf(plan, k + 1) = StartOf(plan, k) + W!BytesFor(plan[k])
  BY <1>1, StartOfAddsUp
<1>3. plan[k] <= 8 * W!BytesFor(plan[k]) /\ R!BytesFor(plan[k]) = W!BytesFor(plan[k])
  BY <1>1 DEF W!BytesFor, R!BytesFor
<1>4. W!BytesFor(plan[k]) \in Nat
  BY <1>1 DEF W!BytesFor
<1>. QED BY <1>1, <1>2, <1>3, <1>4

(* Where a bit of an item belongs that bit is, once so much was fetched.   *)
LEMMA BitInPlace ==
  ASSUME SessionInv, NEW k \in 1 .. Len(plan), NEW i \in 1 .. plan[k],
         8 * StartOf(plan, k) + i <= 8 * fetched
  PROVE  wire[(8 * StartOf(plan, k) + i - 1) + 1] = 8 * StartOf(plan, k) + i - 1
<1> DEFINE n == 8 * StartOf(plan, k) + i
<1>1. /\ StartOf(plan, k) \in Nat /\ plan[k] \in Nat
      /\ fetched \in Nat /\ arrived \in Nat /\ Len(wire) \in Nat
      /\ fetched <= arrived /\ 8 * arrived <= Len(wire)
  BY NextStart, PlanFacts, WriterFacts, ReaderFacts
  DEF SessionInv, WriterPlace, WriterState, StreamIsCausal
<1>2. n \in 1 .. Len(wire) /\ (n - 1) + 1 = n
  BY <1>1
<1>3. n - 1 \in 8 * StartOf(plan, k) .. 8 * StartOf(plan, k) + plan[k] - 1
  BY <1>1
<1>4. n - 1 \notin w_pads
  BY <1>3 DEF SessionInv, PadsBetween
<1>5. wire[n] = n - 1 \/ n - 1 \in w_pads
  BY <1>2, WriterFacts DEF SessionInv, WriterPlace, WriterState, W!WireExact
<1>6. wire[n] = n - 1
  BY <1>4, <1>5
<1>. QED BY <1>1, <1>2, <1>6

LEMMA SessionInvInit == Init => SessionInv
<1> SUFFICES ASSUME Init PROVE SessionInv
  OBVIOUS
<1>1. /\ plan \in Plans /\ plan \in Seq(Nat) /\ Len(plan) \in Nat /\ Len(plan) > 0
      /\ plan[1] \in Nat /\ StartOf(plan, 1) = 0
  <2>1. plan \in Plans /\ plan \in Seq(Nat) /\ plan # <<>>
    BY SessionConstants DEF Init
  <2>. QED BY <2>1, StartOfAddsUp
<1>2. W!WriterInv /\ R!ReaderInv
  BY WriterInvInSession, ReaderInvInSession DEF Init
<1>3. WriterPlace
  BY <1>1 DEF Init, W!Init, WriterPlace
<1>4. ReaderPlace
  BY <1>1 DEF Init, R!Init, ReaderPlace
<1>5. StreamIsCausal /\ PadsBetween
  BY DEF Init, W!Init, R!Init, StreamIsCausal, PadsBetween
<1>6. HistoryOf(sent) /\ HistoryOf(received)
  BY <1>1 DEF Init, HistoryOf
<1>. QED BY <1>1, <1>2, <1>3, <1>4, <1>5, <1>6 DEF SessionInv

(* What one end does not change of the other.                              *)
LEMMA ReaderUntouched ==
  ASSUME SessionInv, UNCHANGED <<plan, reader, received>>
  PROVE  /\ plan' \in Plans /\ R!ReaderInv' /\ ReaderPlace' /\ HistoryOf(received)'
         /\ Len(wire) <= Len(wire') /\ Len(wire') \in Nat => StreamIsCausal'
<1>1. R!ReaderInv'
  BY ReaderInvInSession DEF SessionInv
<1>2. fetched \in Nat /\ arrived \in Nat /\ Len(wire) \in Nat
  BY ReaderFacts, WriterFacts DEF SessionInv, WriterPlace, WriterState
<1>. QED
  BY <1>1, <1>2 DEF SessionInv, reader, ReaderPlace, HistoryOf, StreamIsCausal

LEMMA WriterUntouched ==
  ASSUME SessionInv, UNCHANGED <<plan, writer, sent>>
  PROVE  /\ plan' \in Plans /\ W!WriterInv' /\ WriterPlace' /\ HistoryOf(sent)'
         /\ PadsBetween'
<1>1. W!WriterInv'
  BY WriterInvInSession DEF SessionInv
<1>. QED
  BY <1>1 DEF SessionInv, writer, WriterPlace, HistoryOf, PadsBetween

(* The padding of the item the writer is at lies behind that item and      *)
(* before the next.                                                        *)
LEMMA PaddingOfItem ==
  ASSUME SessionInv, w_state = "Serialize", UNCHANGED plan,
         w_pads' = w_pads \cup (8 * w_frame + w_want
                                  .. 8 * (w_frame + W!BytesFor(w_want)) - 1)
  PROVE  PadsBetween'
<1> DEFINE n == Len(sent) + 1
<1>1. /\ n \in 1 .. Len(plan) /\ w_want = plan[n] /\ w_frame = StartOf(plan, n)
      /\ Len(plan) \in Nat /\ plan \in Seq(Nat)
  BY PlanFacts DEF SessionInv, WriterPlace
<1> HIDE DEF n
<1>2. /\ StartOf(plan, n) \in Nat /\ StartOf(plan, n + 1) \in Nat
      /\ StartOf(plan, n + 1) = w_frame + W!BytesFor(w_want)
  BY <1>1, NextStart
<1>3. SUFFICES ASSUME NEW k \in 1 .. Len(plan), NEW q \in w_pads',
                      q \in 8 * StartOf(plan, k) .. 8 * StartOf(plan, k) + plan[k] - 1
               PROVE  FALSE
  BY DEF PadsBetween
<1>4. q \in 8 * StartOf(plan, n) + plan[n] .. 8 * StartOf(plan, n + 1) - 1
  BY <1>1, <1>2, <1>3 DEF SessionInv, PadsBetween
<1>5. /\ StartOf(plan, k) \in Nat /\ StartOf(plan, k + 1) \in Nat /\ plan[k] \in Nat
      /\ plan[n] \in Nat /\ 8 * StartOf(plan, k) + plan[k] <= 8 * StartOf(plan, k + 1)
  BY <1>1, NextStart, PlanFacts
<1>6. /\ q \in Int /\ 8 * StartOf(plan, n) + plan[n] <= q /\ q < 8 * StartOf(plan, n + 1)
      /\ 8 * StartOf(plan, k) <= q /\ q < 8 * StartOf(plan, k) + plan[k]
  <2>1. 8 * StartOf(plan, k) <= q /\ q < 8 * StartOf(plan, k) + plan[k]
    BY <1>3, <1>5
  <2>. QED BY <1>2, <1>4, <1>5, <2>1
<1>7. CASE k < n
  <2>1. StartOf(plan, k + 1) <= StartOf(plan, n)
    BY <1>1, <1>7, StartOfIsMonotonic, SMTT(60)
  <2>. QED BY <1>2, <1>5, <1>6, <2>1, SMTT(60)
<1>8. CASE k = n
  BY <1>2, <1>5, <1>6, <1>8, SMTT(60)
<1>9. CASE k > n
  <2>1. StartOf(plan, n + 1) <= StartOf(plan, k)
    BY <1>1, <1>9, StartOfIsMonotonic
  <2>. QED BY <1>2, <1>5, <1>6, <2>1, SMTT(60)
<1>. QED BY <1>1, <1>7, <1>8, <1>9

LEMMA SessionInvWriterRuns == SessionInv /\ WriterRuns => SessionInv'
<1> SUFFICES ASSUME SessionInv, WriterRuns PROVE SessionInv'
  OBVIOUS
<1> DEFINE n == Len(sent)
<1>1. /\ W!WriterInv /\ WriterPlace /\ PadsBetween
      /\ UNCHANGED <<plan, reader, received>>
  BY DEF SessionInv, WriterRuns
<1>2. W!WriterInv'
  BY <1>1, WriterInvInSession DEF WriterRuns
<1>3. /\ w_state \in {"Serialize", "Writing"}
      /\ UNCHANGED <<w_want, w_frame, w_failed, w_interrupted>>
      /\ ~w_failed /\ ~w_failed' /\ ~w_interrupted /\ ~w_interrupted'
      /\ n < Len(plan) /\ w_want = plan[n + 1] /\ w_frame = StartOf(plan, n + 1)
      /\ w_want = 0 \/ Len(wire) < 8 * w_frame + w_want
  BY <1>1
  DEF WriterRuns, W!Poll, W!SerializeReady, W!SerializeInsufficient, W!WriteWhole,
      W!Serializing, W!Writing, W!Finish, W!codec, W!history, WriterPlace
<1>4. /\ Len(wire) \in Nat /\ Len(wire') \in Nat /\ w_emitted \in Nat /\ w_emitted' \in Nat
      /\ w_frame \in Nat /\ w_want \in Nat /\ w_cursor \in Nat /\ w_cursor' \in Nat
      /\ Len(wire) + w_cursor = 8 * w_frame + w_emitted
      /\ w_state' \in {"Serialize", "Writing"} =>
           Len(wire') + w_cursor' = 8 * w_frame + w_emitted'
      /\ w_state' = "Serialize" => w_cursor' = 0
      /\ w_state' = "Complete" => /\ Len(wire') = 8 * (w_frame + W!BytesFor(w_emitted'))
                                  /\ w_emitted' = w_want
  <2>1. WriterState
    BY <1>1, <1>3, WriterFacts
  <2>2. (W!WriterInv /\ ~w_failed /\ ~w_interrupted => WriterState)'
    BY WriterFacts, PTL
  <2>3. WriterState'
    BY <1>2, <1>3, <2>2
  <2>. QED BY <1>3, <2>1, <2>3 DEF WriterState
<1>5. n \in Nat /\ sent \in Seq(Seq(Nat)) /\ Len(plan) \in Nat /\ n + 1 \in 1 .. Len(plan)
      /\ \A k \in 1 .. n : sent[k] = ItemOf(plan, k)
  BY <1>3, PlanFacts DEF SessionInv, HistoryOf
<1>6. CASE W!Poll \/ W!SerializeReady \/ W!SerializeInsufficient
  <2>1. /\ wire' = wire /\ w_state' \in {"Serialize", "Writing"} /\ sent' = sent
        /\ w_state' = "Writing" /\ ~w_done' => w_emitted' < w_want
    <3>1. CASE W!Poll
      BY <1>1, <1>3, <3>1 DEF W!Poll, W!held, W!codec, WriterRuns, WriterPlace
    <3>2. CASE W!SerializeReady
      BY <1>3, <3>2 DEF W!SerializeReady, W!Finish, WriterRuns
    <3>3. CASE W!SerializeInsufficient
      <4>1. W!Left > W!Room /\ w_emitted' = w_emitted + W!Room /\ W!Room \in Int
        BY <1>4, <3>3, SessionConstants DEF W!SerializeInsufficient, W!Emit, W!Room
      <4>2. w_emitted' < w_want
        BY <1>4, <4>1 DEF W!Left
      <4>. QED BY <1>3, <3>3, <4>2 DEF W!SerializeInsufficient, WriterRuns
    <3>. QED BY <1>6, <3>1, <3>2, <3>3
  <2>2. WriterPlace'
    BY <1>1, <1>3, <2>1 DEF WriterPlace
  <2>3. PadsBetween'
    <3>1. CASE W!SerializeReady
      <4>1. w_state = "Serialize" /\ w_emitted + W!Left = w_want
        BY <1>4, <3>1 DEF W!SerializeReady, W!Serializing, W!Left
      <4>2. w_pads' = w_pads \cup (8 * w_frame + w_emitted + W!Left
                                     .. 8 * (w_frame + W!BytesFor(w_emitted + W!Left)) - 1)
        BY <3>1 DEF W!SerializeReady, W!Finish
      <4>3. 8 * w_frame + w_emitted + W!Left = 8 * w_frame + w_want
        BY <1>4 DEF W!Left
      <4>. QED BY <1>1, <4>1, <4>2, <4>3, PaddingOfItem
    <3>2. CASE W!Poll \/ W!SerializeInsufficient
      BY <1>1, <3>2 DEF W!Poll, W!SerializeInsufficient, W!history, PadsBetween
    <3>. QED BY <1>6, <3>1, <3>2
  <2>. QED
    BY <1>1, <1>2, <1>4, <2>1, <2>2, <2>3, ReaderUntouched DEF SessionInv, HistoryOf
<1>7. CASE W!WriteWhole
  <2>1. /\ w_state = "Writing" /\ UNCHANGED <<w_emitted, w_pads, w_done>>
        /\ w_done => w_state' = "Complete"
        /\ ~w_done => w_state' = "Serialize"
    BY <1>7 DEF W!WriteWhole, W!Writing, W!codec, W!history
  <2>2. PadsBetween'
    BY <1>1, <2>1 DEF PadsBetween
  <2>3. CASE w_done
    <3>1. Len(wire) <= Len(wire')
      BY <1>4, <2>1, <2>3 DEF W!BytesFor
    <3>2. sent' = Append(sent, Written) /\ Written = ItemOf(plan, n + 1)
      BY <1>3, <2>1, <2>3 DEF WriterRuns, Written, ItemOf
    <3>3. Written \in Seq(Nat)
      <4>1. \A i \in 1 .. w_want : 8 * w_frame + i - 1 \in Nat
        BY <1>4
      <4>. QED BY <1>4, <4>1 DEF Written
    <3>4. /\ sent' \in Seq(Seq(Nat)) /\ Len(sent') = n + 1 /\ sent'[n + 1] = Written
          /\ \A k \in 1 .. n : sent'[k] = sent[k]
      BY <1>5, <3>2, <3>3
    <3>5. HistoryOf(sent)'
      <4>1. ASSUME NEW k \in 1 .. n + 1 PROVE sent'[k] = ItemOf(plan, k)
        BY <1>5, <3>2, <3>4
      <4>. QED BY <1>1, <1>5, <3>4, <4>1 DEF HistoryOf
    <3>6. WriterPlace'
      BY <1>1, <1>3, <1>5, <2>1, <2>3, <3>4 DEF WriterPlace
    <3>. QED BY <1>1, <1>2, <1>4, <2>2, <3>1, <3>5, <3>6, ReaderUntouched DEF SessionInv
  <2>4. CASE ~w_done
    <3>1. w_emitted < w_want /\ sent' = sent
      BY <1>1, <2>1, <2>4 DEF WriterPlace, WriterRuns
    <3>2. Len(wire') = 8 * w_frame + w_emitted /\ Len(wire) <= Len(wire')
      BY <1>4, <2>1, <2>4
    <3>3. WriterPlace'
      BY <1>1, <1>3, <1>4, <2>1, <2>4, <3>1, <3>2, SMTT(60) DEF WriterPlace
    <3>4. HistoryOf(sent)'
      BY <1>1, <3>1 DEF SessionInv, HistoryOf
    <3>. QED BY <1>1, <1>2, <1>4, <2>2, <3>2, <3>3, <3>4, ReaderUntouched DEF SessionInv
  <2>. QED BY <2>3, <2>4
<1>. QED BY <1>6, <1>7 DEF WriterRuns

LEMMA SessionInvTakeStream == SessionInv /\ TakeStream => SessionInv'
<1> SUFFICES ASSUME SessionInv, TakeStream PROVE SessionInv'
  OBVIOUS
<1>1. /\ w_state = "Complete" /\ w_state' = "Taken" /\ W!WriterInv /\ WriterPlace
      /\ UNCHANGED <<w_want, w_emitted, w_done, w_frame, w_pads, w_failed, w_interrupted, wire>>
      /\ UNCHANGED <<plan, reader, sent, received>>
  BY DEF TakeStream, W!IntoInner, W!codec, W!history, SessionInv
<1>2. W!WriterInv'
  BY <1>1, WriterInvInSession DEF TakeStream
<1>3. /\ Len(sent) \in 1 .. Len(plan) /\ w_emitted = plan[Len(sent)]
      /\ w_frame = StartOf(plan, Len(sent)) /\ Len(wire) \in Nat
      /\ Len(wire) = 8 * (w_frame + W!BytesFor(w_emitted)) /\ ~w_failed /\ ~w_interrupted
  BY <1>1, WriterFacts, PlanFacts DEF WriterPlace, WriterState
<1>4. Len(wire) = 8 * StartOf(plan, Len(sent) + 1)
  BY <1>3, NextStart
<1>5. WriterPlace'
  BY <1>1, <1>3, <1>4 DEF WriterPlace
<1>6. PadsBetween' /\ HistoryOf(sent)'
  BY <1>1 DEF SessionInv, PadsBetween, HistoryOf
<1>. QED BY <1>1, <1>2, <1>3, <1>5, <1>6, ReaderUntouched DEF SessionInv

LEMMA SessionInvSendNext == SessionInv /\ SendNext => SessionInv'
<1> SUFFICES ASSUME SessionInv, SendNext PROVE SessionInv'
  OBVIOUS
<1> DEFINE n == Len(sent)
           bits == plan[n + 1]
<1>1. /\ n < Len(plan) /\ n \in Nat /\ Len(plan) \in Nat /\ n + 1 \in 1 .. Len(plan)
      /\ bits \in Nat /\ bits \in Sizes
      /\ W!Reset(bits) \/ W!Renew(bits)
      /\ W!WriterInv /\ WriterPlace /\ ~w_failed /\ ~w_interrupted
      /\ UNCHANGED <<plan, reader, sent, received, wire>>
  BY PlanFacts DEF SendNext, SessionInv, WriterPlace, W!Reset, W!Renew
<1>2. W!WriterInv'
  BY <1>1, WriterInvInSession
<1>3. Len(wire) \in Nat /\ StartOf(plan, n + 1) \in Nat
  BY <1>1, WriterFacts, NextStart DEF WriterState
<1>4. /\ w_state' = "Serialize" /\ w_want' = bits /\ ~w_failed' /\ ~w_interrupted'
      /\ w_frame' = StartOf(plan, n + 1) /\ Len(wire) = 8 * StartOf(plan, n + 1)
      /\ w_pads' \subseteq w_pads
  <2>1. CASE W!Reset(bits)
    <3>1. /\ w_state = "Complete" /\ w_frame' = w_frame + W!BytesFor(w_emitted)
          /\ w_state' = "Serialize" /\ w_want' = bits /\ w_failed' = FALSE
          /\ w_interrupted' = w_interrupted
          /\ w_pads' = w_pads
      BY <2>1 DEF W!Reset
    <3>2. /\ n \in 1 .. Len(plan) /\ w_emitted = plan[n] /\ w_frame = StartOf(plan, n)
          /\ Len(wire) = 8 * (w_frame + W!BytesFor(w_emitted))
      BY <1>1, <3>1, WriterFacts, PlanFacts DEF WriterPlace, WriterState
    <3>3. w_frame + W!BytesFor(w_emitted) = StartOf(plan, n + 1)
      BY <3>2, NextStart
    <3>. QED BY <1>1, <3>1, <3>2, <3>3
  <2>2. CASE W!Renew(bits)
    <3>1. /\ w_state = "Taken" /\ w_frame' = Len(wire) \div 8
          /\ w_state' = "Serialize" /\ w_want' = bits /\ w_failed' = FALSE
          /\ w_interrupted' = w_interrupted
          /\ w_pads' = w_pads \cap 0 .. Len(wire) - 1
      BY <2>2 DEF W!Renew
    <3>2. Len(wire) = 8 * StartOf(plan, n + 1)
      BY <1>1, <3>1 DEF WriterPlace
    <3>. QED BY <1>1, <1>3, <3>1, <3>2
  <2>. QED BY <1>1, <2>1, <2>2
<1>5. WriterPlace'
  <2>1. bits = 0 \/ Len(wire) < 8 * StartOf(plan, n + 1) + bits
    BY <1>1, <1>3, <1>4
  <2>. QED BY <1>1, <1>4, <2>1 DEF WriterPlace
<1>6. PadsBetween' /\ HistoryOf(sent)'
  BY <1>1, <1>4 DEF SessionInv, PadsBetween, HistoryOf
<1>. QED BY <1>1, <1>2, <1>3, <1>5, <1>6, ReaderUntouched DEF SessionInv

LEMMA SessionInvDeliver == SessionInv /\ Deliver => SessionInv'
<1> SUFFICES ASSUME SessionInv, Deliver PROVE SessionInv'
  OBVIOUS
<1>1. /\ arrived < Len(wire) \div 8 /\ arrived' = arrived + 1
      /\ UNCHANGED <<r_want, r_fed, r_frame, r_state, fetched>>
      /\ UNCHANGED <<plan, writer, sent, received>> /\ UNCHANGED wire
  BY DEF Deliver, R!Arrive, R!codec, writer
<1>2. R!ReaderInv'
  BY ReaderInvInSession DEF Deliver, SessionInv
<1>3. arrived \in Nat /\ fetched \in Nat /\ Len(wire) \in Nat /\ fetched <= arrived
  BY WriterFacts, ReaderFacts DEF SessionInv, WriterPlace, WriterState, StreamIsCausal
<1>4. StreamIsCausal'
  BY <1>1, <1>3 DEF StreamIsCausal
<1>5. ReaderPlace' /\ HistoryOf(received)'
  BY <1>1 DEF SessionInv, ReaderPlace, HistoryOf
<1>. QED BY <1>1, <1>2, <1>4, <1>5, WriterUntouched DEF SessionInv

(* An item that is whole at the reader is the item of the plan, and all of *)
(* it was on the wire.                                                     *)
LEMMA ItemReceived ==
  ASSUME SessionInv, R!DeserializeReady
  PROVE  /\ Len(r_fed') = r_want
         /\ Read(r_fed') = ItemOf(plan, Len(received) + 1)
         /\ Read(r_fed') \in Seq(Nat)
         /\ Len(received) + 1 \in 1 .. Len(plan)
         /\ 8 * StartOf(plan, Len(received) + 1) + plan[Len(received) + 1] <= 8 * fetched
<1> DEFINE k == Len(received) + 1
<1>1. /\ r_state = "Deserialize" /\ R!Left <= R!Available /\ R!Feed(R!Left)
      /\ UNCHANGED <<r_want, r_frame>> /\ R!ReaderInv /\ ReaderPlace
  BY DEF R!DeserializeReady, R!Deserializing, SessionInv
<1>2. /\ k \in 1 .. Len(plan) /\ r_want = plan[k] /\ r_frame = StartOf(plan, k)
      /\ StartOf(plan, k) \in Nat
  BY <1>1, PlanFacts, NextStart DEF ReaderPlace
<1> HIDE DEF k
<1>3. /\ r_want \in Nat /\ Len(r_fed) \in Nat /\ Len(r_fed) <= r_want
      /\ r_cursor \in Nat /\ r_last_byte \in Nat /\ r_cursor <= 8 * r_last_byte
      /\ r_frame \in Nat /\ fetched \in Nat
      /\ 8 * (fetched - r_last_byte) + r_cursor = 8 * r_frame + Len(r_fed)
  BY <1>1, ReaderFacts DEF R!Position
<1>4. R!Left \in 0 .. R!Available /\ R!Left = r_want - Len(r_fed)
  BY <1>1, <1>3 DEF R!Left, R!Available
<1>5. Len(r_fed') = r_want
  BY <1>1, <1>3, <1>4, FeedInSession
<1>6. 8 * StartOf(plan, k) + plan[k] <= 8 * fetched
  <2>1. r_want - Len(r_fed) <= 8 * r_last_byte - r_cursor
    BY <1>1, <1>4 DEF R!Available
  <2>. QED BY <1>2, <1>3, <2>1, SMTT(60)
<1>7. R!FedExactly'
  BY <1>1, ReaderInvInSession DEF R!ReaderInv
<1>8. ASSUME NEW i \in 1 .. plan[k]
      PROVE  wire[r_fed'[i] + 1] = 8 * StartOf(plan, k) + i - 1
  <2>1. r_fed'[i] = 8 * StartOf(plan, k) + i - 1
    BY <1>1, <1>2, <1>5, <1>7 DEF R!FedExactly
  <2>2. 8 * StartOf(plan, k) + i <= 8 * fetched
    BY <1>2, <1>3, <1>6, SMTT(60)
  <2>. QED BY <1>2, <2>1, <2>2, BitInPlace
<1>9. Read(r_fed') = ItemOf(plan, k)
  BY <1>2, <1>5, <1>8 DEF Read, ItemOf
<1>10. ItemOf(plan, k) \in Seq(Nat)
  <2>1. plan[k] \in Nat
    BY <1>2, <1>3
  <2>2. \A i \in 1 .. plan[k] : 8 * StartOf(plan, k) + i - 1 \in Nat
    BY <1>2
  <2>3. [i \in 1 .. plan[k] |-> 8 * StartOf(plan, k) + i - 1] \in Seq(Nat)
    BY <2>1, <2>2
  <2>. QED BY <2>3 DEF ItemOf
<1>. QED BY <1>2, <1>5, <1>6, <1>9, <1>10 DEF k

LEMMA SessionInvReaderRuns == SessionInv /\ ReaderRuns => SessionInv'
<1> SUFFICES ASSUME SessionInv, ReaderRuns PROVE SessionInv'
  OBVIOUS
<1> DEFINE m == Len(received)
<1>1. /\ R!ReaderInv /\ ReaderPlace /\ StreamIsCausal
      /\ UNCHANGED <<plan, writer, sent>> /\ UNCHANGED wire
  BY DEF SessionInv, ReaderRuns, writer
<1>2. R!ReaderInv'
  BY <1>1, ReaderInvInSession DEF ReaderRuns
<1>3. /\ m \in Nat /\ m <= Len(plan) /\ Len(plan) \in Nat /\ received \in Seq(Seq(Nat))
      /\ fetched \in Nat /\ arrived \in Nat
      /\ \A k \in 1 .. m : received[k] = ItemOf(plan, k)
  BY <1>1, PlanFacts, ReaderFacts DEF SessionInv, HistoryOf
<1>4. CASE R!DeserializeReady
  <2>1. /\ r_state = "Deserialize" /\ r_state' = "Complete"
        /\ UNCHANGED <<r_want, r_frame, arrived, fetched>>
        /\ received' = Append(received, Read(r_fed'))
    BY <1>4 DEF R!DeserializeReady, R!Deserializing, R!transport, ReaderRuns
  <2>2. /\ received' \in Seq(Seq(Nat)) /\ Len(received') = m + 1
        /\ received'[m + 1] = ItemOf(plan, m + 1)
        /\ \A k \in 1 .. m : received'[k] = received[k]
    BY <1>3, <1>4, <2>1, ItemReceived
  <2>3. ReaderPlace'
    BY <1>1, <1>3, <1>4, <2>1, <2>2, ItemReceived DEF ReaderPlace
  <2>4. HistoryOf(received)'
    <3>1. ASSUME NEW k \in 1 .. m + 1 PROVE received'[k] = ItemOf(plan, k)
      <4>1. CASE k = m + 1
        BY <2>2, <4>1
      <4>2. CASE k \in 1 .. m
        BY <1>3, <2>2, <4>2
      <4>. QED BY <1>3, <4>1, <4>2
    <3>2. m + 1 <= Len(plan)
      BY <1>3, <1>4, ItemReceived
    <3>. QED BY <1>1, <2>2, <3>1, <3>2 DEF HistoryOf
  <2>5. StreamIsCausal'
    BY <1>1, <2>1 DEF StreamIsCausal
  <2>. QED BY <1>1, <1>2, <2>3, <2>4, <2>5, WriterUntouched DEF SessionInv
<1>5. CASE R!Poll \/ R!DeserializeInsufficient \/ R!ReadPending \/ R!ReadFails
           \/ \E size \in R!ReadSizes : R!ReadOk(size)
  <2>1. /\ r_state \in {"Deserialize", "Reading"} /\ r_state' \in {"Deserialize", "Reading"}
        /\ UNCHANGED <<r_want, r_frame, arrived>>
    BY <1>5
    DEF R!Poll, R!DeserializeInsufficient, R!ReadPending, R!ReadFails, R!ReadOk,
        R!Deserializing, R!Reading, R!codec, R!transport
  <2>2. received' = received
    BY <2>1 DEF ReaderRuns
  <2>3. fetched' <= arrived
    <3>1. CASE \E size \in R!ReadSizes : R!ReadOk(size)
      <4>1. PICK size \in R!ReadSizes : R!ReadOk(size)
        BY <3>1
      <4>2. fetched' = fetched + size
        BY <4>1 DEF R!ReadOk
      <4>3. size = 0 \/ (size \in Int /\ size <= arrived - fetched)
        <5>1. R!Free \in Int
          BY <1>1, ReaderFacts, SessionConstants DEF R!Free, R!Residue, R!CursorByte
        <5>. QED BY <1>3, <4>1, <5>1 DEF R!ReadSizes, R!Smaller, R!Waiting
      <4>. QED BY <1>1, <1>3, <4>2, <4>3 DEF StreamIsCausal
    <3>2. CASE R!Poll \/ R!DeserializeInsufficient \/ R!ReadPending \/ R!ReadFails
      BY <1>1, <3>2
      DEF R!Poll, R!DeserializeInsufficient, R!ReadPending, R!ReadFails, StreamIsCausal
    <3>. QED BY <1>5, <3>1, <3>2
  <2>4. StreamIsCausal'
    BY <1>1, <2>1, <2>3 DEF StreamIsCausal
  <2>5. ReaderPlace' /\ HistoryOf(received)'
    BY <1>1, <2>1, <2>2 DEF SessionInv, ReaderPlace, HistoryOf
  <2>. QED BY <1>1, <1>2, <2>4, <2>5, WriterUntouched DEF SessionInv
<1>. QED BY <1>4, <1>5 DEF ReaderRuns

LEMMA SessionInvReceiveNext == SessionInv /\ ReceiveNext => SessionInv'
<1> SUFFICES ASSUME SessionInv, ReceiveNext PROVE SessionInv'
  OBVIOUS
<1> DEFINE m == Len(received)
           bits == plan[m + 1]
<1>1. /\ m < Len(plan) /\ m \in Nat /\ Len(plan) \in Nat /\ bits \in Sizes
      /\ R!Reset(bits) /\ R!ReaderInv /\ ReaderPlace
      /\ UNCHANGED <<plan, writer, sent, received>> /\ UNCHANGED wire
  BY PlanFacts DEF ReceiveNext, SessionInv, writer
<1>2. R!ReaderInv'
  BY <1>1, ReaderInvInSession
<1>3. /\ r_state = "Complete" /\ r_state' = "Deserialize" /\ r_want' = bits
      /\ r_frame' = r_frame + R!BytesFor(Len(r_fed))
      /\ UNCHANGED <<arrived, fetched>>
  BY <1>1 DEF R!Reset, R!transport
<1>4. m \in 1 .. Len(plan) /\ r_frame = StartOf(plan, m) /\ Len(r_fed) = plan[m]
  BY <1>1, <1>3 DEF ReaderPlace
<1>5. r_frame' = StartOf(plan, m + 1)
  BY <1>3, <1>4, NextStart
<1>6. ReaderPlace'
  BY <1>1, <1>3, <1>5 DEF ReaderPlace
<1>7. StreamIsCausal' /\ HistoryOf(received)'
  BY <1>1, <1>3 DEF SessionInv, StreamIsCausal, HistoryOf
<1>. QED BY <1>1, <1>2, <1>6, <1>7, WriterUntouched DEF SessionInv

LEMMA SessionInvStep == SessionInv /\ [Next]_vars => SessionInv'
<1>1. SessionInv /\ UNCHANGED vars => SessionInv'
  <2> SUFFICES ASSUME SessionInv, UNCHANGED vars PROVE SessionInv'
    OBVIOUS
  <2>1. UNCHANGED <<plan, writer, sent>> /\ UNCHANGED <<plan, reader, received>>
    BY DEF vars
  <2>2. StreamIsCausal'
    BY <2>1 DEF SessionInv, StreamIsCausal, reader, writer
  <2>. QED BY <2>1, <2>2, ReaderUntouched, WriterUntouched DEF SessionInv
<1>. QED
  BY <1>1, SessionInvWriterRuns, SessionInvTakeStream, SessionInvSendNext,
     SessionInvDeliver, SessionInvReaderRuns, SessionInvReceiveNext
  DEF Next

-----------------------------------------------------------------------------
(* What every session guarantees.                                          *)

(* The invariant of a session: writer and reader keep their own, and each  *)
(* is at its place in the plan although nothing tells them of each other.  *)
THEOREM SessionInvariant == Spec => []SessionInv
<1>1. Init => SessionInv
  BY SessionInvInit
<1>2. SessionInv /\ [Next]_vars => SessionInv'
  BY SessionInvStep
<1>. QED BY <1>1, <1>2, PTL DEF Spec

(* The two adapters stay in the states and ranges their fields have.       *)
THEOREM SessionTypeCorrect == Spec => []TypeOK
<1>1. SessionInv => TypeOK
  BY DEF SessionInv, W!WriterInv, R!ReaderInv, TypeOK
<1>. QED BY <1>1, SessionInvariant, PTL

(* Every bit the deserializers were ever fed is the bit the serializer     *)
(* emitted at that place of that item, and every item received is the item *)
(* that was to be sent: nothing is lost, repeated or displaced between two *)
(* adapters that share no framing.                                         *)
THEOREM SessionEndToEnd == Spec => []EndToEnd
<1>1. ASSUME SessionInv PROVE EndToEnd
  <2>1. R!ReaderInv /\ ReaderPlace
    BY <1>1 DEF SessionInv
  <2>2. ASSUME NEW i \in 1 .. Len(r_fed)
        PROVE  wire[r_fed[i] + 1] = 8 * r_frame + i - 1
    <3>1. r_state \in {"Deserialize", "Reading", "Complete"}
      BY <2>1 DEF ReaderPlace, R!ReaderInv, R!TypeOK
    <3>2. PICK k \in 1 .. Len(plan) : r_want = plan[k] /\ r_frame = StartOf(plan, k)
      <4>1. CASE r_state = "Complete"
        <5>1. Len(received) \in 1 .. Len(plan)
          BY <1>1, <2>1, <4>1, PlanFacts DEF ReaderPlace
        <5>. QED BY <2>1, <4>1, <5>1 DEF ReaderPlace
      <4>2. CASE r_state \in {"Deserialize", "Reading"}
        <5>1. Len(received) + 1 \in 1 .. Len(plan)
          BY <1>1, <2>1, <4>2, PlanFacts DEF ReaderPlace
        <5>. QED BY <2>1, <4>2, <5>1 DEF ReaderPlace
      <4>. QED BY <3>1, <4>1, <4>2
    <3>3. /\ r_fed[i] = 8 * r_frame + i - 1 /\ i \in 1 .. plan[k]
          /\ r_frame \in Nat /\ fetched \in Nat /\ Len(r_fed) \in Nat
          /\ r_cursor \in Nat /\ r_last_byte \in Nat /\ r_cursor <= 8 * r_last_byte
      BY <2>1, <3>2, ReaderFacts, SMTT(60) DEF R!FedExactly
    <3>4. 8 * r_frame + Len(r_fed) <= R!Position
      <4>1. Len(r_fed) <= 8 * R!BytesFor(Len(r_fed)) /\ R!BytesFor(Len(r_fed)) \in Nat
        BY <3>3 DEF R!BytesFor
      <4>2. R!Position = 8 * r_frame + Len(r_fed)
            \/ R!Position = 8 * (r_frame + R!BytesFor(Len(r_fed)))
        BY <2>1 DEF R!ReaderInv, R!CursorFollowsCodec
      <4>. QED BY <3>3, <4>1, <4>2
    <3>5. 8 * StartOf(plan, k) + i <= 8 * fetched
      <4>1. R!Position <= 8 * fetched
        BY <3>3 DEF R!Position
      <4>2. R!Position \in Int
        BY <3>3 DEF R!Position
      <4>. QED BY <3>2, <3>3, <3>4, <4>1, <4>2
    <3>. QED BY <1>1, <3>2, <3>3, <3>5, BitInPlace
  <2>. QED BY <1>1, <2>2 DEF SessionInv, HistoryOf, EndToEnd
<1>. QED BY <1>1, SessionInvariant, PTL

(* Frameless and still aligned: a writer that starts on an item has put on *)
(* the wire the bytes of the items before and nothing else, and a reader   *)
(* that starts on it has its cursor on that very byte, whatever it has     *)
(* read ahead.                                                             *)
THEOREM SessionAligned == Spec => []Aligned
<1>1. ASSUME SessionInv PROVE Aligned
  <2>1. ASSUME w_state = "Serialize", w_emitted = 0
        PROVE  Len(wire) = 8 * StartOf(plan, Len(sent) + 1)
    <3>1. /\ w_frame = StartOf(plan, Len(sent) + 1) /\ w_frame \in Nat /\ Len(wire) \in Nat
          /\ Len(wire) + 0 = 8 * w_frame + 0
      BY <1>1, <2>1, WriterFacts DEF SessionInv, WriterPlace, WriterState
    <3>. QED BY <3>1
  <2>2. ASSUME r_state \in {"Deserialize", "Reading"}, r_fed = <<>>
        PROVE  R!Position = 8 * StartOf(plan, Len(received) + 1)
    <3>1. /\ r_frame = StartOf(plan, Len(received) + 1) /\ r_frame \in Nat
          /\ R!Position = 8 * r_frame + 0
      BY <1>1, <2>2, ReaderFacts DEF SessionInv, ReaderPlace
    <3>. QED BY <3>1
  <2>. QED BY <2>1, <2>2 DEF Aligned
<1>. QED BY <1>1, SessionInvariant, PTL

-----------------------------------------------------------------------------
(* A session is a first-in first-out channel.                              *)

(* An item with bits that is whole on the wire was sent: the last bits of  *)
(* an item leave the buffer only with the write that completes it.         *)
LEMMA OnTheWireWasSent ==
  ASSUME SessionInv, NEW k \in 1 .. Len(plan), plan[k] > 0,
         8 * StartOf(plan, k) + plan[k] <= Len(wire)
  PROVE  k <= Len(sent)
<1> DEFINE n == Len(sent)
<1>1. SUFFICES ASSUME k > n PROVE FALSE
  BY PlanFacts
<1>2. /\ n \in Nat /\ Len(plan) \in Nat /\ n + 1 \in 1 .. Len(plan)
      /\ plan \in Seq(Nat) /\ plan[k] \in Nat /\ plan[n + 1] \in Nat
      /\ n + 1 \in 1 .. Len(plan) + 1 /\ k \in n + 1 .. Len(plan) + 1
      /\ k > n + 1 => n + 2 \in 1 .. Len(plan) + 1 /\ k \in n + 2 .. Len(plan) + 1
  BY <1>1, PlanFacts
<1>3. /\ WriterPlace /\ WriterState
  BY WriterFacts DEF SessionInv, WriterPlace
<1>4. Len(wire) \in Nat /\ w_want \in Nat /\ w_emitted \in Nat /\ w_cursor \in Nat
  BY <1>3 DEF WriterState
<1>5. /\ StartOf(plan, n + 1) \in Nat /\ StartOf(plan, k) \in Nat
      /\ StartOf(plan, n + 1) <= StartOf(plan, k)
  <2>. HIDE DEF n
  <2>. QED BY <1>2, StartOfIsMonotonic
<1>6. /\ Len(wire) > 8 * StartOf(plan, k)
      /\ Len(wire) > 8 * StartOf(plan, n + 1)
  <2>1. 8 * StartOf(plan, k) + plan[k] > 8 * StartOf(plan, k)
    BY <1>2, <1>5
  <2>2. 8 * StartOf(plan, k) + plan[k] \in Int /\ 8 * StartOf(plan, k) \in Int
    BY <1>2, <1>5, SMTT(60)
  <2>3. Len(wire) > 8 * StartOf(plan, k)
    BY <1>4, <2>1, <2>2
  <2>4. 8 * StartOf(plan, n + 1) <= 8 * StartOf(plan, k)
    BY <1>5
  <2>5. 8 * StartOf(plan, n + 1) \in Int
    BY <1>5
  <2>. QED BY <1>4, <2>2, <2>3, <2>4, <2>5
<1>7. CASE w_state \in {"Serialize", "Writing"}
  <2>1. /\ w_want = plan[n + 1] /\ w_frame = StartOf(plan, n + 1)
        /\ w_want = 0 \/ Len(wire) < 8 * w_frame + w_want
        /\ Len(wire) + w_cursor = 8 * w_frame + w_emitted /\ w_emitted <= w_want
    BY <1>3, <1>7 DEF WriterPlace, WriterState
  <2>2. Len(wire) < 8 * StartOf(plan, n + 1) + plan[n + 1]
    BY <1>4, <1>5, <1>6, <2>1
  <2>3. CASE k = n + 1
    BY <1>2, <1>4, <1>5, <2>2, <2>3
  <2>4. CASE k > n + 1
    <3>1. /\ StartOf(plan, n + 2) \in Nat /\ StartOf(plan, n + 2) <= StartOf(plan, k)
      <4>. HIDE DEF n
      <4>. QED BY <1>2, <2>4, StartOfIsMonotonic
    <3>2. 8 * StartOf(plan, n + 1) + plan[n + 1] <= 8 * StartOf(plan, n + 2)
      <4>1. (n + 1) + 1 = n + 2
        BY <1>2
      <4>. QED BY <1>2, <4>1, NextStart
    <3>3. 8 * StartOf(plan, n + 2) <= 8 * StartOf(plan, k)
      BY <1>5, <3>1
    <3>. QED BY <1>2, <1>4, <1>5, <1>6, <2>2, <3>1, <3>2, <3>3, SMTT(60)
  <2>. QED BY <1>1, <1>2, <2>3, <2>4
<1>8. CASE w_state = "Complete"
  <2>1. /\ n \in 1 .. Len(plan)
        /\ Len(wire) = 8 * (StartOf(plan, n) + W!BytesFor(plan[n]))
    BY <1>2, <1>3, <1>8, SMTT(60) DEF WriterPlace, WriterState
  <2>. QED BY <1>6, <2>1, NextStart
<1>9. CASE w_state = "Taken"
  BY <1>3, <1>4, <1>5, <1>6, <1>9 DEF WriterPlace
<1>. QED BY <1>3, <1>7, <1>8, <1>9 DEF WriterState

(* Completing an item sends it; all else the writer does stutters.         *)
LEMMA WriterRefines == SessionInv /\ WriterRuns => [Channel!Next]_Channel!vars
<1> SUFFICES ASSUME SessionInv, WriterRuns PROVE [Channel!Next]_Channel!vars
  OBVIOUS
<1>1. UNCHANGED received
  BY DEF WriterRuns
<1>2. CASE w_state' = "Complete"
  <2> DEFINE n == Len(sent)
  <2>1. /\ sent' = Append(sent, Written) /\ w_state \in {"Serialize", "Writing"}
    BY <1>2
    DEF WriterRuns, W!Poll, W!SerializeReady, W!SerializeInsufficient, W!WriteWhole,
        W!Serializing, W!Writing
  <2>2. n + 1 \in 1 .. Len(plan) /\ w_want = plan[n + 1] /\ w_frame = StartOf(plan, n + 1)
    BY <2>1, PlanFacts DEF SessionInv, WriterPlace
  <2>3. Written = ItemOf(plan, n + 1) /\ plan \in Plans
    BY <2>2 DEF Written, ItemOf, SessionInv
  <2>4. Written \in Seq(Nat)
    <3>1. w_want \in Nat /\ w_frame \in Nat
      BY <2>2, PlanFacts, NextStart
    <3>2. \A i \in 1 .. w_want : 8 * w_frame + i - 1 \in Nat
      BY <3>1
    <3>. QED BY <3>1, <3>2 DEF Written
  <2>5. Written \in ItemsOfPlans
    BY <2>2, <2>3 DEF ItemsOfPlans
  <2>6. WithBits(sent)' = IF Written = <<>> THEN WithBits(sent)
                                            ELSE Append(WithBits(sent), Written)
    <3>1. WithBits(Append(sent, Written)) = IF Written = <<>> THEN WithBits(sent)
                                            ELSE Append(WithBits(sent), Written)
      BY <2>4, PlanFacts, WithBitsOfAppend
    <3>2. WithBits(sent)' = WithBits(sent')
      BY DEF WithBits
    <3>. QED BY <2>1, <3>1, <3>2
  <2>7. WithBits(received)' = WithBits(received)
    BY <1>1 DEF WithBits
  <2>. QED BY <2>5, <2>6, <2>7 DEF Channel!Next, Channel!Send, Channel!vars
<1>3. CASE w_state' # "Complete"
  <2>1. UNCHANGED <<sent, received>>
    BY <1>1, <1>3 DEF WriterRuns
  <2>. QED BY <2>1 DEF Channel!vars, WithBits
<1>. QED BY <1>2, <1>3

(* Completing an item receives the next of those that were sent, unless it *)
(* has no bits; all else the reader does stutters.                         *)
LEMMA ReaderRefines == SessionInv /\ ReaderRuns => [Channel!Next]_Channel!vars
<1> SUFFICES ASSUME SessionInv, ReaderRuns PROVE [Channel!Next]_Channel!vars
  OBVIOUS
<1>1. UNCHANGED sent
  BY DEF ReaderRuns
<1>2. CASE R!DeserializeReady
  <2> DEFINE m == Len(received)
             item == ItemOf(plan, m + 1)
  <2>1. /\ received' = Append(received, item) /\ item \in Seq(Nat)
        /\ m + 1 \in 1 .. Len(plan)
        /\ 8 * StartOf(plan, m + 1) + plan[m + 1] <= 8 * fetched
    <3>1. received' = Append(received, Read(r_fed'))
      BY <1>2 DEF ReaderRuns, R!DeserializeReady
    <3>. QED BY <1>2, <3>1, ItemReceived
  <2>2. WithBits(received)' = IF item = <<>> THEN WithBits(received)
                                             ELSE Append(WithBits(received), item)
    <3>1. WithBits(Append(received, item)) = IF item = <<>> THEN WithBits(received)
                                             ELSE Append(WithBits(received), item)
      BY <2>1, PlanFacts, WithBitsOfAppend
    <3>2. WithBits(received)' = WithBits(received')
      BY DEF WithBits
    <3>. QED BY <2>1, <3>1, <3>2
  <2>3. WithBits(sent)' = WithBits(sent)
    BY <1>1 DEF WithBits
  <2>4. CASE item = <<>>
    BY <2>2, <2>3, <2>4 DEF Channel!vars
  <2>5. CASE item # <<>>
    <3>1. plan[m + 1] \in Nat /\ plan[m + 1] > 0
      <4>1. plan[m + 1] \in Nat
        BY <2>1, PlanFacts
      <4>2. CASE plan[m + 1] = 0
        BY <2>5, <4>2 DEF ItemOf
      <4>. QED BY <4>1, <4>2
    <3>2. 8 * StartOf(plan, m + 1) + plan[m + 1] <= Len(wire)
      <4>1. /\ fetched \in Nat /\ arrived \in Nat /\ Len(wire) \in Nat
            /\ fetched <= arrived /\ 8 * arrived <= Len(wire)
        BY WriterFacts, ReaderFacts DEF SessionInv, WriterPlace, WriterState, StreamIsCausal
      <4>2. StartOf(plan, m + 1) \in Nat
        BY <2>1, NextStart
      <4>. QED BY <2>1, <3>1, <4>1, <4>2
    <3>3. m + 1 <= Len(sent)
      BY <2>1, <3>1, <3>2, OnTheWireWasSent
    <3>4. /\ m < Len(sent) /\ sent[m + 1] = item
          /\ \A k \in 1 .. m : sent[k] = received[k]
      <4>1. /\ \A k \in 1 .. Len(sent) : sent[k] = ItemOf(plan, k)
            /\ \A k \in 1 .. m : received[k] = ItemOf(plan, k)
        BY DEF SessionInv, HistoryOf
      <4>2. m \in Nat /\ Len(sent) \in Nat
        BY PlanFacts
      <4>. QED BY <3>3, <4>1, <4>2
    <3>5. /\ Len(WithBits(received)) < Len(WithBits(sent))
          /\ WithBits(sent)[Len(WithBits(received)) + 1] = item
      BY <2>5, <3>4, PlanFacts, WithBitsOfLonger
    <3>. QED BY <2>2, <2>3, <2>5, <3>5 DEF Channel!Next, Channel!Receive
  <2>. QED BY <2>4, <2>5
<1>3. CASE R!Poll \/ R!DeserializeInsufficient \/ R!ReadPending \/ R!ReadFails
           \/ \E size \in R!ReadSizes : R!ReadOk(size)
  <2>1. r_state' # "Complete"
    BY <1>3
    DEF R!Poll, R!DeserializeInsufficient, R!ReadPending, R!ReadFails, R!ReadOk,
        R!Reading, R!Deserializing
  <2>2. UNCHANGED <<sent, received>>
    BY <1>1, <2>1 DEF ReaderRuns
  <2>. QED BY <2>2 DEF Channel!vars, WithBits
<1>. QED BY <1>2, <1>3 DEF ReaderRuns

(* A session implements a first-in first-out channel of the items that     *)
(* have bits: a deserializer returns exactly the items a serializer has    *)
(* completed, each once, in order and never before.                        *)
THEOREM SessionIsChannel == Spec => IsChannel
<1>1. Init => Channel!Init
  <2>1. WithBits(<<>>) = <<>>
    <3>1. <<>> \in Seq(Seq(Nat)) /\ Len(<<>>) = 0
      OBVIOUS
    <3>. QED BY <3>1, KeptOfGrows
  <2>. QED BY <2>1 DEF Init, Channel!Init
<1>2. SessionInv /\ [Next]_vars => [Channel!Next]_Channel!vars
  <2>1. ASSUME SessionInv, TakeStream \/ SendNext \/ Deliver \/ ReceiveNext \/ UNCHANGED vars
        PROVE  [Channel!Next]_Channel!vars
    <3>1. UNCHANGED <<sent, received>>
      BY <2>1 DEF TakeStream, SendNext, Deliver, ReceiveNext, vars
    <3>. QED BY <3>1 DEF Channel!vars, WithBits
  <2>. QED BY <2>1, WriterRefines, ReaderRefines DEF Next
<1>. QED BY <1>1, <1>2, SessionInvariant, PTL DEF Spec, IsChannel, Channel!Spec

=============================================================================
