--------------------------- MODULE SerializerProofs ---------------------------
(***************************************************************************)
(* What the serializers of the crate guarantee for every set of values,    *)
(* however deep they nest, and for buffers of every size: until an element *)
(* of a sequence is dropped, they write the encoding of their value, and   *)
(* keep the contract their adapter relies on.                              *)
(***************************************************************************)
EXTENDS Serializer, FiniteRecursion

-----------------------------------------------------------------------------
(* What is still due.                                                      *)

Bits == Seq({0, 1})

(* The encodings of parts: that of the first, then those of the others.    *)
LEMMA JoinedHeadTail ==
  ASSUME NEW parts \in Seq(Nested)
  PROVE  /\ Joined(<<>>) = <<>> /\ Joined(parts) \in Bits
         /\ parts # <<>> => Joined(parts) = EncodingOf(Head(parts)) \o Joined(Tail(parts))
<1> DEFINE s == [i \in 1 .. Len(parts) |-> EncodingOf(parts[i])]
<1>1. \A it \in Nested : EncodingOf(it) \in Bits
  BY ItemsAreEncoded DEF IsEncoded, Bits
<1>2. s \in Seq(Bits) /\ Len(s) = Len(parts)
  BY <1>1
<1>3. Joined(<<>>) = <<>>
  BY DEF Joined, FlattenSeq
<1>4. Joined(parts) \in Bits
  BY <1>2, FlattenHeadTail DEF Joined, Bits
<1>5. ASSUME parts # <<>>
      PROVE  Joined(parts) = EncodingOf(Head(parts)) \o Joined(Tail(parts))
  <2> DEFINE rest == [i \in 1 .. Len(Tail(parts)) |-> EncodingOf(Tail(parts)[i])]
  <2>1. /\ Len(parts) \in Nat /\ Len(parts) # 0 /\ Head(parts) = parts[1]
        /\ Tail(parts) \in Seq(Nested) /\ Len(Tail(parts)) = Len(parts) - 1
        /\ \A i \in 1 .. Len(Tail(parts)) : Tail(parts)[i] = parts[i + 1]
    BY <1>5
  <2>2. s # <<>> /\ Head(s) = EncodingOf(Head(parts))
    BY <1>2, <2>1
  <2>3. Tail(s) = rest
    <3>1. Tail(s) \in Seq(Bits) /\ Len(Tail(s)) = Len(parts) - 1
      BY <1>2, <2>2
    <3>2. rest \in Seq(Bits) /\ Len(rest) = Len(parts) - 1
      BY <1>1, <2>1
    <3>3. ASSUME NEW i \in 1 .. Len(parts) - 1 PROVE Tail(s)[i] = rest[i]
      <4>1. Tail(s)[i] = s[i + 1] /\ i + 1 \in 1 .. Len(parts) /\ i \in 1 .. Len(Tail(parts))
        BY <1>2, <2>1, <2>2
      <4>. QED BY <2>1, <4>1
    <3>. HIDE DEF s, rest
    <3>. QED BY <3>1, <3>2, <3>3, SeqEqual
  <2>4. FlattenSeq(s) = Head(s) \o FlattenSeq(Tail(s))
    <3>. HIDE DEF s
    <3>. QED BY <1>2, <2>2, FlattenHeadTail DEF Bits
  <2>5. FlattenSeq(s) = EncodingOf(Head(parts)) \o FlattenSeq(rest)
    <3>. HIDE DEF s, rest
    <3>. QED BY <2>2, <2>3, <2>4, Zenon
  <2>. QED BY <2>5 DEF Joined
<1>. QED BY <1>3, <1>4, <1>5

(* A new frame owes the encoding of its item.                              *)
LEMMA FrameOwesEncoding ==
  ASSUME NEW it \in Nested
  PROVE  FrameOf(it) \in Frames /\ Owed(FrameOf(it)) = EncodingOf(it)
<1> DEFINE own == Own(it)
<1>1. /\ own.bits \in Bits /\ own.parts \in Seq(Nested)
      /\ EncodingOf(it) = own.bits \o Joined(own.parts)
  BY ItemsAreEncoded DEF IsEncoded, Bits
<1>2. it.type.kind \in Kinds
  BY DEF Kinds
<1> HIDE DEF own
<1>3. FrameOf(it) = [ kind    |-> it.type.kind,
                      refused |-> it.type.kind = "mapped" /\ it.value.n = 1,
                      bits    |-> own.bits,
                      parts   |-> own.parts ]
  BY DEF FrameOf, own
<1>4. FrameOf(it) \in Frames
  BY <1>1, <1>2, <1>3 DEF Frames, Bits
<1>5. FrameOf(it).bits = own.bits /\ FrameOf(it).parts = own.parts
  BY <1>3
<1>6. Owed(FrameOf(it)) = EncodingOf(it)
  BY <1>1, <1>5, Zenon DEF Owed
<1>. QED BY <1>4, <1>6

(* What a frame owes are bits.                                             *)
LEMMA OwedIsBits ==
  ASSUME NEW frame \in Frames
  PROVE  /\ frame.bits \in Bits /\ frame.parts \in Seq(Nested)
         /\ Joined(frame.parts) \in Bits /\ Owed(frame) \in Bits
<1>1. frame.bits \in Bits /\ frame.parts \in Seq(Nested)
  BY DEF Frames, Bits
<1>2. Joined(frame.parts) \in Bits
  BY <1>1, JoinedHeadTail
<1> DEFINE a == frame.bits
           b == Joined(frame.parts)
<1>3. a \o b \in Bits
  <2>1. a \in Bits /\ b \in Bits
    BY <1>1, <1>2
  <2>. HIDE DEF a, b
  <2>. QED BY <2>1, ConcatProperties DEF Bits
<1>. QED BY <1>1, <1>2, <1>3, Zenon DEF Owed

(* What a stack owes: what its innermost frame does, then what the others  *)
(* do.                                                                     *)
LEMMA DueTop ==
  ASSUME NEW frames \in Seq(Frames)
  PROVE  /\ Due(<<>>) = <<>> /\ Due(frames) \in Bits
         /\ frames # <<>> => Due(frames) = Owed(frames[Len(frames)])
                                             \o Due(SubSeq(frames, 1, Len(frames) - 1))
<1> DEFINE n == Len(frames)
           s == [i \in 1 .. Len(frames) |-> Owed(frames[Len(frames) + 1 - i])]
<1>1. n \in Nat /\ \A i \in 1 .. n : n + 1 - i \in 1 .. n /\ frames[n + 1 - i] \in Frames
  OBVIOUS
<1>2. s \in Seq(Bits) /\ Len(s) = n
  BY <1>1, OwedIsBits
<1>3. Due(<<>>) = <<>>
  BY DEF Due, FlattenSeq
<1>4. Due(frames) \in Bits
  BY <1>2, FlattenHeadTail DEF Due, Bits
<1>5. ASSUME frames # <<>>
      PROVE  Due(frames) = Owed(frames[n]) \o Due(SubSeq(frames, 1, n - 1))
  <2> DEFINE below == SubSeq(frames, 1, n - 1)
             rest  == [i \in 1 .. Len(below) |-> Owed(below[Len(below) + 1 - i])]
  <2>1. /\ n # 0 /\ n - 1 \in Nat /\ below \in Seq(Frames) /\ Len(below) = n - 1
        /\ \A i \in 1 .. n - 1 : below[i] = frames[i]
    <3>1. n # 0 /\ n - 1 \in Nat /\ n - 1 <= n
      BY <1>5, EmptySeq
    <3>. HIDE DEF n
    <3>2. below = SubSeq(frames, 1, n - 1) /\ n = Len(frames)
      BY DEF n
    <3>. HIDE DEF below
    <3>. QED BY <3>1, <3>2, SubSeqProperties
  <2>2. s # <<>> /\ Head(s) = Owed(frames[n])
    <3>1. 1 \in 1 .. n /\ n + 1 - 1 = n
      BY <1>1, <2>1
    <3>2. s[1] = Owed(frames[n])
      BY <3>1
    <3>. HIDE DEF s
    <3>. QED BY <1>2, <2>1, <3>2
  <2>3. Tail(s) = rest
    <3>1. Tail(s) \in Seq(Bits) /\ Len(Tail(s)) = n - 1
          /\ \A i \in 1 .. n - 1 : Tail(s)[i] = s[i + 1]
      <4>. HIDE DEF s
      <4>. QED BY <1>1, <1>2, <2>2
    <3>2. \A i \in 1 .. n - 1 : (n - 1) + 1 - i \in 1 .. n - 1
      BY <1>1
    <3>3. rest \in Seq(Bits) /\ Len(rest) = n - 1
      <4>1. \A i \in 1 .. n - 1 : Owed(below[(n - 1) + 1 - i]) \in Bits
        <5>. HIDE DEF below, n
        <5>. QED BY <2>1, <3>2, OwedIsBits
      <4>. HIDE DEF below
      <4>. QED BY <2>1, <4>1
    <3>4. ASSUME NEW i \in 1 .. n - 1 PROVE Tail(s)[i] = rest[i]
      <4>1. n + 1 - (i + 1) = (n - 1) + 1 - i /\ i + 1 \in 1 .. n
        BY <1>1
      <4>2. below[(n - 1) + 1 - i] = frames[(n - 1) + 1 - i]
        BY <2>1, <3>2
      <4>3. rest[i] = Owed(below[(n - 1) + 1 - i])
        <5>. HIDE DEF below
        <5>. QED BY <2>1
      <4>4. s[i + 1] = Owed(frames[n + 1 - (i + 1)])
        BY <4>1
      <4>. HIDE DEF s, rest, below, n
      <4>. QED BY <3>1, <4>1, <4>2, <4>3, <4>4
    <3>. HIDE DEF s, rest, n
    <3>. QED BY <3>1, <3>3, <3>4, SeqEqual
  <2>4. FlattenSeq(s) = Head(s) \o FlattenSeq(Tail(s))
    <3>. HIDE DEF s
    <3>. QED BY <1>2, <2>2, FlattenHeadTail DEF Bits
  <2>5. FlattenSeq(s) = Owed(frames[n]) \o FlattenSeq(rest)
    <3>. HIDE DEF s, rest
    <3>. QED BY <2>2, <2>3, <2>4, Zenon
  <2>. QED BY <2>5 DEF Due
<1>. QED BY <1>3, <1>4, <1>5

(* Frames pushed and replaced.                                             *)
LEMMA DuePushed ==
  ASSUME NEW frames \in Seq(Frames), NEW frame \in Frames
  PROVE  Due(Append(frames, frame)) = Owed(frame) \o Due(frames)
<1> DEFINE all == Append(frames, frame)
<1>1. /\ all \in Seq(Frames) /\ all # <<>> /\ all[Len(all)] = frame
      /\ SubSeq(all, 1, Len(all) - 1) = frames
  OBVIOUS
<1> HIDE DEF all
<1>2. Due(all) = Owed(all[Len(all)]) \o Due(SubSeq(all, 1, Len(all) - 1))
  BY <1>1, DueTop
<1>3. Due(all) = Owed(frame) \o Due(frames)
  BY <1>1, <1>2, Zenon
<1>. QED BY <1>3 DEF all

LEMMA DueReplaced ==
  ASSUME NEW frames \in Seq(Frames), frames # <<>>, NEW frame \in Frames
  PROVE  LET top == [frames EXCEPT ![Len(frames)] = frame]
         IN  /\ top \in Seq(Frames) /\ Len(top) = Len(frames) /\ top # <<>>
             /\ Due(top) = Owed(frame) \o Due(SubSeq(frames, 1, Len(frames) - 1))
<1> DEFINE top == [frames EXCEPT ![Len(frames)] = frame]
<1>1. Len(frames) \in Nat \ {0} /\ Len(frames) \in 1 .. Len(frames)
  OBVIOUS
<1>2. /\ top \in Seq(Frames) /\ Len(top) = Len(frames) /\ top[Len(frames)] = frame
      /\ \A i \in 1 .. Len(frames) - 1 : top[i] = frames[i]
  BY <1>1
<1>3. top # <<>>
  BY <1>1, <1>2
<1> HIDE DEF top
<1>4. SubSeq(top, 1, Len(top) - 1) = SubSeq(frames, 1, Len(frames) - 1)
  BY <1>1, <1>2
<1>5. Due(top) = Owed(top[Len(top)]) \o Due(SubSeq(top, 1, Len(top) - 1))
  BY <1>2, <1>3, DueTop
<1>6. Due(top) = Owed(frame) \o Due(SubSeq(frames, 1, Len(frames) - 1))
  BY <1>2, <1>4, <1>5, Zenon
<1>. QED BY <1>2, <1>3, <1>6 DEF top

-----------------------------------------------------------------------------
(* The steps.                                                              *)

(* Bits put together.                                                      *)
LEMMA Concat ==
  /\ \A x, y \in Bits : x \o y \in Bits
  /\ \A x, y, z \in Bits : (x \o y) \o z = x \o (y \o z)
BY ConcatProperties, ConcatAssociative DEF Bits

(* What is due when a codec polls the serializer of its next part.         *)
LEMMA PartMoves ==
  ASSUME NEW e \in Bits, NEW j \in Bits, NEW d \in Bits
  PROVE  (<<>> \o (e \o j)) \o d = e \o ((<<>> \o j) \o d)
<1>1. e \o j \in Bits
  BY DEF Bits
<1>2. <<>> \o (e \o j) = e \o j /\ <<>> \o j = j
  BY <1>1, ConcatEmptySeq DEF Bits
<1>3. (e \o j) \o d = e \o (j \o d)
  BY ConcatAssociative, SMTT(60) DEF Bits
<1>. QED BY <1>2, <1>3, Zenon

(* A call finds frames, if there were any.                                 *)
LEMMA ResumedIsStack ==
  ASSUME stack \in Seq(Frames), stack # <<>>
  PROVE  Resumed \in Seq(Frames) /\ Resumed # <<>>
<1> DEFINE losing == { i \in 1 .. Len(stack) - 1 : stack[i].kind \in Iterating }
           least(i) == i \in losing /\ \A j \in losing : i <= j
           first == CHOOSE i \in losing : \A j \in losing : i <= j
           end == IF losing = {} THEN Len(stack) ELSE first
<1>1. Len(stack) \in Nat /\ Len(stack) # 0
  BY EmptySeq
<1>2. ASSUME losing # {} PROVE first \in losing
  <2>1. losing \subseteq Nat
    BY <1>1
  <2>2. PICK m \in losing : \A n \in losing : m <= n
    <3>. HIDE DEF losing
    <3>. QED BY <1>2, <2>1, LeastOf
  <2>. HIDE DEF losing
  <2>. QED BY <2>2
<1>3. end \in 1 .. Len(stack)
  <2>1. \A i \in losing : i \in 1 .. Len(stack)
    BY <1>1
  <2>. HIDE DEF losing, first
  <2>. QED BY <1>1, <1>2, <2>1
<1>4. Resumed = SubSeq(stack, 1, end)
  BY DEF Resumed
<1> HIDE DEF end
<1>5. SubSeq(stack, 1, end) \in Seq(Frames) /\ Len(SubSeq(stack, 1, end)) = end
  BY <1>1, <1>3
<1>. QED BY <1>1, <1>3, <1>4, <1>5

(* A loop turn finds a stack with a frame on top.                          *)
LEMMA TopIsFrame ==
  ASSUME SerializerInv, Running
  PROVE  /\ stack \in Seq(Frames) /\ stack # <<>> /\ Top \in Frames
         /\ Due(stack) = (Top.bits \o Joined(Top.parts))
                            \o Due(SubSeq(stack, 1, Len(stack) - 1))
         /\ SubSeq(stack, 1, Len(stack) - 1) \in Seq(Frames)
         /\ Due(SubSeq(stack, 1, Len(stack) - 1)) \in Bits
<1>1. stack \in Seq(Frames) /\ stack # <<>>
  BY DEF SerializerInv, TypeOK, Running
<1>2. Len(stack) \in Nat /\ Len(stack) # 0
  BY <1>1, EmptySeq
<1>3. Top \in Frames
  BY <1>1, <1>2 DEF Top
<1>4. SubSeq(stack, 1, Len(stack) - 1) \in Seq(Frames)
  BY <1>1, <1>2
<1>5. Due(stack) = Owed(stack[Len(stack)]) \o Due(SubSeq(stack, 1, Len(stack) - 1))
  BY <1>1, DueTop
<1>6. Due(stack) = (Top.bits \o Joined(Top.parts)) \o Due(SubSeq(stack, 1, Len(stack) - 1))
  BY <1>5, Zenon DEF Owed, Top
<1>7. Due(SubSeq(stack, 1, Len(stack) - 1)) \in Bits
  BY <1>4, DueTop
<1>. QED BY <1>1, <1>3, <1>4, <1>6, <1>7

(* A frame whose own bits are written in part.                             *)
LEMMA DrainKeepsInv ==
  ASSUME SerializerInv, Drain
  PROVE  /\ SerializerInv'
         /\ room' = room - (Len(out') - Len(out)) /\ room' \in Nat
         /\ Len(out) \in Nat /\ Len(out') \in Nat /\ Len(out) < Len(out')
         /\ ~cut => Len(out') <= size
<1> DEFINE f  == Top
           k  == IF Len(Top.bits) < room THEN Len(Top.bits) ELSE room
           a  == SubSeq(Top.bits, 1, k)
           b  == SubSeq(Top.bits, k + 1, Len(Top.bits))
           g  == [Top EXCEPT !.bits = b]
           j  == Joined(Top.parts)
           below == SubSeq(stack, 1, Len(stack) - 1)
           d  == Due(below)
<1>1. /\ stack \in Seq(Frames) /\ stack # <<>> /\ Top \in Frames
      /\ Due(stack) = (Top.bits \o j) \o d /\ d \in Bits
  BY TopIsFrame DEF Drain
<1>2. /\ Top.bits \in Bits /\ Top.bits # <<>> /\ j \in Bits /\ room \in Nat /\ room > 0
      /\ out \in Bits
  BY <1>1, OwedIsBits DEF Drain, SerializerInv, TypeOK, Bits
<1>3. /\ k \in 1 .. Len(Top.bits) /\ k <= room
      /\ a \in Bits /\ Len(a) = k /\ b \in Bits /\ a \o b = Top.bits
  <2> DEFINE w == Top.bits
  <2>1. w \in Bits /\ w # <<>>
    BY <1>2
  <2>. HIDE DEF w
  <2>2. Len(w) \in Nat /\ Len(w) # 0
    BY <2>1, EmptySeq DEF Bits
  <2>3. k = IF Len(w) < room THEN Len(w) ELSE room
    BY DEF w
  <2>. HIDE DEF k
  <2>4. k \in 1 .. Len(w) /\ k <= room
    BY <1>2, <2>2, <2>3
  <2>5. /\ SubSeq(w, 1, k) \in Bits /\ Len(SubSeq(w, 1, k)) = k
        /\ SubSeq(w, k + 1, Len(w)) \in Bits
    BY <2>1, <2>2, <2>4 DEF Bits
  <2>6. SubSeq(w, 1, k) \o SubSeq(w, k + 1, Len(w)) = w
    BY <2>1, <2>2, <2>4 DEF Bits
  <2>. QED BY <2>4, <2>5, <2>6 DEF w
<1>4. /\ out' = out \o a /\ room' = room - k
      /\ stack' = [stack EXCEPT ![Len(stack)] = g]
      /\ UNCHANGED <<item, size, outcome, cut>>
  BY DEF Drain, WithTop
<1>5. g \in Frames /\ g.bits = b /\ g.parts = Top.parts
  <2>. HIDE DEF b, k
  <2>. QED BY <1>1, <1>3 DEF Frames, Bits
<1> HIDE DEF k, a, b, g, j, d, below
<1>6. /\ stack' \in Seq(Frames) /\ stack' # <<>>
      /\ Due(stack') = Owed(g) \o d
  BY <1>1, <1>4, <1>5, DueReplaced DEF d, below
<1>7. Owed(g) = b \o j
  BY <1>5, Zenon DEF Owed, j
<1>8. /\ out' \in Bits /\ Len(out') = Len(out) + k /\ Len(out) \in Nat
  <2>1. out \o a \in Bits /\ Len(out \o a) = Len(out) + Len(a) /\ Len(out) \in Nat
    BY <1>2, <1>3, ConcatProperties, LenProperties DEF Bits
  <2>. QED BY <1>3, <1>4, <2>1, Zenon
<1>9. out' \o Due(stack') = out \o Due(stack)
  <2>0. out \in Bits /\ a \in Bits /\ b \in Bits /\ j \in Bits /\ d \in Bits
    BY <1>1, <1>2, <1>3
  <2>1. (out \o a) \o ((b \o j) \o d) = out \o (((a \o b) \o j) \o d)
    <3> DEFINE c == b \o j
               e == c \o d
    <3>1. c \in Bits /\ a \o c = (a \o b) \o j
      BY <2>0, Concat, Zenon
    <3> HIDE DEF c
    <3>2. e \in Bits /\ a \o e = (a \o c) \o d
      BY <2>0, <3>1, Concat, Zenon
    <3> HIDE DEF e
    <3>3. (out \o a) \o e = out \o (a \o e)
      BY <2>0, <3>2, Concat, Zenon
    <3>. QED BY <3>1, <3>2, <3>3, Zenon DEF c, e
  <2>. QED BY <1>1, <1>3, <1>4, <1>6, <1>7, <2>1, Zenon
<1>10. room' \in Nat
  BY <1>2, <1>3, <1>4
<1>11. TypeOK'
  <2>1. \A i \in 1 .. Len(out') : out'[i] \in {0, 1}
    BY <1>8 DEF Bits
  <2>. QED BY <1>1, <1>4, <1>6, <1>10, <2>1 DEF SerializerInv, TypeOK
<1>12. ~cut' => out' \o Due(stack') = EncodingOf(item')
  BY <1>4, <1>9, Zenon DEF SerializerInv
<1>13. SerializerInv'
  BY <1>4, <1>6, <1>8, <1>11, <1>12, Zenon DEF SerializerInv, Bits
<1>14. ASSUME ~cut PROVE Len(out') <= size
  <2> DEFINE rest == Due(stack')
             new  == out'
  <2>1. rest \in Bits /\ new \in Bits
    BY <1>6, <1>8, DueTop
  <2>2. size = Len(new \o rest)
    BY <1>4, <1>12, <1>14, Zenon DEF SerializerInv
  <2>. HIDE DEF rest, new
  <2>3. /\ Len(new) \in Nat /\ Len(rest) \in Nat
        /\ Len(new \o rest) = Len(new) + Len(rest)
    BY <2>1, ConcatProperties, LenProperties DEF Bits
  <2>4. Len(new) <= size
    BY <2>2, <2>3
  <2>. QED BY <2>4 DEF new
<1>. QED BY <1>2, <1>3, <1>4, <1>8, <1>10, <1>13, <1>14

(* A codec that polls the serializer of its next part.                     *)
LEMMA DescendKeepsInv ==
  ASSUME SerializerInv, Descend
  PROVE  SerializerInv'
<1> DEFINE g  == [Top EXCEPT !.parts = Tail(Top.parts)]
           h  == Head(Top.parts)
           e  == EncodingOf(Head(Top.parts))
           j  == Joined(Tail(Top.parts))
           below == SubSeq(stack, 1, Len(stack) - 1)
           d  == Due(below)
           mid == [stack EXCEPT ![Len(stack)] = g]
<1>1. /\ stack \in Seq(Frames) /\ stack # <<>> /\ Top \in Frames
      /\ Due(stack) = (Top.bits \o Joined(Top.parts)) \o d /\ d \in Bits
  BY TopIsFrame DEF Descend
<1>2. Top.bits = <<>> /\ Top.parts # <<>> /\ Top.parts \in Seq(Nested)
  BY <1>1, OwedIsBits DEF Descend
<1>3. Tail(Top.parts) \in Seq(Nested) /\ h \in Nested
  BY <1>2
<1>4. Joined(Top.parts) = e \o j /\ j \in Bits /\ e \in Bits
  <2>1. e \in Bits
    BY <1>3, ItemsAreEncoded DEF IsEncoded, Bits
  <2>. QED BY <1>2, <1>3, <2>1, JoinedHeadTail
<1>5. g \in Frames /\ g.bits = <<>> /\ g.parts = Tail(Top.parts)
  BY <1>1, <1>2, <1>3 DEF Frames
<1>6. /\ stack' = Append(mid, FrameOf(h))
      /\ UNCHANGED <<item, size, room, out, outcome, cut>>
  BY DEF Descend, WithTop
<1> HIDE DEF g, d, below
<1>7. mid \in Seq(Frames) /\ Due(mid) = Owed(g) \o d
  BY <1>1, <1>5, DueReplaced DEF d, below
<1>8. FrameOf(h) \in Frames /\ Owed(FrameOf(h)) = e
  BY <1>3, FrameOwesEncoding
<1>9. Owed(g) = <<>> \o j
  BY <1>5, Zenon DEF Owed
<1> HIDE DEF mid, h, e, j
<1>10. stack' \in Seq(Frames) /\ stack' # <<>>
  BY <1>6, <1>7, <1>8
<1>11. Due(stack') = Due(stack)
  <2>1. Due(stack') = e \o Due(mid)
    BY <1>6, <1>7, <1>8, DuePushed
  <2>2. (<<>> \o (e \o j)) \o d = e \o ((<<>> \o j) \o d)
    BY <1>1, <1>4, PartMoves
  <2>. QED BY <1>1, <1>2, <1>4, <1>7, <1>9, <2>1, <2>2, Zenon
<1>12. TypeOK'
  BY <1>1, <1>6, <1>10 DEF SerializerInv, TypeOK
<1>13. ~cut' => out' \o Due(stack') = EncodingOf(item')
  BY <1>6, <1>11, Zenon DEF SerializerInv
<1>. QED BY <1>6, <1>10, <1>12, <1>13, Zenon DEF SerializerInv

(* A codec that is ready.                                                  *)
LEMMA FinishKeepsInv ==
  ASSUME SerializerInv, Finish
  PROVE  /\ SerializerInv'
         /\ outcome' \in {"Ready", outcome}
         /\ (outcome' = "Ready" /\ ~cut) => Len(out) = size
<1> DEFINE below == SubSeq(stack, 1, Len(stack) - 1)
           d  == Due(below)
<1>1. /\ stack \in Seq(Frames) /\ stack # <<>> /\ Top \in Frames /\ below \in Seq(Frames)
      /\ Due(stack) = (Top.bits \o Joined(Top.parts)) \o d /\ d \in Bits
  BY TopIsFrame DEF Finish
<1>2. /\ Top.bits = <<>> /\ Top.parts = <<>> /\ outcome = "Running"
      /\ stack' = below /\ outcome' = IF Len(stack) = 1 THEN "Ready" ELSE outcome
      /\ UNCHANGED <<item, size, room, out, cut>>
  BY DEF Finish, Running
<1>3. Joined(Top.parts) = <<>>
  <2>1. Joined(<<>>) = <<>>
    BY JoinedHeadTail, EmptySeq
  <2>. QED BY <1>2, <2>1, Zenon
<1>4. stack' \in Seq(Frames) /\ (stack' = <<>> <=> Len(stack) = 1)
  <2>1. Len(stack) \in Nat /\ Len(stack) # 0
    BY <1>1, EmptySeq
  <2>2. Len(below) = Len(stack) - 1
    <3> DEFINE m == Len(stack) - 1
    <3>1. m \in 0 .. Len(stack)
      BY <2>1
    <3>. HIDE DEF m
    <3>2. Len(SubSeq(stack, 1, m)) = m
      BY <1>1, <2>1, <3>1
    <3>. QED BY <3>2 DEF m
  <2>3. below = <<>> <=> Len(below) = 0
    <3>. HIDE DEF below
    <3>. QED BY <1>1, EmptySeq
  <2>. HIDE DEF below
  <2>. QED BY <1>1, <1>2, <2>1, <2>2, <2>3
<1> HIDE DEF below, d
<1>5. Due(stack) = d
  <2>1. <<>> \o <<>> = <<>> /\ <<>> \o d = d
    BY <1>1, ConcatEmptySeq DEF Bits
  <2>. QED BY <1>1, <1>2, <1>3, <2>1, Zenon
<1>6. ~cut' => out' \o Due(stack') = EncodingOf(item')
  BY <1>2, <1>5, Zenon DEF SerializerInv, d
<1>7. TypeOK'
  BY <1>1, <1>2, <1>4 DEF SerializerInv, TypeOK
<1>8. SerializerInv'
  BY <1>2, <1>4, <1>6, <1>7, Zenon DEF SerializerInv
<1>9. ASSUME outcome' = "Ready", ~cut PROVE Len(out) = size
  <2>1. stack' = <<>>
    BY <1>2, <1>4, <1>9
  <2>2. Due(stack') = <<>>
    <3>1. Due(<<>>) = <<>>
      BY DueTop, EmptySeq
    <3>. QED BY <2>1, <3>1, Zenon
  <2>3. out \o <<>> = EncodingOf(item) /\ size = Len(EncodingOf(item)) /\ out \in Bits
    BY <1>2, <1>6, <1>9, <2>2, Zenon DEF SerializerInv, Bits
  <2>4. out \o <<>> = out
    BY <2>3, ConcatEmptySeq DEF Bits
  <2>. QED BY <2>3, <2>4, Zenon
<1>. QED BY <1>2, <1>8, <1>9

(* A new call, which may have to drop an element.                          *)
LEMMA PollKeepsInv ==
  ASSUME SerializerInv, NEW r \in Rooms, Poll(r)
  PROVE  SerializerInv'
<1>1. stack \in Seq(Frames) /\ stack # <<>> /\ cut \in BOOLEAN
  BY DEF Poll, SerializerInv, TypeOK
<1>2. /\ outcome' = "Running" /\ room' = r /\ stack' = Resumed
      /\ cut' = (cut \/ Resumed # stack) /\ UNCHANGED <<item, size, out>>
  BY DEF Poll
<1>3. stack' \in Seq(Frames) /\ stack' # <<>>
  BY <1>1, <1>2, ResumedIsStack
<1>4. TypeOK'
  BY <1>1, <1>2, <1>3, SerializerConstants DEF SerializerInv, TypeOK
<1>5. ~cut' => stack' = stack /\ ~cut
  BY <1>1, <1>2
<1>6. ~cut' => out' \o Due(stack') = EncodingOf(item')
  BY <1>2, <1>5, Zenon DEF SerializerInv
<1>. QED BY <1>2, <1>3, <1>4, <1>6, Zenon DEF SerializerInv

(* A new serializer has a value to write, and nothing else.                *)
LEMMA NewSerializer ==
  ASSUME NEW it \in Nested
  PROVE  /\ <<FrameOf(it)>> \in Seq(Frames) /\ <<FrameOf(it)>> # <<>>
         /\ EncodingOf(it) \in Bits /\ Len(EncodingOf(it)) \in Nat
         /\ <<>> \o Due(<<FrameOf(it)>>) = EncodingOf(it)
<1> DEFINE h == FrameOf(it)
           e == EncodingOf(it)
           frames == <<h>>
<1>1. h \in Frames /\ Owed(h) = e /\ e \in Bits
  BY FrameOwesEncoding, OwedIsBits
<1> HIDE DEF h, e
<1>2. frames \in Seq(Frames) /\ frames # <<>> /\ frames = Append(<<>>, h)
  BY <1>1
<1>3. Due(frames) = e \o <<>>
  <2>1. <<>> \in Seq(Frames) /\ Due(<<>>) = <<>>
    BY DueTop, EmptySeq
  <2>2. Due(Append(<<>>, h)) = Owed(h) \o Due(<<>>)
    BY <1>1, <2>1, DuePushed
  <2>. QED BY <1>1, <1>2, <2>1, <2>2, Zenon
<1> HIDE DEF frames
<1>4. <<>> \o Due(frames) = e
  <2>1. e \o <<>> = e /\ <<>> \o e = e
    BY <1>1, ConcatEmptySeq DEF Bits
  <2>. QED BY <1>3, <2>1, Zenon
<1>5. Len(e) \in Nat
  BY <1>1, LenProperties DEF Bits
<1>. QED BY <1>1, <1>2, <1>4, <1>5 DEF h, e, frames

LEMMA InitHasInv ==
  ASSUME Init
  PROVE  SerializerInv
<1> DEFINE frames == <<FrameOf(item)>>
           e == EncodingOf(item)
<1>1. item \in Values /\ item \in Nested
  BY SerializerConstants DEF Init
<1>2. /\ stack = frames /\ out = <<>> /\ room = 0 /\ outcome = "New"
      /\ size = Len(e) /\ cut = FALSE
  BY DEF Init
<1>3. /\ frames \in Seq(Frames) /\ frames # <<>> /\ e \in Bits /\ Len(e) \in Nat
      /\ <<>> \o Due(frames) = e
  BY <1>1, NewSerializer
<1> HIDE DEF frames, e
<1>4. out \o Due(stack) = e
  BY <1>2, <1>3, Zenon
<1>5. out \in Bits
  BY <1>2, EmptySeq DEF Bits
<1>6. TypeOK
  <2>1. size \in Nat
    BY <1>2, <1>3, Zenon
  <2>2. \A i \in 1 .. Len(out) : out[i] \in {0, 1}
    BY <1>5 DEF Bits
  <2>. QED BY <1>2, <1>3, <2>1, <2>2 DEF TypeOK
<1>. QED BY <1>1, <1>2, <1>3, <1>4, <1>5, <1>6, Zenon DEF SerializerInv, Bits, e

(* Every step keeps what is written and what is due together.              *)
LEMMA StepKeepsInv ==
  SerializerInv /\ [Next]_vars => SerializerInv'
<1> SUFFICES ASSUME SerializerInv, [Next]_vars PROVE SerializerInv'
  OBVIOUS
<1> USE DEF SerializerInv
<1>1. CASE Drain
  BY <1>1, DrainKeepsInv
<1>2. CASE Insufficient
  <2>1. SerializerInv /\ outcome' = "Insufficient" /\ outcome = "Running"
          /\ UNCHANGED <<item, size, stack, room, out, cut>>
    BY <1>2 DEF Insufficient, Running
  <2>. QED BY <2>1 DEF TypeOK
<1>3. CASE Suspend
  <2>1. SerializerInv /\ outcome' = "Pending" /\ outcome = "Running"
          /\ UNCHANGED <<item, size, stack, room, out, cut>>
    BY <1>3 DEF Suspend, Running
  <2>. QED BY <2>1 DEF TypeOK
<1>4. CASE Fail
  <2>1. SerializerInv /\ outcome' = "Error" /\ outcome = "Running"
          /\ UNCHANGED <<item, size, stack, room, out, cut>>
    BY <1>4 DEF Fail, Running
  <2>. QED BY <2>1 DEF TypeOK
<1>5. CASE Descend
  BY <1>5, DescendKeepsInv
<1>6. CASE Finish
  BY <1>6, FinishKeepsInv
<1>7. CASE \E r \in Rooms : Poll(r)
  BY <1>7, PollKeepsInv
<1>8. CASE UNCHANGED vars
  BY <1>8 DEF vars, TypeOK
<1>. QED BY <1>1, <1>2, <1>3, <1>4, <1>5, <1>6, <1>7, <1>8 DEF Next, LoopTurn

-----------------------------------------------------------------------------
(* In every state of every run of a serializer, for every set of values,   *)
(* what has been written and what the frames at work have still to write   *)
(* are the encoding of the value, until an element of a sequence has been  *)
(* dropped (poll_serialize of every codec).                                *)
THEOREM SerializerInvariant == Spec => []SerializerInv
<1>1. Init => SerializerInv
  BY InitHasInv
<1>. QED BY <1>1, StepKeepsInv, PTL DEF Spec

(* The state keeps its types, and a serializer that is ready has no frame  *)
(* left (Poll::Ready, after which it is not polled again).                 *)
THEOREM SerializerTypeCorrect == Spec => []TypeOK
<1>1. SerializerInv => TypeOK
  BY DEF SerializerInv
<1>. QED BY <1>1, SerializerInvariant, PTL

(* Whatever the sizes of the buffers of its calls, a serializer writes     *)
(* nothing but the beginning of the encoding of its value, and all of it   *)
(* when it is ready, until a call ends within an element.                  *)
THEOREM SerializerExact == Spec => []ExactUntilCut
<1>1. SerializerInv => ExactUntilCut
  <2> SUFFICES ASSUME SerializerInv, ~cut PROVE Exact
    BY DEF ExactUntilCut
  <2> DEFINE e == EncodingOf(item)
             d == Due(stack)
  <2>1. stack \in Seq(Frames) /\ out \in Bits /\ out \o d = e
    BY DEF SerializerInv, Bits
  <2>2. d \in Bits
    BY <2>1, DueTop
  <2>3. outcome = "Ready" => out = e
    <3>1. SUFFICES ASSUME outcome = "Ready" PROVE out = e
      OBVIOUS
    <3>2. stack = <<>>
      BY <3>1 DEF SerializerInv, TypeOK
    <3>3. Due(<<>>) = <<>>
      BY DueTop, EmptySeq
    <3>4. out \o <<>> = out
      BY <2>1, ConcatEmptySeq DEF Bits
    <3>. QED BY <2>1, <3>2, <3>3, <3>4, Zenon
  <2> HIDE DEF e, d
  <2>4. IsPrefix(out, e)
    <3>1. IsPrefix(out, out \o d)
      <4>1. Len(out) \in Nat /\ Len(d) \in Nat /\ Len(out \o d) = Len(out) + Len(d)
        BY <2>1, <2>2 DEF Bits
      <4>2. SubSeq(out, 1, Len(out)) = SubSeq(out \o d, 1, Len(out))
        BY <2>1, <2>2 DEF Bits
      <4>. QED BY <4>1, <4>2 DEF IsPrefix
    <3>. QED BY <2>1, <3>1, Zenon
  <2>. QED BY <2>3, <2>4 DEF Exact, e
<1>. QED BY <1>1, SerializerInvariant, PTL

(* How much is still to be written.                                        *)
LEMMA SizeIsWrittenAndDue ==
  ASSUME SerializerInv, ~cut
  PROVE  Len(out) \in Nat /\ Len(Due(stack)) \in Nat
           /\ Len(out) + Len(Due(stack)) = size
<1> DEFINE d == Due(stack)
<1>1. out \in Bits /\ d \in Bits /\ out \o d = EncodingOf(item) /\ size = Len(EncodingOf(item))
  BY DueTop DEF SerializerInv, Bits
<1> HIDE DEF d
<1>2. Len(out) \in Nat /\ Len(d) \in Nat /\ Len(out \o d) = Len(out) + Len(d)
  BY <1>1, ConcatProperties, LenProperties DEF Bits
<1>3. Len(out) + Len(d) = size
  BY <1>1, <1>2, Zenon
<1>. QED BY <1>2, <1>3 DEF d

(* The top frame's own bits are among those that are due.                  *)
LEMMA OwnBitsAreDue ==
  ASSUME SerializerInv, Running, Top.bits # <<>>
  PROVE  Len(Due(stack)) > 0
<1> DEFINE w == Top.bits
           j == Joined(Top.parts)
           d == Due(SubSeq(stack, 1, Len(stack) - 1))
<1>1. w \in Bits /\ j \in Bits /\ d \in Bits /\ Due(stack) = (w \o j) \o d /\ w # <<>>
  BY TopIsFrame, OwedIsBits
<1> HIDE DEF w, j, d
<1>2. Len(w) \in Nat /\ Len(w) # 0 /\ Len(j) \in Nat /\ Len(d) \in Nat
  BY <1>1, EmptySeq, LenProperties DEF Bits
<1>3. w \o j \in Bits /\ Len(w \o j) = Len(w) + Len(j)
  BY <1>1, ConcatProperties DEF Bits
<1> DEFINE v == w \o j
<1>4. v \in Bits /\ Len(v) = Len(w) + Len(j) /\ Due(stack) = v \o d
  BY <1>1, <1>3, Zenon
<1> HIDE DEF v
<1>5. Len(v \o d) = Len(v) + Len(d)
  BY <1>1, <1>4, ConcatProperties DEF Bits
<1>6. Len(Due(stack)) = Len(v) + Len(d)
  BY <1>4, <1>5, Zenon
<1>. QED BY <1>2, <1>4, <1>6

(* Every step of a serializer is one that the contract of codecs allows,   *)
(* or none that its adapter could notice.                                  *)
LEMMA StepKeepsContract ==
  ASSUME SerializerInv, [Next]_vars
  PROVE  [cut' \/ Contract!Next]_(Contract!vars)
<1> USE DEF Contract!vars
<1>0. room \in Nat /\ size \in Nat
  BY DEF SerializerInv, TypeOK
<1>1. CASE Drain
  <2> SUFFICES ASSUME ~cut' PROVE Contract!Next
    OBVIOUS
  <2>1. UNCHANGED <<size, outcome, cut>> /\ outcome = "Running" /\ ~cut
    BY <1>1 DEF Drain, Running
  <2>2. /\ room' = room - (Len(out') - Len(out)) /\ room' \in Nat
        /\ Len(out) \in Nat /\ Len(out') \in Nat /\ Len(out) < Len(out')
        /\ Len(out') <= size
    BY <1>1, <2>1, DrainKeepsInv
  <2> DEFINE k == Len(out') - Len(out)
  <2>3. k \in 1 .. room /\ Contract!Move(k)
    BY <1>0, <2>1, <2>2 DEF Contract!Move
  <2>. QED BY <2>3 DEF Contract!Next
<1>2. CASE Insufficient
  <2> SUFFICES ASSUME ~cut' PROVE Contract!Next
    OBVIOUS
  <2>1. /\ Running /\ Top.bits # <<>> /\ room = 0 /\ outcome' = "Insufficient"
        /\ UNCHANGED <<size, room, out, cut>>
    BY <1>2 DEF Insufficient
  <2>2. Len(out) < size
    <3>1. /\ Len(out) \in Nat /\ Len(Due(stack)) \in Nat
          /\ Len(out) + Len(Due(stack)) = size /\ Len(Due(stack)) > 0
      BY <2>1, SizeIsWrittenAndDue, OwnBitsAreDue
    <3>. QED BY <3>1
  <2>. QED BY <2>1, <2>2 DEF Running, Contract!Next, Contract!Insufficient
<1>3. CASE Suspend
  BY <1>3 DEF Suspend, Running, Contract!Next, Contract!Pending
<1>4. CASE Fail
  BY <1>4 DEF Fail, Running, Contract!Next, Contract!Fail
<1>5. CASE Descend
  BY <1>5 DEF Descend
<1>6. CASE Finish
  <2>1. /\ outcome' \in {"Ready", outcome} /\ (outcome' = "Ready" /\ ~cut => Len(out) = size)
    BY <1>6, FinishKeepsInv
  <2>2. outcome = "Running" /\ UNCHANGED <<size, room, out, cut>>
    BY <1>6 DEF Finish, Running
  <2>3. CASE outcome' = "Ready" /\ ~cut
    BY <2>1, <2>2, <2>3 DEF Contract!Next, Contract!Ready
  <2>4. CASE outcome' = outcome
    BY <2>2, <2>4
  <2>. QED BY <2>1, <2>2, <2>3, <2>4
<1>7. CASE \E r \in Rooms : Poll(r)
  BY <1>7 DEF Poll, Contract!Next, Contract!Poll
<1>8. CASE UNCHANGED vars
  BY <1>8 DEF vars
<1>. QED BY <1>1, <1>2, <1>3, <1>4, <1>5, <1>6, <1>7, <1>8 DEF Next, LoopTurn

(* Until a call ends within an element, a serializer keeps the contract    *)
(* that AsyncWriter and WriteImmediate rely on: it is Insufficient only    *)
(* when it has used the whole buffer and needs more, Ready only when it    *)
(* has written its value and not one bit more, and goes on where it        *)
(* stopped (the detailed machine implements CodecContract).                *)
THEOREM SerializerKeepsContract == Spec => ContractUntilCut
<1>1. Init => Contract!Init
  <2> SUFFICES ASSUME Init PROVE Contract!Init
    OBVIOUS
  <2>1. size \in Nat
    BY InitHasInv DEF SerializerInv, TypeOK
  <2>2. Len(out) = 0 /\ room = 0 /\ outcome = "New"
    BY DEF Init
  <2>. QED BY <2>1, <2>2 DEF Contract!Init
<1>2. SerializerInv /\ [Next]_vars => [cut' \/ Contract!Next]_(Contract!vars)
  BY StepKeepsContract
<1>. QED BY <1>1, <1>2, SerializerInvariant, PTL DEF Spec, ContractUntilCut

=============================================================================
