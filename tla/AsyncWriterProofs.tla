-------------------------- MODULE AsyncWriterProofs --------------------------
(***************************************************************************)
(* What AsyncWriter guarantees for every buffer size of at least two bytes *)
(* and every set of item sizes, whatever the transport and the codec do:   *)
(* the wire is exact up to the first transfer that is cut short, and the   *)
(* buffer is not indexed out of its bounds up to then either; after it     *)
(* only if len() counts the bits that were advanced over.                  *)
(***************************************************************************)
EXTENDS AsyncWriter, TLAPS

(* How poll divides the cursor: a byte of the buffer is handed over only   *)
(* if it holds a bit to flush, and all of them are once the item is done.  *)
LEMMA SliceOfCursor ==
  ASSUME WriterInv
  PROVE  /\ SliceLen \in Nat
         /\ cursor <= 8 * BufSize => SliceLen <= BufSize
         /\ SliceLen <= BufSize + 1
         /\ ~done => 8 * SliceLen <= cursor
         /\ done => cursor <= 8 * SliceLen /\ 8 * SliceLen <= cursor + 7
         /\ cursor % 8 = 0 => 8 * SliceLen = cursor
         /\ cursor = 8 * BufSize => SliceLen = BufSize
<1>1. cursor \in Nat /\ cursor <= 8 * BufSize + 7 /\ BufSize \in Nat
  BY WriterConstants DEF WriterInv, TypeOK
<1>2. CASE done /\ cursor % 8 # 0
  BY <1>1, <1>2 DEF SliceLen, Whole, Re
<1>3. CASE ~(done /\ cursor % 8 # 0)
  BY <1>1, <1>3 DEF SliceLen, Whole, Re
<1>. QED BY <1>2, <1>3

(* An index is out of the buffer exactly if the cursor is: a cursor that a *)
(* cut-short write has turned into bytes is too small to get there.        *)
LEMMA CursorInBounds ==
  ASSUME WriterInv, state \in {"Serialize", "Writing"}
  PROVE  InBounds <=> cursor <= 8 * BufSize
<1>1. /\ cursor \in Nat /\ cursor <= 8 * BufSize + 7 /\ BufSize \in Nat /\ BufSize >= 2
      /\ state = "Writing" /\ ~done => cursor >= 8 * BufSize \/ cursor <= BufSize
  BY WriterConstants DEF WriterInv, TypeOK
<1>2. CASE state = "Serialize"
  BY <1>2 DEF InBounds
<1>3. CASE state = "Writing" /\ done
  BY <1>1, <1>3 DEF InBounds, SliceLen, Whole, Re
<1>4. CASE state = "Writing" /\ ~done
  BY <1>1, <1>4 DEF InBounds, SliceLen, Whole, Re
<1>. QED BY <1>2, <1>3, <1>4

(* What the serializer adds to the cursor: where the two readings of len() *)
(* differ, a transfer was cut short before.                                *)
LEMMA LengthOfBuffer ==
  ASSUME WriterInv, state = "Serialize", NEW k \in 0 .. Room
  PROVE  /\ cursor + Length(k) \in Nat /\ cursor + k <= cursor + Length(k)
         /\ cursor + Length(k) <= 8 * BufSize + (IF fromStart THEN 7 ELSE 0)
         /\ cursor + Length(k) > 8 * BufSize => fromStart /\ interrupted
         /\ ~interrupted => Length(k) = k
<1>1. /\ cursor \in Nat /\ cursor <= 7 /\ BufSize \in Nat /\ BufSize >= 2
      /\ ~interrupted => cursor = 0
  BY WriterConstants DEF WriterInv, TypeOK, UninterruptedInv
<1>2. k \in Nat /\ cursor + k <= 8 * BufSize
  BY <1>1 DEF Room
<1>3. CASE fromStart
  BY <1>1, <1>2, <1>3 DEF Length
<1>4. CASE ~fromStart
  BY <1>1, <1>2, <1>4 DEF Length
<1>. QED BY <1>3, <1>4

(* A call of the serializer puts the next bits of the item behind what the *)
(* buffer holds, and leaves the rest of the buffer as it was.              *)
LEMMA EmitIsExact ==
  ASSUME WriterInv, state = "Serialize",
         NEW k \in 0 .. Smaller(Left, Room), Emit(k)
  PROVE  /\ buffer' \in [Slots -> Int]
         /\ emitted' = emitted + k /\ emitted' \in Nat /\ emitted' <= want
         /\ cursor + k \in 0 .. 8 * BufSize
         /\ ~interrupted =>
              /\ cursor = 0
              /\ Len(wire) = 8 * frame + emitted
              /\ \A b \in 0 .. k - 1 : buffer'[b] = Len(wire) + b
<1>1. /\ cursor \in Nat /\ cursor <= 8 * BufSize /\ BufSize \in Nat
      /\ emitted \in Nat /\ want \in Nat /\ frame \in Nat
      /\ buffer \in [Slots -> Int] /\ emitted <= want
  BY WriterConstants DEF WriterInv, TypeOK
<1>2. k \in Nat /\ k <= want - emitted /\ k <= 8 * BufSize - cursor
  BY <1>1 DEF Smaller, Left, Room
<1>3. buffer' \in [Slots -> Int]
  BY <1>1, <1>2 DEF Emit
<1>4. emitted' = emitted + k
  BY DEF Emit
<1>5. ASSUME ~interrupted
      PROVE  /\ cursor = 0
             /\ Len(wire) = 8 * frame + emitted
             /\ \A b \in 0 .. k - 1 : buffer'[b] = Len(wire) + b
  <2>1. cursor = 0 /\ Len(wire) + cursor = 8 * frame + emitted
    BY <1>5 DEF WriterInv, UninterruptedInv, BufferContinuesWire
  <2>2. Len(wire) = 8 * frame + emitted
    <3>1. Len(wire) \in Nat
      BY DEF WriterInv, TypeOK
    <3>. QED BY <2>1, <3>1, <1>1
  <2>3. ASSUME NEW b \in 0 .. k - 1
        PROVE  buffer'[b] = Len(wire) + b
    <3>1. b \in Slots /\ b \in cursor .. cursor + k - 1
      BY <1>1, <1>2, <2>1 DEF Slots
    <3>2. buffer'[b] = 8 * frame + emitted + (b - cursor)
      BY <3>1 DEF Emit
    <3>. QED BY <1>1, <2>1, <2>2, <3>2
  <2>. QED BY <2>1, <2>2, <2>3
<1>. QED BY <1>1, <1>2, <1>3, <1>4, <1>5

(* Writing n bytes of the slice appends n bytes to the wire, each bit of   *)
(* them where it belongs as long as no transfer was cut short before.      *)
LEMMA AcceptIsExact ==
  ASSUME WriterInv, Writing,
         NEW n \in 0 .. SliceLen, Accept(n), pads' = pads
  PROVE  /\ wire' \in Seq(Int)
         /\ Len(wire') = Len(wire) + 8 * n /\ Len(wire') % 8 = 0
         /\ ~interrupted => WireExact'
<1> DEFINE out == [i \in 1 .. 8 * n |-> buffer[i - 1]]
<1>1. /\ cursor \in Nat /\ cursor <= 8 * BufSize /\ BufSize \in Nat
      /\ emitted \in Nat /\ frame \in Nat /\ wire \in Seq(Int) /\ Len(wire) \in Nat
      /\ buffer \in [Slots -> Int]
  BY WriterConstants, CursorInBounds DEF WriterInv, TypeOK, Writing
<1>2. n \in Nat /\ n <= SliceLen /\ SliceLen \in Nat /\ 8 * n <= 8 * BufSize
  BY <1>1, SliceOfCursor
<1>3. out \in Seq(Int) /\ Len(out) = 8 * n
  <2>1. \A i \in 1 .. 8 * n : buffer[i - 1] \in Int
    BY <1>1, <1>2 DEF Slots
  <2>. QED BY <1>2, <2>1
<1>4. wire' = wire \o out
  BY DEF Accept
<1>5. wire' \in Seq(Int) /\ Len(wire') = Len(wire) + 8 * n
  BY <1>1, <1>3, <1>4
<1>6. Len(wire') % 8 = 0
  <2>1. Len(wire) % 8 = 0
    BY DEF WriterInv
  <2>. QED BY <1>1, <1>2, <1>5, <2>1
<1>7. ASSUME ~interrupted
      PROVE  WireExact'
  <2>1. UninterruptedInv /\ BufferContinuesWire
    BY <1>7 DEF WriterInv, UninterruptedInv, Writing
  <2>2. SUFFICES ASSUME NEW i \in 1 .. Len(wire')
                 PROVE  wire'[i] = i - 1 \/ i - 1 \in pads
    BY DEF WireExact
  <2>3. CASE i <= Len(wire)
    <3>1. wire'[i] = wire[i] /\ i \in 1 .. Len(wire)
      BY <1>1, <1>3, <1>4, <1>5, <2>3
    <3>. QED BY <2>1, <3>1 DEF UninterruptedInv, WireExact
  <2>4. CASE i > Len(wire)
    <3> DEFINE b == i - Len(wire) - 1
    <3>1. b \in 0 .. 8 * n - 1 /\ i - 1 = Len(wire) + b
      BY <1>1, <1>2, <1>5, <2>4
    <3>2. wire'[i] = buffer[b]
      <4>1. wire'[i] = out[i - Len(wire)]
        BY <1>1, <1>3, <1>4, <1>5, <2>4
      <4>2. i - Len(wire) \in 1 .. 8 * n
        BY <1>1, <1>2, <1>5, <2>4
      <4>. QED BY <4>1, <4>2
    <3>3. CASE b < cursor
      <4>1. buffer[b] = Len(wire) + b
        BY <1>1, <2>1, <3>1, <3>3 DEF BufferContinuesWire
      <4>. QED BY <3>1, <3>2, <4>1
    <3>4. CASE b >= cursor
      <4>1. done /\ 8 * SliceLen <= cursor + 7
        <5>1. b < 8 * SliceLen
          BY <1>2, <3>1
        <5>2. ~done => 8 * SliceLen <= cursor
          BY SliceOfCursor
        <5>3. done => 8 * SliceLen <= cursor + 7
          BY SliceOfCursor
        <5>. QED BY <1>1, <1>2, <3>1, <3>4, <5>1, <5>2, <5>3
      <4>2. Len(wire) + cursor = 8 * frame + emitted
        BY <2>1 DEF BufferContinuesWire
      <4>3. i - 1 \in 8 * frame + emitted .. 8 * (frame + BytesFor(emitted)) - 1
        <5>1. 8 * frame + emitted <= i - 1
          BY <1>1, <3>1, <3>4, <4>2
        <5>2. cursor + 7 >= 8 * SliceLen /\ b < 8 * SliceLen
          BY <1>2, <3>1, <4>1
        <5>3. Len(wire) % 8 = 0
          BY DEF WriterInv
        <5>. QED BY <1>1, <1>2, <3>1, <4>2, <5>1, <5>2, <5>3, SMTT(60) DEF BytesFor
      <4>. QED BY <2>1, <4>1, <4>3 DEF UninterruptedInv, Writing
    <3>. QED BY <1>1, <3>1, <3>3, <3>4
  <2>. QED BY <1>1, <1>5, <2>3, <2>4
<1>. QED BY <1>5, <1>6, <1>7
-----------------------------------------------------------------------------

(* The invariant holds of a new writer, and of one created complete.       *)
LEMMA WriterInvInit == Init => WriterInv
<1> SUFFICES ASSUME Init PROVE WriterInv
  OBVIOUS
<1>0. want \in Nat
  <2>1. want \in ItemBits \/ want = 0
    BY DEF Init
  <2>2. \A n \in ItemBits : n \in Nat
    BY WriterConstants
  <2>3. 0 \in Nat
    OBVIOUS
  <2>. QED BY <2>1, <2>2, <2>3
<1> USE WriterConstants DEF Init
<1>1. Len(wire) = 0 /\ BytesFor(emitted) = 0
  BY DEF BytesFor
<1>2. TypeOK
  <2>1. buffer \in [Slots -> Int]
    BY DEF NoBit
  <2>2. cursor \in 0 .. 8 * BufSize + (IF fromStart THEN 7 ELSE 0) /\ wire \in Seq(Int)
    OBVIOUS
  <2>3. done \in BOOLEAN /\ polling \in BOOLEAN /\ interrupted \in BOOLEAN
        /\ fromStart \in BOOLEAN /\ res \in Results
    BY DEF Results
  <2>. QED BY <1>0, <1>1, <2>1, <2>2, <2>3 DEF TypeOK
<1>3. UninterruptedInv
  BY <1>1 DEF UninterruptedInv, BufferContinuesWire, WireExact, Flushed
<1>. QED BY <1>0, <1>1, <1>2, <1>3 DEF WriterInv, PanicOnlyAfterCutShort

(* Once the serializer is done, with or without an error, the item is due  *)
(* as far as it was emitted, and its padding is what rounds it up.         *)
LEMMA WriterInvAfterFinish ==
  ASSUME WriterInv, Serializing, NEW k \in 0 .. Smaller(Left, Room), Finish(k),
         failed' = TRUE \/ (failed' = failed /\ k = Left), polling' \in BOOLEAN,
         res' \in Results
  PROVE  WriterInv'
<1>1. /\ buffer' \in [Slots -> Int]
      /\ emitted' = emitted + k /\ emitted' \in Nat /\ emitted' <= want
      /\ cursor + k \in 0 .. 8 * BufSize
      /\ ~interrupted =>
           /\ cursor = 0
           /\ Len(wire) = 8 * frame + emitted
           /\ \A b \in 0 .. k - 1 : buffer'[b] = Len(wire) + b
  BY EmitIsExact DEF Serializing, Finish
<1>0. k \in 0 .. Room
  BY WriterConstants DEF WriterInv, TypeOK, Smaller, Left, Room
<1>2. /\ cursor' = cursor + Length(k) /\ state' = "Writing" /\ done' = TRUE
      /\ pads' = pads \cup (8 * frame + (emitted + k)
                              .. 8 * (frame + BytesFor(emitted + k)) - 1)
      /\ UNCHANGED <<want, fromStart, frame, interrupted, wire>>
  <2>1. frame \in Nat /\ emitted \in Nat /\ k \in Int
    BY DEF WriterInv, TypeOK
  <2>2. 8 * frame + emitted + k = 8 * frame + (emitted + k)
    BY <2>1
  <2>. QED BY <2>2 DEF Finish
<1>8. /\ cursor' \in 0 .. 8 * BufSize + (IF fromStart' THEN 7 ELSE 0)
      /\ cursor' > 8 * BufSize => fromStart' /\ interrupted'
      /\ ~interrupted => cursor' = cursor + k
  <2>1. /\ cursor + Length(k) \in Nat
        /\ cursor + Length(k) <= 8 * BufSize + (IF fromStart THEN 7 ELSE 0)
        /\ cursor + Length(k) > 8 * BufSize => fromStart /\ interrupted
        /\ ~interrupted => Length(k) = k
    BY <1>0, LengthOfBuffer DEF Serializing
  <2>2. BufSize \in Nat /\ fromStart \in BOOLEAN
    BY WriterConstants DEF WriterInv, TypeOK
  <2>3. /\ cursor' = cursor + Length(k)
        /\ fromStart' = fromStart /\ interrupted' = interrupted
    BY <1>2
  <2>4. cursor' \in 0 .. 8 * BufSize + (IF fromStart' THEN 7 ELSE 0)
    BY <2>1, <2>2, <2>3
  <2>. QED BY <2>1, <2>3, <2>4
<1>3. frame \in Nat /\ k \in Nat /\ Len(wire) \in Nat /\ emitted \in Nat
  <2>1. cursor \in Nat /\ cursor <= 8 * BufSize /\ emitted \in Nat
        /\ want \in Nat /\ emitted <= want /\ BufSize \in Nat
    BY WriterConstants DEF WriterInv, TypeOK, Serializing
  <2>. QED BY <2>1 DEF WriterInv, TypeOK
<1>4. pads' \subseteq Nat
  <2>1. BytesFor(emitted + k) \in Nat
    BY <1>3 DEF BytesFor
  <2>. HIDE DEF BytesFor
  <2>2. pads \subseteq Nat
    BY DEF WriterInv, TypeOK
  <2>3. 8 * frame + (emitted + k) .. 8 * (frame + BytesFor(emitted + k)) - 1 \subseteq Nat
    BY <1>3, <2>1
  <2>. QED BY <1>2, <2>2, <2>3
<1>5. TypeOK'
  <2>1. failed' \in BOOLEAN
    BY DEF WriterInv, TypeOK
  <2>. QED BY <1>1, <1>2, <1>4, <1>8, <2>1 DEF WriterInv, TypeOK
<1>6. ASSUME ~interrupted PROVE UninterruptedInv'
  <2>1. UninterruptedInv
    BY <1>6 DEF WriterInv
  <2>2. BufferContinuesWire'
    <3>1. cursor' = k /\ cursor = 0
      BY <1>1, <1>3, <1>6, <1>8
    <3>2. Len(wire') + cursor' = 8 * frame' + emitted'
      <4>1. wire' = wire /\ frame' = frame
        BY <1>2
      <4>2. Len(wire) = 8 * frame + emitted /\ emitted' = emitted + k
        BY <1>1, <1>6
      <4>. QED BY <1>3, <3>1, <4>1, <4>2
    <3>. QED BY <1>1, <1>2, <1>6, <3>1, <3>2 DEF BufferContinuesWire
  <2>3. WireExact'
    BY <1>2, <2>1 DEF UninterruptedInv, WireExact
  <2>4. (8 * frame + emitted .. 8 * (frame + BytesFor(emitted)) - 1 \subseteq pads)'
    BY <1>1, <1>2
  <2>. QED BY <1>2, <2>2, <2>3, <2>4 DEF UninterruptedInv, Flushed
<1>7. ~failed' => emitted' = want'
  <2>1. want \in Nat
    BY DEF WriterInv, TypeOK
  <2>2. k = Left => emitted + k = want
    BY <1>3, <2>1 DEF Left
  <2>. QED BY <1>1, <1>2, <2>2
<1>. QED BY <1>1, <1>2, <1>5, <1>6, <1>7, <1>8 DEF WriterInv, PanicOnlyAfterCutShort

(* A turn that leaves buffer, codec and wire alone, and may set the cursor *)
(* to a number of bytes, after which nothing more is promised.             *)
LEMMA WriterInvAfterStop ==
  ASSUME WriterInv,
         UNCHANGED <<buffer, codec, frame, pads, failed, done, wire>>,
         polling' \in BOOLEAN, interrupted' \in BOOLEAN,
         res' \in Results,
         \/ UNCHANGED <<cursor, state, interrupted>>
         \/ UNCHANGED <<cursor, interrupted>> /\ state' = "Taken"
         \/ /\ cursor' = SliceLen /\ UNCHANGED state /\ Writing
            /\ interrupted' = (interrupted \/ cursor # SliceLen)
         \/ /\ UNCHANGED interrupted /\ state' = "Panicked"
            /\ state \in {"Serialize", "Writing"} /\ ~InBounds
            /\ cursor' = cursor \/ cursor' = SliceLen
  PROVE  WriterInv'
<1> USE DEF codec
<1>1. /\ cursor \in 0 .. 8 * BufSize + (IF fromStart THEN 7 ELSE 0)
      /\ BufSize \in Nat /\ BufSize >= 2 /\ fromStart \in BOOLEAN
      /\ cursor > 8 * BufSize => interrupted
      /\ fromStart' = fromStart
  BY WriterConstants DEF WriterInv, TypeOK
<1>2. /\ SliceLen \in Nat /\ SliceLen <= BufSize + 1
      /\ cursor <= 8 * BufSize => SliceLen <= BufSize
  BY SliceOfCursor
<1>3. ASSUME Writing PROVE SliceLen <= BufSize
  BY <1>1, <1>2, <1>3, CursorInBounds DEF Writing
<1>4. ASSUME state \in {"Serialize", "Writing"}, ~InBounds
      PROVE  fromStart /\ interrupted
  <2>1. cursor > 8 * BufSize
    BY <1>1, <1>4, CursorInBounds
  <2>. QED BY <1>1, <2>1
<1>5. /\ cursor' \in 0 .. 8 * BufSize + (IF fromStart THEN 7 ELSE 0)
      /\ cursor' > 8 * BufSize => interrupted'
      /\ cursor' = cursor \/ cursor' <= BufSize \/ state' = "Panicked"
  <2>1. SliceLen <= 8 * BufSize
    BY <1>1, <1>2
  <2>. QED BY <1>1, <1>2, <1>3, <2>1
<1>6. TypeOK'
  BY <1>1, <1>5 DEF WriterInv, TypeOK
<1>7. ASSUME ~interrupted' PROVE UninterruptedInv'
  <2>1. ~interrupted
    BY <1>7
  <2>2. UninterruptedInv /\ cursor' = cursor
    BY <1>4, <1>7, <2>1 DEF WriterInv
  <2>3. state' # "Panicked"
    BY <1>4, <2>1, <1>7 DEF WriterInv, PanicOnlyAfterCutShort
  <2>. QED BY <2>2, <2>3 DEF UninterruptedInv, BufferContinuesWire, WireExact, Flushed
<1>8. PanicOnlyAfterCutShort'
  BY <1>1, <1>4 DEF WriterInv, PanicOnlyAfterCutShort, Writing
<1>9. (state = "Writing" /\ ~done => cursor >= 8 * BufSize \/ cursor <= BufSize)'
  BY <1>1, <1>5 DEF WriterInv, Writing
<1>10. (state \in {"Serialize", "Complete"} => cursor <= 7)'
  BY DEF WriterInv, Writing
<1>. QED BY <1>5, <1>6, <1>7, <1>8, <1>9, <1>10 DEF WriterInv, Writing

(* A write that took the whole slice ends the item or makes room for more. *)
LEMMA WriterInvAfterWhole == WriterInv /\ WriteWhole => WriterInv'
<1> SUFFICES ASSUME WriterInv, WriteWhole PROVE WriterInv'
  OBVIOUS
<1> USE DEF codec, history
<1>1. /\ SliceLen \in Nat
      /\ done => cursor <= 8 * SliceLen /\ 8 * SliceLen <= cursor + 7
      /\ cursor % 8 = 0 => 8 * SliceLen = cursor
      /\ cursor = 8 * BufSize => SliceLen = BufSize
  BY SliceOfCursor
<1>2. /\ wire' \in Seq(Int)
      /\ Len(wire') = Len(wire) + 8 * SliceLen /\ Len(wire') % 8 = 0
      /\ ~interrupted => WireExact'
  BY <1>1, AcceptIsExact DEF WriteWhole, Writing
<1>3. /\ cursor \in Nat /\ cursor <= 8 * BufSize /\ BufSize \in Nat /\ BufSize >= 2
      /\ emitted \in Nat /\ frame \in Nat /\ Len(wire) \in Nat
      /\ buffer \in [Slots -> Int]
  BY WriterConstants, CursorInBounds DEF WriterInv, TypeOK, WriteWhole, Writing
<1>4. state = "Writing" /\ UNCHANGED <<codec, frame, pads, interrupted, failed, done>>
  BY DEF WriteWhole, Writing
<1>5. CASE done
  <2>1. /\ cursor' = 0 /\ state' = "Complete" /\ polling' = FALSE /\ res' = "Ok"
        /\ buffer' = buffer
    BY <1>5 DEF WriteWhole, Return
  <2>2. TypeOK'
    <3>1. cursor' \in 0 .. 8 * BufSize + (IF fromStart THEN 7 ELSE 0)
      BY <1>3, <2>1
    <3>2. polling' \in BOOLEAN
      BY <2>1
    <3>3. res' \in Results
      BY <2>1 DEF Results
    <3>. QED BY <1>2, <1>4, <2>1, <3>1, <3>2, <3>3 DEF WriterInv, TypeOK
  <2>3. ASSUME ~interrupted PROVE UninterruptedInv'
    <3>1. Len(wire) + cursor = 8 * frame + emitted
      BY <1>4, <2>3 DEF WriterInv, UninterruptedInv, BufferContinuesWire
    <3>2. Len(wire) % 8 = 0
      BY DEF WriterInv
    <3>3. Len(wire) + 8 * SliceLen = 8 * (frame + BytesFor(emitted))
      BY <1>1, <1>3, <1>5, <3>1, <3>2 DEF BytesFor
    <3>. QED BY <1>2, <1>4, <2>1, <2>3, <3>3 DEF UninterruptedInv, Flushed
  <2>. QED BY <1>2, <1>3, <1>4, <1>5, <2>1, <2>2, <2>3 DEF WriterInv, PanicOnlyAfterCutShort
<1>6. CASE ~done
  <2>1. /\ cursor' = cursor % 8 /\ CarryOver /\ state' = "Serialize"
        /\ UNCHANGED <<polling, res>>
    BY <1>6 DEF WriteWhole, Re
  <2>2. buffer' \in [Slots -> Int]
    <3>1. cursor = 8 * BufSize \/ cursor <= BufSize
      BY <1>3, <1>4, <1>6 DEF WriterInv
    <3>2. cursor % 8 # 0 => 8 * (cursor \div 8 + 1) + 7 < 8 * BufSize
      BY <1>3, <3>1
    <3>3. ASSUME NEW b \in Slots, b <= 7, cursor % 8 # 0
          PROVE  8 * (cursor \div 8 + 1) + b \in Slots
      BY <1>3, <3>2, <3>3 DEF Slots
    <3>4. CarryOver
      BY <2>1
    <3>5. \A b \in Slots : b > 7 \/ b <= 7
      BY DEF Slots
    <3>6. ASSUME NEW b \in Slots
          PROVE  (CASE b > 7  -> buffer[b]
                    [] b <= 7 -> IF cursor % 8 = 0 \/ done THEN NoBit
                                   ELSE buffer[8 * (cursor \div 8 + 1) + b]) \in Int
      BY <1>3, <3>3, <3>5 DEF NoBit
    <3>. QED BY <3>4, <3>6 DEF CarryOver, Re, Whole
  <2>3. /\ cursor' \in 0 .. 8 * BufSize + (IF fromStart THEN 7 ELSE 0)
        /\ cursor' <= 7 /\ cursor' <= 8 * BufSize
    BY <1>3, <2>1
  <2>4. TypeOK'
    BY <1>2, <1>4, <2>1, <2>2, <2>3 DEF WriterInv, TypeOK
  <2>5. ASSUME ~interrupted PROVE UninterruptedInv'
    <3>1. cursor = 8 * BufSize /\ Len(wire) + cursor = 8 * frame + emitted
      BY <1>4, <1>6, <2>5 DEF WriterInv, UninterruptedInv, BufferContinuesWire
    <3>2. cursor' = 0 /\ Len(wire') = 8 * frame + emitted
      BY <1>1, <1>2, <1>3, <2>1, <3>1
    <3>3. BufferContinuesWire'
      BY <1>3, <1>4, <3>2 DEF BufferContinuesWire
    <3>. QED BY <1>2, <1>4, <2>1, <2>5, <3>2, <3>3 DEF UninterruptedInv, Flushed
  <2>. QED BY <1>2, <1>3, <1>4, <1>6, <2>1, <2>3, <2>4, <2>5 DEF WriterInv, PanicOnlyAfterCutShort
<1>. QED BY <1>5, <1>6

(* A new item starts on the byte behind the one that was completed.        *)
LEMMA WriterInvAfterReset ==
  ASSUME WriterInv, NEW bits \in ItemBits, Reset(bits)
  PROVE  WriterInv'
<1> USE DEF held, codec, history
<1>1. /\ frame \in Nat /\ emitted \in Nat /\ bits \in Nat
  BY WriterConstants DEF WriterInv, TypeOK
<1>2. BytesFor(emitted) \in Nat
  BY <1>1 DEF BytesFor
<1>3. /\ state = "Complete" /\ state' = "Serialize" /\ want' = bits
      /\ emitted' = 0 /\ done' = FALSE /\ res' = "None"
      /\ frame' = frame + BytesFor(emitted) /\ failed' = FALSE
      /\ UNCHANGED <<held, fromStart, pads, interrupted, polling, wire>>
  BY DEF Reset
<1>4. TypeOK'
  <2>1. frame' \in Nat /\ emitted' \in Nat
    BY <1>1, <1>2, <1>3
  <2>2. done' \in BOOLEAN /\ res' \in Results
    BY <1>3 DEF Results
  <2>. QED BY <1>1, <1>3, <2>1, <2>2 DEF WriterInv, TypeOK
<1>5. ASSUME ~interrupted PROVE UninterruptedInv'
  <2>1. cursor = 0 /\ Len(wire) = 8 * (frame + BytesFor(emitted)) /\ WireExact
    BY <1>3, <1>5 DEF WriterInv, UninterruptedInv, Flushed
  <2>2. BufferContinuesWire'
    BY <1>1, <1>2, <1>3, <2>1 DEF BufferContinuesWire
  <2>. QED BY <1>3, <2>1, <2>2 DEF UninterruptedInv, WireExact, Flushed
<1>. QED BY <1>1, <1>3, <1>4, <1>5 DEF WriterInv, PanicOnlyAfterCutShort

(* ... and one of a new writer behind everything the stream has taken.     *)
LEMMA WriterInvAfterRenew ==
  ASSUME WriterInv, NEW bits \in ItemBits, Renew(bits)
  PROVE  WriterInv'
<1> USE DEF held, codec, history
<1>1. /\ bits \in Nat /\ Len(wire) \in Nat /\ Len(wire) % 8 = 0 /\ BufSize \in Nat
      /\ pads \subseteq Nat
  BY WriterConstants DEF WriterInv, TypeOK
<1>2. /\ state = "Taken" /\ state' = "Serialize" /\ want' = bits /\ cursor' = 0
      /\ emitted' = 0 /\ done' = FALSE /\ res' = "None" /\ failed' = FALSE
      /\ frame' = Len(wire) \div 8 /\ pads' = pads \cap 0 .. Len(wire) - 1
      /\ buffer' = [b \in Slots |-> NoBit]
      /\ UNCHANGED <<fromStart, interrupted, polling, wire>>
  BY DEF Renew
<1>3. frame' \in Nat /\ 8 * frame' = Len(wire)
  BY <1>1, <1>2
<1>4. TypeOK'
  <2>1. buffer' \in [Slots -> Int]
    BY <1>2 DEF NoBit
  <2>2. cursor' \in 0 .. 8 * BufSize + (IF fromStart THEN 7 ELSE 0) /\ pads' \subseteq Nat
    BY <1>1, <1>2
  <2>3. done' \in BOOLEAN /\ failed' \in BOOLEAN /\ res' \in Results
    BY <1>2 DEF Results
  <2>. QED BY <1>1, <1>2, <1>3, <2>1, <2>2, <2>3 DEF WriterInv, TypeOK
<1>5. ASSUME ~interrupted PROVE UninterruptedInv'
  <2>1. BufferContinuesWire'
    BY <1>1, <1>2, <1>3 DEF BufferContinuesWire
  <2>2. WireExact'
    <3>1. WireExact
      BY <1>5 DEF WriterInv, UninterruptedInv
    <3>2. ASSUME NEW i \in 1 .. Len(wire) PROVE i - 1 \in 0 .. Len(wire) - 1
      BY <1>1
    <3>. QED BY <1>2, <3>1, <3>2 DEF WireExact
  <2>. QED BY <1>2, <2>1, <2>2 DEF UninterruptedInv, Flushed
<1>6. ~(cursor' > 8 * BufSize)
  BY <1>1, <1>2
<1>. QED BY <1>1, <1>2, <1>4, <1>5, <1>6 DEF WriterInv, PanicOnlyAfterCutShort

(* Every step preserves the invariant.                                     *)
LEMMA WriterInvStep == WriterInv /\ [Next]_vars => WriterInv'
<1> SUFFICES ASSUME WriterInv, [Next]_vars PROVE WriterInv'
  OBVIOUS
<1> USE DEF held, codec, history
<1>1. ASSUME SerializeReady PROVE WriterInv'
  <2>1. Left \in 0 .. Smaller(Left, Room)
    BY <1>1 DEF SerializeReady, Left, Room, Smaller, WriterInv, TypeOK
  <2>. QED
    BY <1>1, <2>1, WriterInvAfterFinish DEF SerializeReady, WriterInv, TypeOK
<1>2. ASSUME NEW k \in 0 .. Smaller(Left, Room), SerializeFails(k)
      PROVE  WriterInv'
  <2>1. /\ Serializing /\ Finish(k) /\ failed' = TRUE
        /\ polling' = FALSE /\ res' = "SerializeError"
    BY <1>2 DEF SerializeFails, Return
  <2>2. /\ polling' \in BOOLEAN
        /\ res' \in Results
    BY <2>1 DEF Results
  <2>3. failed' = TRUE \/ (failed' = failed /\ k = Left)
    BY <2>1
  <2>. QED BY <2>1, <2>2, <2>3, WriterInvAfterFinish
<1>3. ASSUME SerializeInsufficient PROVE WriterInv'
  <2>1. /\ state = "Serialize" /\ Left > Room /\ Emit(Room)
        /\ cursor' = cursor + Length(Room) /\ state' = "Writing"
        /\ UNCHANGED <<want, fromStart, history, done, polling, res, wire>>
    BY <1>3 DEF SerializeInsufficient, Serializing
  <2>2. /\ cursor \in Nat /\ BufSize \in Nat /\ Room \in Nat
        /\ cursor + Room = 8 * BufSize /\ Room \in 0 .. Smaller(Left, Room)
    BY <2>1, WriterConstants DEF WriterInv, TypeOK, Left, Room, Smaller
  <2>6. /\ cursor' \in 0 .. 8 * BufSize + (IF fromStart THEN 7 ELSE 0)
        /\ cursor' >= 8 * BufSize
        /\ cursor' > 8 * BufSize => interrupted
        /\ ~interrupted => cursor' = cursor + Room
    <3>1. /\ cursor + Length(Room) \in Nat /\ cursor + Room <= cursor + Length(Room)
          /\ cursor + Length(Room) <= 8 * BufSize + (IF fromStart THEN 7 ELSE 0)
          /\ cursor + Length(Room) > 8 * BufSize => fromStart /\ interrupted
          /\ ~interrupted => Length(Room) = Room
      BY <2>1, <2>2, LengthOfBuffer
    <3>2. fromStart \in BOOLEAN
      BY DEF WriterInv, TypeOK
    <3>. QED BY <2>1, <2>2, <3>1, <3>2
  <2>3. /\ buffer' \in [Slots -> Int]
        /\ emitted' = emitted + Room /\ emitted' \in Nat /\ emitted' <= want
        /\ ~interrupted =>
             /\ cursor = 0
             /\ Len(wire) = 8 * frame + emitted
             /\ \A b \in 0 .. Room - 1 : buffer'[b] = Len(wire) + b
    BY <2>1, <2>2, EmitIsExact
  <2>4. TypeOK'
    BY <2>1, <2>3, <2>6 DEF WriterInv, TypeOK
  <2>5. ASSUME ~interrupted PROVE UninterruptedInv'
    <3>1. Len(wire) \in Nat /\ frame \in Nat /\ emitted \in Nat
      BY DEF WriterInv, TypeOK
    <3>2. cursor' = Room /\ cursor' = 8 * BufSize
      BY <2>2, <2>3, <2>5, <2>6
    <3>3. BufferContinuesWire'
      BY <2>1, <2>2, <2>3, <2>5, <3>1, <3>2 DEF BufferContinuesWire
    <3>4. WireExact' /\ ~done'
      BY <2>1, <2>5 DEF WriterInv, UninterruptedInv, WireExact
    <3>. QED BY <2>1, <3>2, <3>3, <3>4 DEF UninterruptedInv, Flushed
  <2>. QED BY <2>1, <2>2, <2>3, <2>4, <2>5, <2>6 DEF WriterInv, PanicOnlyAfterCutShort
<1>4. ASSUME NEW k \in 0 .. Smaller(Left, Room), SerializePending(k)
      PROVE  WriterInv'
  <2>1. /\ state = "Serialize" /\ Emit(k)
        /\ interrupted' = (interrupted \/ k > 0)
        /\ polling' = FALSE /\ res' = "Pending"
        /\ UNCHANGED <<cursor, want, fromStart, frame, pads, failed, done, state, wire>>
    BY <1>4 DEF SerializePending, Serializing, Return
  <2>2. /\ buffer' \in [Slots -> Int]
        /\ emitted' = emitted + k /\ emitted' \in Nat /\ emitted' <= want
    BY <2>1, EmitIsExact
  <2>3. interrupted' \in BOOLEAN /\ res' \in Results /\ polling' \in BOOLEAN
    BY <2>1 DEF WriterInv, TypeOK, Results
  <2>4. TypeOK'
    BY <2>1, <2>2, <2>3 DEF WriterInv, TypeOK
  <2>5. ASSUME ~interrupted' PROVE UninterruptedInv'
    <3>1. ~interrupted /\ ~(k > 0) /\ UninterruptedInv /\ cursor = 0
      BY <2>1, <2>5 DEF WriterInv, UninterruptedInv
    <3>2. k = 0 /\ emitted' = emitted
      BY <2>2, <3>1 DEF WriterInv, TypeOK, Smaller, Left, Room
    <3>3. BufferContinuesWire'
      BY <2>1, <3>1, <3>2 DEF UninterruptedInv, BufferContinuesWire
    <3>. QED BY <2>1, <3>1, <3>2, <3>3 DEF UninterruptedInv, WireExact, Flushed
  <2>6. cursor' > 8 * BufSize => interrupted'
    BY <2>1 DEF WriterInv
  <2>. QED BY <2>1, <2>2, <2>4, <2>5, <2>6 DEF WriterInv, PanicOnlyAfterCutShort
<1>5. ASSUME WriteWhole PROVE WriterInv'
  BY <1>5, WriterInvAfterWhole
<1>6. ASSUME NEW size \in 0 .. SliceLen - 1, WriteShort(size) PROVE WriterInv'
  <2>0. Writing
    BY <1>6 DEF WriteShort
  <2>1. SliceLen \in Nat /\ SliceLen <= BufSize /\ BufSize \in Nat
    BY <2>0, SliceOfCursor, CursorInBounds, WriterConstants DEF Writing
  <2>2. /\ state = "Writing" /\ cursor' = SliceLen - size /\ interrupted' = TRUE
        /\ UNCHANGED <<buffer, codec, frame, pads, failed, done, state, polling, res>>
        /\ Accept(size)
    BY <1>6 DEF WriteShort, Writing
  <2>3. wire' \in Seq(Int) /\ Len(wire') % 8 = 0
    BY <2>0, <2>1, <2>2, AcceptIsExact
  <2>4. /\ cursor' \in 0 .. 8 * BufSize + (IF fromStart THEN 7 ELSE 0)
        /\ cursor' <= BufSize
    BY <2>1, <2>2
  <2>5. TypeOK'
    BY <2>2, <2>3, <2>4 DEF WriterInv, TypeOK
  <2>. QED BY <2>2, <2>3, <2>4, <2>5 DEF WriterInv, PanicOnlyAfterCutShort
<1>7. ASSUME WritePending \/ WriteFails PROVE WriterInv'
  <2>1. interrupted' \in BOOLEAN
    BY <1>7 DEF WritePending, WriteFails, WriteStops, WriterInv, TypeOK
  <2>2. polling' \in BOOLEAN /\ res' \in Results
    BY <1>7 DEF WritePending, WriteFails, WriteStops, Return, Results
  <2>. QED
    BY <1>7, <2>1, <2>2, WriterInvAfterStop DEF WritePending, WriteFails, WriteStops
<1>8. ASSUME NEW bits \in ItemBits, Reset(bits) PROVE WriterInv'
  BY <1>8, WriterInvAfterReset
<1>9. ASSUME Poll \/ ResetRefused \/ IntoInner \/ UNCHANGED vars PROVE WriterInv'
  <2>1. /\ UNCHANGED <<buffer, codec, frame, pads, failed, done, wire>>
        /\ UNCHANGED <<cursor, interrupted>>
        /\ UNCHANGED state \/ state' = "Taken"
    BY <1>9 DEF Poll, ResetRefused, IntoInner, vars
  <2>2. /\ polling' \in BOOLEAN
        /\ res' \in Results
    BY <1>9 DEF Poll, ResetRefused, IntoInner, vars, WriterInv, TypeOK, Results
  <2>3. interrupted' \in BOOLEAN
    BY <2>1 DEF WriterInv, TypeOK
  <2>. QED BY <2>1, <2>2, <2>3, WriterInvAfterStop
<1>10. ASSUME NEW bits \in ItemBits, Renew(bits) PROVE WriterInv'
  BY <1>10, WriterInvAfterRenew
<1>11. ASSUME Panic PROVE WriterInv'
  <2>1. /\ UNCHANGED <<buffer, codec, frame, pads, failed, done, wire, interrupted>>
        /\ state \in {"Serialize", "Writing"} /\ ~InBounds /\ state' = "Panicked"
        /\ cursor' = cursor \/ cursor' = SliceLen
        /\ polling' = FALSE /\ res' = "Panic"
    BY <1>11 DEF Panic, Return
  <2>2. polling' \in BOOLEAN /\ res' \in Results /\ interrupted' \in BOOLEAN
    BY <2>1 DEF Results, WriterInv, TypeOK
  <2>. QED BY <2>1, <2>2, WriterInvAfterStop
<1>. QED
  BY <1>1, <1>2, <1>3, <1>4, <1>5, <1>6, <1>7, <1>8, <1>9, <1>10, <1>11 DEF Next, LoopTurn, Owner

-----------------------------------------------------------------------------

(* The inductive invariant is an invariant, whatever fails.                *)
THEOREM WriterInvariant == Spec => []WriterInv
BY WriterInvInit, WriterInvStep, PTL DEF Spec

(* Type correctness of the writer's state.  The cursor stays within the    *)
(* buffer if len() counts since advance, and is at most seven bits behind  *)
(* its end if it counts from the start.                                    *)
THEOREM WriterTypeCorrect == Spec => []TypeOK
<1>1. WriterInv => TypeOK
  BY DEF WriterInv
<1>. QED BY <1>1, WriterInvariant, PTL

(* Up to the first transfer that is cut short, the transport gets every    *)
(* bit of every item in its place, and Ok is returned with none left over. *)
THEOREM WriterExactUntilInterrupted ==
  Spec => [](WireExactUntilInterrupted /\ FlushedUntilInterrupted)
<1>1. WriterInv => WireExactUntilInterrupted /\ FlushedUntilInterrupted
  BY DEF WriterInv, UninterruptedInv, WireExactUntilInterrupted, FlushedUntilInterrupted
<1>. QED BY <1>1, WriterInvariant, PTL

(* Ok is returned with none of the item's bits left over: the transport    *)
(* may be given away then, or the writer reset.                            *)
THEOREM WriterFlushes == Spec => []FlushedUntilInterrupted
BY WriterExactUntilInterrupted, PTL

(* An item completed without an error was serialized as a whole, even if   *)
(* transfers were cut short.                                               *)
THEOREM WriterCompletesWhole == Spec => []CompleteIsWhole
<1>1. WriterInv => CompleteIsWhole
  BY DEF WriterInv, CompleteIsWhole
<1>. QED BY <1>1, WriterInvariant, PTL

(* poll panics only if len() counts from the start, and then not before a *)
(* transfer was cut short.                                                 *)
THEOREM WriterPanicsOnlyAfterCutShort == Spec => []PanicOnlyAfterCutShort
<1>1. WriterInv => PanicOnlyAfterCutShort
  BY DEF WriterInv
<1>. QED BY <1>1, WriterInvariant, PTL

(* Over a transport that takes every slice whole, from a codec that only   *)
(* suspends before it writes, nothing is ever interrupted: the wire is     *)
(* exact, every completed item is on it, and poll never panics, whichever  *)
(* way len() counts.                                                       *)
THEOREM WriterExactOnSink ==
  ASSUME Faults \subseteq {"SerializeError"}, SuspendAfter \subseteq {0}
  PROVE  Spec => [](WireExact /\ Flushed /\ state # "Panicked")
<1>1. Init => ~interrupted
  BY DEF Init
<1>2. ~interrupted /\ [Next]_vars => ~interrupted'
  <2> SUFFICES ASSUME ~interrupted, [Next]_vars PROVE ~interrupted'
    OBVIOUS
  <2>1. ASSUME NEW k \in 0 .. Smaller(Left, Room), SerializePending(k)
        PROVE  ~interrupted'
    <3>1. k = 0 /\ interrupted' = (interrupted \/ k > 0)
      BY <2>1 DEF SerializePending
    <3>2. ~(k > 0)
      BY <3>1
    <3>. QED BY <3>1, <3>2
  <2>2. ~(\E size \in 0 .. SliceLen - 1 : WriteShort(size)) /\ ~WritePending /\ ~WriteFails
    BY DEF WriteShort, WritePending, WriteFails, WriteStops
  <2>3. ASSUME \/ SerializeReady \/ SerializeInsufficient \/ WriteWhole
               \/ \E k \in 0 .. Smaller(Left, Room) : SerializeFails(k)
               \/ Panic \/ Poll \/ ResetRefused \/ IntoInner \/ UNCHANGED vars
               \/ \E bits \in ItemBits : Reset(bits) \/ Renew(bits)
        PROVE  UNCHANGED interrupted
    BY <2>3
    DEF SerializeReady, SerializeInsufficient, SerializeFails, Finish, WriteWhole,
        Panic, Poll, Reset, ResetRefused, IntoInner, Renew, vars, history
  <2>. QED BY <2>1, <2>2, <2>3 DEF Next, LoopTurn, Owner
<1>3. /\ WireExactUntilInterrupted /\ FlushedUntilInterrupted
      /\ PanicOnlyAfterCutShort /\ ~interrupted
      => WireExact /\ Flushed /\ state # "Panicked"
  BY DEF WireExactUntilInterrupted, FlushedUntilInterrupted, PanicOnlyAfterCutShort
<1>. QED
  BY <1>1, <1>2, <1>3, WriterExactUntilInterrupted, WriterPanicsOnlyAfterCutShort, PTL
  DEF Spec

=============================================================================
