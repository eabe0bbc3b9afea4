-------------------------- MODULE AsyncReaderProofs --------------------------
(***************************************************************************)
(* What AsyncReader guarantees for every buffer size, every set of item    *)
(* sizes, every way the transport cuts the stream and fails, and every     *)
(* codec that suspends, if at all, before it reads: SuspendAfter is a      *)
(* subset of {0}, as it is for every codec of the crate (none of them ever *)
(* returns Pending of its own accord).                                     *)
(***************************************************************************)
EXTENDS AsyncReader, TLAPS

(* Rounding a position within an item up is the same as rounding up the    *)
(* number of bits the item has used, because items start on a byte         *)
(* boundary (`*this.cursor + 7 & !7`).                                     *)
LEMMA RoundUpFromBoundary ==
  ASSUME NEW m \in Int, NEW n \in Nat, NEW c \in Nat, NEW d \in Int,
         8 * d + c = 8 * m + n
  PROVE  8 * d + RoundUp(c) = 8 * (m + BytesFor(n))
  BY DEF RoundUp, BytesFor

(* Rounding up moves the cursor to a byte boundary at most seven bits on,  *)
(* never past the last byte of data.                                       *)
LEMMA RoundUpWithin ==
  ASSUME NEW c \in Nat, NEW l \in Nat, c <= 8 * l
  PROVE  RoundUp(c) \in Nat /\ c <= RoundUp(c) /\ RoundUp(c) <= 8 * l
  BY DEF RoundUp

(* Feeding the deserializer k bits from under the cursor appends the next  *)
(* k wire bits to what it has been fed.                                    *)
LEMMA FeedIsExact ==
  ASSUME ReaderInv, state = "Deserialize",
         NEW k \in 0 .. Available, Feed(k)
  PROVE  /\ fed' \in Seq(Int)
         /\ Len(fed') = Len(fed) + k
         /\ \A i \in 1 .. Len(fed') : fed'[i] = 8 * frame + i - 1
<1> DEFINE piece == [i \in 1 .. k |-> buffer[cursor + i - 1]]
<1>1. /\ cursor \in Nat /\ last_byte \in Nat /\ k \in Nat
      /\ cursor + k <= 8 * last_byte
      /\ last_byte <= BufSize /\ BufSize \in Nat
  BY ReaderConstants DEF ReaderInv, TypeOK, BufferIsWindow, Available
<1>2. \A i \in 1 .. k : /\ cursor + i - 1 \in Slots
                        /\ cursor + i - 1 \in 0 .. 8 * last_byte - 1
  BY <1>1 DEF Slots
<1>3. piece \in Seq(Int) /\ Len(piece) = k
  <2>1. \A i \in 1 .. k : buffer[cursor + i - 1] \in Int
    BY <1>2 DEF ReaderInv, TypeOK
  <2>. QED BY <1>1, <2>1
<1>4. fed \in Seq(Int) /\ Len(fed) \in Nat /\ frame \in Nat /\ fetched \in Nat
  BY DEF ReaderInv, TypeOK
<1>5. fed' = fed \o piece
  BY DEF Feed
<1>6. fed' \in Seq(Int) /\ Len(fed') = Len(fed) + k
  BY <1>3, <1>4, <1>5
<1>7. \A i \in 1 .. k : piece[i] = 8 * frame + Len(fed) + i - 1
  <2>1. 8 * (fetched - last_byte) + cursor = 8 * frame + Len(fed)
    BY DEF ReaderInv, CursorFollowsCodec, Position
  <2>2. \A i \in 1 .. k :
          buffer[cursor + i - 1] = 8 * (fetched - last_byte) + (cursor + i - 1)
    BY <1>2 DEF ReaderInv, BufferIsWindow
  <2>3. \A i \in 1 .. k : piece[i] = buffer[cursor + i - 1]
    OBVIOUS
  <2>. HIDE DEF piece
  <2>. QED BY <1>1, <1>4, <2>1, <2>2, <2>3
<1>8. ASSUME NEW i \in 1 .. Len(fed')
      PROVE  fed'[i] = 8 * frame + i - 1
  <2>1. CASE i <= Len(fed)
    BY <1>3, <1>4, <1>5, <1>6, <2>1 DEF ReaderInv, FedExactly
  <2>2. CASE i > Len(fed)
    <3>1. i - Len(fed) \in 1 .. k
      BY <1>1, <1>4, <1>6, <2>2
    <3>2. fed'[i] = piece[i - Len(fed)]
      BY <1>3, <1>4, <1>5, <1>6, <2>2
    <3>. HIDE DEF piece
    <3>. QED BY <1>4, <1>7, <3>1, <3>2
  <2>. QED BY <1>4, <1>6, <2>1, <2>2
<1>. QED BY <1>6, <1>8

(* A successful poll_read in a drained reader leaves a buffer that holds   *)
(* exactly the bytes just read, and puts the cursor back to its start.     *)
LEMMA RefillIsExact ==
  ASSUME ReaderInv, NEW size \in ReadSizes, ReadOk(size)
  PROVE  /\ size \in 0 .. BufSize
         /\ last_byte' = size /\ cursor' = 0 /\ fetched' = fetched + size
         /\ buffer' \in [Slots -> Int]
         /\ \A b \in 0 .. 8 * size - 1 : buffer'[b] = 8 * fetched + b
<1>1. /\ cursor = 8 * last_byte
      /\ last_byte \in Nat /\ fetched \in Nat /\ arrived \in Nat
      /\ BufSize \in Nat \ {0}
  BY ReaderConstants DEF ReaderInv, TypeOK, ReadOk, Reading
<1>2. CursorByte = last_byte /\ cursor % 8 = 0
  BY <1>1 DEF CursorByte
<1>3. Residue = 0 /\ Free = BufSize
  BY <1>1, <1>2 DEF Residue, Free
<1>4. size \in 0 .. BufSize
  BY <1>1, <1>3 DEF ReadSizes, Smaller, Waiting
<1>5. /\ last_byte' = size /\ cursor' = 0 /\ fetched' = fetched + size
      /\ buffer' = Refilled(size)
  BY <1>2, <1>3, <1>4 DEF ReadOk
<1>6. Refilled(size) = [b \in Slots |->
         CASE b \in 0 .. 8 * size - 1 -> 8 * fetched + b
           [] b < 0 /\ b < 0          -> buffer[b + 8 * CursorByte]
           [] OTHER                   -> buffer[b]]
  BY <1>1, <1>2, <1>3, <1>4 DEF Refilled, Slots
<1>7. \A b \in Slots : Refilled(size)[b] =
         IF b \in 0 .. 8 * size - 1 THEN 8 * fetched + b ELSE buffer[b]
  BY <1>1, <1>4, <1>6 DEF Slots
<1>8. \A b \in Slots : buffer[b] \in Int /\ 8 * fetched + b \in Int
  BY <1>1 DEF ReaderInv, TypeOK, Slots
<1>9. Refilled(size) \in [Slots -> Int]
  BY <1>6, <1>7, <1>8
<1>10. \A b \in 0 .. 8 * size - 1 : b \in Slots
  BY <1>1, <1>4 DEF Slots
<1>. QED BY <1>4, <1>5, <1>7, <1>9, <1>10

-----------------------------------------------------------------------------

(* The invariant holds of a new reader.                                    *)
LEMMA ReaderInvInit == Init => ReaderInv
<1> SUFFICES ASSUME Init PROVE ReaderInv
  OBVIOUS
<1> USE ReaderConstants DEF Init
<1>1. want \in Nat /\ Len(fed) = 0
  OBVIOUS
<1>2. TypeOK
  <2>1. buffer \in [Slots -> Int]
    BY DEF NoBit
  <2>2. cursor \in 0 .. 8 * BufSize /\ last_byte \in 0 .. BufSize
    OBVIOUS
  <2>3. fed \in Seq(Int) /\ frame \in Nat /\ arrived \in Nat /\ fetched \in Nat
    OBVIOUS
  <2>4. polling \in BOOLEAN /\ closed \in BOOLEAN
    OBVIOUS
  <2>. QED BY <1>1, <2>1, <2>2, <2>3, <2>4 DEF TypeOK
<1>3. BufferIsWindow
  BY DEF BufferIsWindow
<1>4. CursorFollowsCodec
  BY <1>1 DEF CursorFollowsCodec, Position
<1>. QED BY <1>1, <1>2, <1>3, <1>4 DEF ReaderInv, FedExactly

(* The bits a codec takes from the window leave the window as it is, so an *)
(* action that feeds it only has to place the cursor.                      *)
LEMMA ReaderInvAfterFeed ==
  ASSUME ReaderInv, state = "Deserialize", NEW k \in 0 .. Available, Feed(k), k <= Left,
         UNCHANGED <<buffer, last_byte, want, frame, transport, fetched>>,
         polling' \in BOOLEAN,
         res' \in {"None", "Pending", "Ok", "ReadError", "DeserializeError", "Incomplete"},
         \/ cursor' = RoundUp(cursor + k) /\ state' = "Complete"
         \/ cursor' = cursor + k /\ state' = "Reading" /\ k = Available
         \/ cursor' = cursor + k /\ state' = "Deserialize"
  PROVE  ReaderInv'
<1>1. /\ cursor \in Nat /\ last_byte \in Nat /\ fetched \in Nat /\ frame \in Nat
      /\ k \in Nat /\ cursor + k <= 8 * last_byte /\ last_byte <= BufSize
      /\ BufSize \in Nat /\ fed \in Seq(Int) /\ Len(fed) \in Nat
  BY ReaderConstants DEF ReaderInv, TypeOK, BufferIsWindow, Available
<1>2. /\ fed' \in Seq(Int) /\ Len(fed') = Len(fed) + k
      /\ \A i \in 1 .. Len(fed') : fed'[i] = 8 * frame + i - 1
  BY FeedIsExact
<1>3. /\ RoundUp(cursor + k) \in Nat
      /\ cursor + k <= RoundUp(cursor + k) /\ RoundUp(cursor + k) <= 8 * last_byte
  BY <1>1, RoundUpWithin
<1>4. cursor' \in Nat /\ cursor' <= 8 * last_byte
  BY <1>1, <1>3
<1>5. TypeOK'
  BY <1>1, <1>2, <1>4 DEF ReaderInv, TypeOK, transport
<1>6. BufferIsWindow'
  BY <1>4 DEF ReaderInv, BufferIsWindow
<1>7. 8 * (fetched - last_byte) + (cursor + k) = 8 * frame + (Len(fed) + k)
  BY <1>1 DEF ReaderInv, CursorFollowsCodec, Position
<1>8. CursorFollowsCodec'
  <2>1. CASE state' = "Complete"
    <3>1. 8 * (fetched - last_byte) + RoundUp(cursor + k)
            = 8 * (frame + BytesFor(Len(fed) + k))
      <4>1. /\ cursor + k \in Nat /\ Len(fed) + k \in Nat
            /\ fetched - last_byte \in Int /\ frame \in Int
        BY <1>1
      <4>. QED BY <1>7, <4>1, RoundUpFromBoundary
    <3>. QED BY <1>2, <2>1, <3>1 DEF CursorFollowsCodec, Position
  <2>2. CASE state' # "Complete"
    BY <1>2, <1>7, <2>2 DEF CursorFollowsCodec, Position
  <2>. QED BY <2>1, <2>2
<1>9. (state = "Reading" => cursor = 8 * last_byte)'
  BY <1>1 DEF Available
<1>10. FedExactly'
  BY <1>2 DEF FedExactly
<1>11. (Len(fed) <= want)'
  BY <1>1, <1>2 DEF Left, ReaderInv, TypeOK
<1>. QED BY <1>5, <1>6, <1>8, <1>9, <1>10, <1>11 DEF ReaderInv

(* A step that moves none of buffer, codec and cursor keeps the invariant. *)
LEMMA ReaderInvIfHeld ==
  ASSUME ReaderInv,
         UNCHANGED <<held, codec, fetched>>,
         \/ UNCHANGED state
         \/ state # "Complete" /\ state' = "Dropped",
         polling' \in BOOLEAN, closed' \in BOOLEAN, arrived' \in Nat,
         res' \in {"None", "Pending", "Ok", "ReadError", "DeserializeError", "Incomplete"}
  PROVE  ReaderInv'
BY DEF held, codec, ReaderInv, TypeOK, BufferIsWindow, CursorFollowsCodec, Position,
       FedExactly

(* A byte arrives behind what was fetched, however many were ever sent.    *)
LEMMA ReaderInvAfterArrive ==
  ASSUME ReaderInv, NEW limit, Arrive(limit)
  PROVE  ReaderInv'
<1>1. /\ UNCHANGED <<held, codec, fetched>> /\ UNCHANGED <<state, polling, res, closed>>
      /\ arrived' = arrived + 1
  BY DEF Arrive
<1>2. arrived' \in Nat /\ closed' \in BOOLEAN
  BY <1>1 DEF ReaderInv, TypeOK
<1>. QED BY <1>1, <1>2, ReaderInvIfHeld DEF ReaderInv, TypeOK

(* Every step preserves the invariant.                                     *)
LEMMA ReaderInvStep ==
  ASSUME SuspendAfter \subseteq {0}, ReaderInv, [Next]_vars
  PROVE  ReaderInv'
<1> USE DEF held, codec, transport
<1>1. ASSUME DeserializeReady PROVE ReaderInv'
  <2>1. Left \in 0 .. Available /\ Left <= Left
    BY <1>1 DEF DeserializeReady, Left, Available, ReaderInv, TypeOK
  <2>. QED
    BY <1>1, <2>1, ReaderInvAfterFeed DEF DeserializeReady, Deserializing, Return
<1>2. ASSUME NEW k \in 0 .. Smaller(Left, Available), DeserializeFails(k)
      PROVE  ReaderInv'
  <2>1. k \in 0 .. Available /\ k <= Left
    BY DEF Smaller, Left, Available, ReaderInv, TypeOK
  <2>. QED
    BY <1>2, <2>1, ReaderInvAfterFeed DEF DeserializeFails, Deserializing, Return
<1>3. ASSUME DeserializeInsufficient PROVE ReaderInv'
  <2>1. Available \in 0 .. Available /\ Available <= Left
    BY <1>3 DEF DeserializeInsufficient, ReaderInv, TypeOK, BufferIsWindow, Available, Left
  <2>. QED
    BY <1>3, <2>1, ReaderInvAfterFeed
    DEF DeserializeInsufficient, Deserializing, ReaderInv, TypeOK
<1>4. ASSUME NEW k \in 0 .. Smaller(Left, Available), DeserializePending(k)
      PROVE  ReaderInv'
  <2>1. k \in 0 .. Available /\ k <= Left /\ cursor = cursor + k
    BY <1>4
    DEF DeserializePending, Smaller, Left, Available, ReaderInv, TypeOK
  <2>. QED
    BY <1>4, <2>1, ReaderInvAfterFeed DEF DeserializePending, Deserializing, Return
<1>5. ASSUME NEW size \in ReadSizes, ReadOk(size) PROVE ReaderInv'
  <2>1. /\ size \in 0 .. BufSize
        /\ last_byte' = size /\ cursor' = 0 /\ fetched' = fetched + size
        /\ buffer' \in [Slots -> Int]
        /\ \A b \in 0 .. 8 * size - 1 : buffer'[b] = 8 * fetched + b
    BY <1>5, RefillIsExact
  <2>2. /\ cursor = 8 * last_byte /\ state = "Reading" /\ state' = "Deserialize"
        /\ UNCHANGED <<codec, transport, polling, res>>
    BY <1>5 DEF ReadOk, Reading, ReaderInv
  <2>3. /\ last_byte \in Nat /\ fetched \in Nat /\ size \in Nat
        /\ BufSize \in Nat /\ last_byte <= fetched
    BY <2>1, ReaderConstants DEF ReaderInv, TypeOK, BufferIsWindow
  <2>4. TypeOK'
    BY <2>1, <2>2, <2>3 DEF ReaderInv, TypeOK
  <2>5. BufferIsWindow'
    BY <2>1, <2>2, <2>3 DEF BufferIsWindow
  <2>6. CursorFollowsCodec'
    BY <2>1, <2>2, <2>3 DEF ReaderInv, CursorFollowsCodec, Position
  <2>7. FedExactly'
    BY <2>2 DEF ReaderInv, FedExactly
  <2>. QED BY <2>2, <2>4, <2>5, <2>6, <2>7 DEF ReaderInv
<1>6. ASSUME NEW bits \in ItemBits, Reset(bits) PROVE ReaderInv'
  <2>1. /\ frame \in Nat /\ Len(fed) \in Nat /\ bits \in Nat
    BY ReaderConstants DEF ReaderInv, TypeOK
  <2>2. BytesFor(Len(fed)) \in Nat
    BY <2>1 DEF BytesFor
  <2>3. /\ state = "Complete" /\ state' = "Deserialize"
        /\ fed' = <<>> /\ Len(fed') = 0 /\ want' = bits
        /\ frame' = frame + BytesFor(Len(fed)) /\ res' = "None"
        /\ UNCHANGED <<held, transport, polling, fetched>>
    BY <1>6 DEF Reset
  <2>4. TypeOK'
    BY <2>1, <2>2, <2>3 DEF ReaderInv, TypeOK
  <2>5. BufferIsWindow'
    BY <2>3 DEF ReaderInv, BufferIsWindow
  <2>6. CursorFollowsCodec'
    BY <2>1, <2>2, <2>3 DEF ReaderInv, TypeOK, CursorFollowsCodec, Position
  <2>7. FedExactly'
    BY <2>3 DEF FedExactly
  <2>. QED BY <2>1, <2>3, <2>4, <2>5, <2>6, <2>7 DEF ReaderInv
<1>7. ASSUME Poll \/ ResetRefused \/ ResetAsRefused \/ ReadPending \/ ReadFails
      PROVE  ReaderInv'
  BY <1>7, ReaderInvIfHeld
  DEF Poll, ResetRefused, ResetAsRefused, ReadPending, ReadFails, Return,
      ReaderInv, TypeOK
<1>8. ASSUME Close \/ UNCHANGED vars PROVE ReaderInv'
  <2>1. /\ UNCHANGED <<held, codec, fetched>> /\ UNCHANGED <<state, polling, res, arrived>>
    BY <1>8 DEF Close, vars
  <2>2. closed' \in BOOLEAN
    BY <1>8 DEF Close, vars, ReaderInv, TypeOK
  <2>. QED BY <2>1, <2>2, ReaderInvIfHeld DEF ReaderInv, TypeOK
<1>9. ASSUME Arrive(StreamBytes) PROVE ReaderInv'
  BY <1>9, ReaderInvAfterArrive
<1>. QED
  BY <1>1, <1>2, <1>3, <1>4, <1>5, <1>6, <1>7, <1>8, <1>9 DEF Next, LoopTurn, Owner

-----------------------------------------------------------------------------

(* The inductive invariant is an invariant.                                *)
THEOREM ReaderInvariant ==
  ASSUME SuspendAfter \subseteq {0}
  PROVE  Spec => []ReaderInv
<1>1. ReaderInv /\ [Next]_vars => ReaderInv'
  BY ReaderInvStep
<1>. QED BY <1>1, ReaderInvInit, PTL DEF Spec

(* Type correctness of the reader's state.                                 *)
THEOREM ReaderTypeCorrect ==
  ASSUME SuspendAfter \subseteq {0}
  PROVE  Spec => []TypeOK
<1>1. ReaderInv => TypeOK
  BY DEF ReaderInv
<1>. QED BY <1>1, ReaderInvariant, PTL

(* Every item is deserialized from exactly its own bits, however the       *)
(* stream is fragmented and whichever calls fail and are retried.          *)
THEOREM ReaderFeedsExactly ==
  ASSUME SuspendAfter \subseteq {0}
  PROVE  Spec => []FedExactly
<1>1. ReaderInv => FedExactly
  BY DEF ReaderInv
<1>. QED BY <1>1, ReaderInvariant, PTL

(* None of the unwraps in AsyncReader::poll can panic.                     *)
THEOREM ReaderNeverPanics ==
  ASSUME SuspendAfter \subseteq {0}
  PROVE  Spec => []NoPanic
<1>1. ReaderInv => NoPanic
  <2>1. ASSUME ReaderInv, state = "Reading"
        PROVE  8 * Residue + (cursor % 8) + 8 * Free <= 8 * BufSize
    <3>1. cursor = 8 * last_byte /\ last_byte \in Nat /\ BufSize \in Nat
      BY <2>1, ReaderConstants DEF ReaderInv, TypeOK
    <3>2. cursor % 8 = 0 /\ CursorByte = last_byte
      BY <3>1 DEF CursorByte
    <3>. QED BY <3>1, <3>2 DEF Residue, Free
  <2>. QED BY <2>1 DEF ReaderInv, BufferIsWindow, NoPanic
<1>. QED BY <1>1, ReaderInvariant, PTL

(* Only poll_read hands bytes over, and only to a reader whose codec has   *)
(* consumed every bit that was handed over before.                         *)
THEOREM ReaderReadsOnlyWhenDrained ==
  ASSUME SuspendAfter \subseteq {0}
  PROVE  Spec => ReadsOnlyWhenDrained
<1> DEFINE Drained == Available = 0 /\ fetched = frame + Len(fed) \div 8
<1>1. ASSUME ReaderInv, [Next]_vars, fetched' # fetched
      PROVE  Drained
  <2>1. PICK size \in ReadSizes : ReadOk(size)
    BY <1>1
    DEF Next, LoopTurn, Owner, DeserializeReady, DeserializeFails, DeserializeInsufficient,
        DeserializePending, ReadPending, ReadFails, Poll, Reset, ResetRefused,
        ResetAsRefused, Arrive, Close, vars
  <2>2. /\ state = "Reading" /\ cursor = 8 * last_byte
        /\ last_byte \in Nat /\ fetched \in Nat /\ frame \in Nat /\ Len(fed) \in Nat
    BY <1>1, <2>1 DEF ReadOk, Reading, ReaderInv, TypeOK
  <2>3. 8 * fetched = 8 * frame + Len(fed)
    BY <1>1, <2>2 DEF ReaderInv, CursorFollowsCodec, Position
  <2>. QED BY <2>2, <2>3 DEF Available
<1>2. ReaderInv /\ [Next]_vars => [fetched' # fetched => Drained]_vars
  BY <1>1
<1>. QED BY <1>2, ReaderInvariant, PTL DEF Spec, ReadsOnlyWhenDrained

(* A poll that meets the end of the stream in the middle of an item stays  *)
(* in its loop with nothing to feed the codec, step after step, unless     *)
(* something other than the end of the stream fails or suspends.           *)
THEOREM ReaderSpinsAtEof ==
  ASSUME SuspendAfter \subseteq {0}
  PROVE  Spec => EofIsNeverReported
<1> DEFINE Other == res' \in {"ReadError", "DeserializeError", "Pending"}
<1>1. ASSUME ReaderInv, [Next]_vars, StarvedAtEof
      PROVE  StarvedAtEof' \/ Other
  <2> USE DEF StarvedAtEof
  <2>1. /\ cursor \in Nat /\ last_byte \in Nat /\ fetched \in Nat /\ want \in Nat
        /\ fed \in Seq(Int) /\ Len(fed) \in Nat /\ cursor <= 8 * last_byte
        /\ BufSize \in Nat /\ arrived \in Nat
    BY <1>1, ReaderConstants DEF ReaderInv, TypeOK, BufferIsWindow
  <2>2. CASE DeserializeInsufficient
    <3>1. Available \in 0 .. Available
      BY <2>1 DEF Available
    <3>2. Len(fed') = Len(fed) + Available
      BY <1>1, <2>2, <3>1, FeedIsExact DEF DeserializeInsufficient, Deserializing
    <3>3. Left' = Left - Available /\ Available' = 0
      BY <2>1, <2>2, <3>2 DEF DeserializeInsufficient, Left, Available
    <3>. QED
      BY <1>1, <2>1, <2>2, <3>3 DEF DeserializeInsufficient, Left, Available, transport
  <2>3. ASSUME NEW size \in ReadSizes, ReadOk(size)
        PROVE  StarvedAtEof'
    <3>1. /\ size \in 0 .. BufSize /\ size = 0
          /\ last_byte' = size /\ cursor' = 0 /\ fetched' = fetched + size
      <4>1. Waiting = 0 /\ Smaller(Free, Waiting) <= 0
        BY <1>1, <2>1 DEF Waiting, Smaller, Free, Residue, CursorByte
      <4>2. 1 .. Smaller(Free, Waiting) = {}
        BY <2>1, <4>1 DEF Waiting, Smaller, Free, Residue, CursorByte
      <4>3. size = 0
        BY <4>2 DEF ReadSizes
      <4>. QED BY <1>1, <2>3, <4>3, RefillIsExact
    <3>2. cursor = 8 * last_byte /\ Available = 0
      BY <1>1, <2>1, <2>3 DEF ReadOk, Reading, ReaderInv, Available
    <3>3. Available' = 0 /\ Left' = Left
      BY <2>3, <3>1 DEF ReadOk, codec, Left, Available
    <3>. QED BY <1>1, <2>1, <2>3, <3>1, <3>2, <3>3 DEF ReadOk, Reading, transport
  <2>4. CASE \/ ReadFails
             \/ \E k \in 0 .. Smaller(Left, Available) :
                  DeserializeFails(k) \/ DeserializePending(k)
    BY <2>4 DEF ReadFails, DeserializeFails, DeserializePending, Return
  <2>5. CASE UNCHANGED vars
    BY <1>1, <2>5 DEF vars, held, codec, transport, Left, Available
  <2>6. /\ ~DeserializeReady /\ ~ReadPending /\ ~Owner /\ ~Arrive(StreamBytes) /\ ~Close
    BY <1>1, <2>1
    DEF DeserializeReady, Left, Available, ReadPending, Owner, Poll, Reset, ResetRefused,
        ResetAsRefused, Arrive, Close
  <2>. QED BY <1>1, <2>2, <2>3, <2>4, <2>5, <2>6 DEF Next, LoopTurn
<1>2. ReaderInv /\ [Next]_vars => [StarvedAtEof => StarvedAtEof' \/ Other]_vars
  BY <1>1
<1>. QED BY <1>2, ReaderInvariant, PTL DEF Spec, EofIsNeverReported

=============================================================================
