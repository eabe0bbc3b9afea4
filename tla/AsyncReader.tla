----------------------------- MODULE AsyncReader -----------------------------
(***************************************************************************)
(* The AsyncReader adapter (src/src/lib.rs): it cuts a byte stream, taken  *)
(* from an AsyncRead in pieces of any size, into items, and feeds the      *)
(* bits of each item to a deserializer that may run out of bits anywhere.  *)
(*                                                                         *)
(* Data are abstracted to positions.  Bit n of the wire is the number n    *)
(* (bit n % 8 of byte n \div 8), so the buffer says WHICH wire bit each of *)
(* its slots holds, and a lost, repeated or displaced bit is visible.  The *)
(* deserializer is any codec that keeps the contract of the Deserialize    *)
(* trait: it consumes every bit it is offered until it has the bits of its *)
(* item, and it remembers what it was fed across an Insufficient.          *)
(***************************************************************************)
EXTENDS Integers, Sequences

CONSTANTS
  BufSize,      (* ASYNC_READER_BUF_SIZE, in bytes                            *)
  ItemBits,     (* the encoded sizes, in bits, an item may have               *)
  StreamBytes,  (* how many bytes the peer sends before it falls silent       *)
  Faults,       (* what may fail: a subset of FaultKinds                      *)
  SuspendAfter  (* how many bits a deserializer may consume in one call and   *)
                (* then return Pending: {} never, {0} only before it reads    *)

FaultKinds == {"DeserializeError", "ReadError", "Eof"}

ASSUME ReaderConstants ==
  /\ BufSize \in Nat \ {0}
  /\ ItemBits \subseteq Nat
  /\ StreamBytes \in Nat
  /\ Faults \subseteq FaultKinds
  /\ SuspendAfter \subseteq Nat

VARIABLES
  buffer,     (* [slot -> wire bit], NoBit where nothing was written yet      *)
  cursor,     (* bits of the buffer already consumed                          *)
  last_byte,  (* bytes of the buffer that hold data                           *)
  state,      (* AsyncReaderState, or "Dropped" once the reader is gone       *)
  want,       (* the deserializer: how many bits its item has                 *)
  fed,        (* the deserializer: the wire bits it has consumed, in order    *)
  polling,    (* a call of poll is under way                                  *)
  res,        (* what the last call returned                                  *)
  arrived,    (* bytes of the wire that reached the transport                 *)
  closed,     (* the peer has closed the stream                               *)
  fetched,    (* bytes poll_read has handed over so far                       *)
  frame       (* history: the wire byte at which the current item starts      *)

held      == <<buffer, cursor, last_byte>>
codec     == <<want, fed, frame>>
transport == <<arrived, closed>>
vars      == <<held, codec, transport, state, polling, res, fetched>>

NoBit == -1

Slots    == 0 .. 8 * BufSize - 1
Smaller(a, b) == IF a < b THEN a ELSE b

(* Items are packed into whole bytes of the stream: the bytes n bits take. *)
BytesFor(n) == (n + 7) \div 8

-----------------------------------------------------------------------------
(* The buffer.  Mutated forms stand before the definition they replace.    *)

(* The bits the deserializer can be offered: BitSlice over the first       *)
(* last_byte bytes, advanced by cursor.                                    *)
Available == 8 * last_byte - cursor

CursorByte == cursor \div 8

(* Bytes of the buffer still in use, and room left for poll_read.          *)
Residue == last_byte - CursorByte
Free    == BufSize - Residue

(* `cursor + 7 & !7`: + binds tighter than &, so this rounds up.  Mutated  *)
(* forms: & binds tighter; one too many is added.                          *)
MutRoundUp(c) == (c \div 8) * 8
MutRoundPast(c) == ((c + 8) \div 8) * 8
RoundUp(c) == ((c + 7) \div 8) * 8

(* The next k bits of the buffer go to the deserializer.                   *)
Feed(k) == fed' = fed \o [i \in 1 .. k |-> buffer[cursor + i - 1]]

(* copy_within(cursor_bytes..last_byte, 0), then `size` bytes fresh from   *)
(* the transport written from bit 8 * Residue + (cursor & 7) on.  A mutated  *)
(* form: the fresh bytes go where the data ended before it was moved.      *)
MutRefilled(size) ==
  LET start == 8 * last_byte + (cursor % 8)
  IN  [b \in Slots |->
         CASE b \in start .. start + 8 * size - 1 -> 8 * fetched + (b - start)
           [] b < 8 * Residue                     -> buffer[b + 8 * CursorByte]
           [] OTHER                               -> buffer[b]]

Refilled(size) ==
  LET start == 8 * Residue + (cursor % 8)
  IN  [b \in Slots |->
         CASE b \in start .. start + 8 * size - 1 -> 8 * fetched + (b - start)
           [] b < start /\ b < 8 * Residue        -> buffer[b + 8 * CursorByte]
           [] OTHER                               -> buffer[b]]

-----------------------------------------------------------------------------
(* The executor and the transport.                                         *)

Return(r) == polling' = FALSE /\ res' = r

(* The task is scheduled.  A completed reader panics when polled, and its  *)
(* owner resets it first; one that returned a read error may be retried.   *)
Poll ==
  /\ ~polling /\ state \in {"Deserialize", "Reading"}
  /\ polling' = TRUE /\ res' = "None"
  /\ UNCHANGED <<held, codec, transport, state, fetched>>

(* A byte reaches this end of the transport; `limit` bytes were ever sent. *)
Arrive(limit) ==
  /\ ~closed /\ arrived < limit
  /\ arrived' = arrived + 1
  /\ UNCHANGED <<held, codec, state, polling, res, closed, fetched>>

(* The peer closes: from here on poll_read answers Ok(0) once drained.     *)
Close ==
  /\ "Eof" \in Faults /\ ~closed
  /\ closed' = TRUE
  /\ UNCHANGED <<held, codec, state, polling, res, arrived, fetched>>

-----------------------------------------------------------------------------
(* One turn of poll's loop in AsyncReaderState::Deserialize.               *)

Deserializing == polling /\ state = "Deserialize"
Left == want - Len(fed)

(* BufPoll::Ready(Ok): the item is whole; skip to the next byte boundary.  *)
DeserializeReady ==
  /\ Deserializing /\ Left <= Available
  /\ Feed(Left)
  /\ cursor' = RoundUp(cursor + Left)
  /\ state' = "Complete" /\ Return("Ok")
  /\ UNCHANGED <<buffer, last_byte, want, frame, transport, fetched>>

(* BufPoll::Ready(Err): completes the reader too, wherever the codec was.  *)
DeserializeFails(k) ==
  /\ "DeserializeError" \in Faults
  /\ Deserializing
  /\ Feed(k)
  /\ cursor' = RoundUp(cursor + k)
  /\ state' = "Complete" /\ Return("DeserializeError")
  /\ UNCHANGED <<buffer, last_byte, want, frame, transport, fetched>>

(* BufPoll::Insufficient: the deserializer took all there was.             *)
MutDeserializeInsufficient ==
  /\ Deserializing /\ Left > Available
  /\ Feed(Available)
  /\ state' = "Reading"
  /\ UNCHANGED <<held, want, frame, transport, polling, res, fetched>>

DeserializeInsufficient ==
  /\ Deserializing /\ Left > Available
  /\ Feed(Available)
  /\ cursor' = cursor + Available
  /\ state' = "Reading"
  /\ UNCHANGED <<buffer, last_byte, want, frame, transport, polling, res, fetched>>

(* BufPoll::Pending after k more bits: returned as it is, and the cursor   *)
(* stays where it was although the deserializer has moved on.              *)
DeserializePending(k) ==
  /\ Deserializing /\ k \in SuspendAfter
  /\ Feed(k)
  /\ Return("Pending")
  /\ UNCHANGED <<held, want, frame, transport, state, fetched>>

-----------------------------------------------------------------------------
(* One turn of poll's loop in AsyncReaderState::Reading.                   *)

Reading == polling /\ state = "Reading"
Waiting == arrived - fetched

(* Poll::Ready(Ok(size)): the buffer is compacted and the bytes appended.  *)
(* Ok(0) means that the stream has ended, or that there was no room.       *)
ReadSizes == 1 .. Smaller(Free, Waiting)
               \cup (IF Free = 0 \/ (closed /\ Waiting = 0) THEN {0} ELSE {})

(* A mutated form: the end of the stream is reported instead.              *)
MutReadOk(size) ==
  /\ Reading
  /\ IF size = 0
       THEN Return("UnexpectedEof") /\ UNCHANGED <<held, fetched, state>>
       ELSE /\ buffer' = Refilled(size)
            /\ cursor' = cursor % 8
            /\ last_byte' = Residue + size
            /\ fetched' = fetched + size
            /\ state' = "Deserialize"
            /\ UNCHANGED <<polling, res>>
  /\ UNCHANGED <<codec, transport>>

ReadOk(size) ==
  /\ Reading
  /\ buffer' = Refilled(size)
  /\ cursor' = cursor % 8
  /\ last_byte' = Residue + size
  /\ fetched' = fetched + size
  /\ state' = "Deserialize"
  /\ UNCHANGED <<codec, transport, polling, res>>

(* Poll::Pending: nothing has arrived yet.  A mutated form: the loop goes  *)
(* round instead of returning.                                             *)
MutReadPending ==
  /\ Reading /\ Free > 0 /\ Waiting = 0 /\ ~closed
  /\ state' = "Deserialize"
  /\ UNCHANGED <<held, codec, transport, polling, res, fetched>>

ReadPending ==
  /\ Reading /\ Free > 0 /\ Waiting = 0 /\ ~closed
  /\ Return("Pending")
  /\ UNCHANGED <<held, codec, transport, state, fetched>>

(* Poll::Ready(Err): returned, and the reader stays in Reading.            *)
ReadFails ==
  /\ "ReadError" \in Faults
  /\ Reading
  /\ Return("ReadError")
  /\ UNCHANGED <<held, codec, transport, state, fetched>>

-----------------------------------------------------------------------------
(* The owner of the reader, between two polls.                             *)

(* A mutated form: reset starts over with an empty buffer.                 *)
MutReset(bits) ==
  /\ ~polling /\ state = "Complete"
  /\ want' = bits /\ fed' = <<>>
  /\ frame' = frame + BytesFor(Len(fed))
  /\ cursor' = 0 /\ last_byte' = 0
  /\ state' = "Deserialize" /\ res' = "None"
  /\ UNCHANGED <<buffer, transport, polling, fetched>>

(* reset and a reset_as that succeeds: a new deserializer on the same      *)
(* buffer, cursor and transport.                                           *)
Reset(bits) ==
  /\ ~polling /\ state = "Complete"
  /\ want' = bits /\ fed' = <<>>
  /\ frame' = frame + BytesFor(Len(fed))
  /\ state' = "Deserialize" /\ res' = "None"
  /\ UNCHANGED <<held, transport, polling, fetched>>

(* reset before completion is refused and changes nothing.                 *)
ResetRefused ==
  /\ ~polling /\ state \in {"Deserialize", "Reading"}
  /\ res' = "Incomplete"
  /\ UNCHANGED <<held, codec, transport, state, polling, fetched>>

(* reset_as takes the reader by value: refused, it drops reader, transport *)
(* and every byte that was buffered.                                       *)
ResetAsRefused ==
  /\ ~polling /\ state \in {"Deserialize", "Reading"}
  /\ res' = "Incomplete" /\ state' = "Dropped"
  /\ UNCHANGED <<held, codec, transport, polling, fetched>>

-----------------------------------------------------------------------------
(* AsyncReader::new on a transport nothing has been read from.             *)
Init ==
  /\ buffer = [b \in Slots |-> NoBit] /\ cursor = 0 /\ last_byte = 0
  /\ want \in ItemBits /\ fed = <<>> /\ frame = 0
  /\ state = "Deserialize" /\ polling = FALSE /\ res = "None"
  /\ arrived = 0 /\ closed = FALSE /\ fetched = 0

LoopTurn ==
  \/ DeserializeReady
  \/ \E k \in 0 .. Smaller(Left, Available) : DeserializeFails(k)
  \/ DeserializeInsufficient
  \/ \E k \in 0 .. Smaller(Left, Available) : DeserializePending(k)
  \/ \E size \in ReadSizes : ReadOk(size)
  \/ ReadPending
  \/ ReadFails

Owner ==
  \/ Poll
  \/ \E bits \in ItemBits : Reset(bits)
  \/ ResetRefused
  \/ ResetAsRefused

Next == LoopTurn \/ Owner \/ Arrive(StreamBytes) \/ Close

Spec == Init /\ [][Next]_vars

(* A synchronous call runs to its end, and an executor polls a task again  *)
(* that has not completed.  A transport that fails now and then also       *)
(* succeeds now and then, and a future the codec depends on does not       *)
(* suspend it for ever.  Nothing is assumed of the peer and the owner.     *)
FairSpec ==
  /\ Spec /\ WF_vars(LoopTurn) /\ WF_vars(Poll)
  /\ SF_vars(\E size \in ReadSizes : ReadOk(size))
  /\ SF_vars(DeserializeReady) /\ SF_vars(DeserializeInsufficient)

-----------------------------------------------------------------------------
TypeOK ==
  /\ buffer \in [Slots -> Int]
  /\ cursor \in 0 .. 8 * BufSize
  /\ last_byte \in 0 .. BufSize
  /\ state \in {"Deserialize", "Reading", "Complete", "Dropped"}
  /\ want \in Nat /\ fed \in Seq(Int) /\ frame \in Nat
  /\ polling \in BOOLEAN
  /\ res \in {"None", "Pending", "Ok", "ReadError", "DeserializeError", "Incomplete"}
  /\ arrived \in Nat /\ fetched \in Nat /\ closed \in BOOLEAN

(* However the stream is cut into reads, the deserializer of an item is    *)
(* fed exactly the wire bits that follow the last byte of the item before  *)
(* it: none is lost when the buffer is compacted or the reader is reset,   *)
(* none is fed twice, none comes out of order (poll, reset).               *)
FedExactly == \A i \in 1 .. Len(fed) : fed[i] = 8 * frame + i - 1

(* The wire bit that stands under the cursor.                              *)
Position == 8 * (fetched - last_byte) + cursor

(* The buffer is a window on the wire: its data are the last bytes the     *)
(* transport handed over, contiguous and in order.                         *)
BufferIsWindow ==
  /\ last_byte <= fetched /\ cursor <= 8 * last_byte
  /\ \A b \in 0 .. 8 * last_byte - 1 : buffer[b] = 8 * (fetched - last_byte) + b

(* What the deserializer has seen ends under the cursor; a completed item  *)
(* ends on the byte boundary the next one starts at.                       *)
CursorFollowsCodec ==
  Position = IF state = "Complete" THEN 8 * (frame + BytesFor(Len(fed)))
                                   ELSE 8 * frame + Len(fed)

(* The inductive invariant behind FedExactly and NoPanic: buffer, cursor   *)
(* and codec agree, and poll_read is only reached with nothing left over.  *)
ReaderInv ==
  /\ TypeOK
  /\ BufferIsWindow
  /\ CursorFollowsCodec
  /\ state = "Reading" => cursor = 8 * last_byte
  /\ Len(fed) <= want
  /\ FedExactly

(* None of the three unwraps in poll can fail: the cursor lies within the  *)
(* data (`buf.advance(cursor).unwrap()`), and whatever poll_read returns   *)
(* fits behind the residue and the cursor remainder.                       *)
NoPanic ==
  /\ state # "Dropped" => cursor <= 8 * last_byte
  /\ state = "Reading" => 8 * Residue + (cursor % 8) + 8 * Free <= 8 * BufSize

(* The transport is asked for more only when every bit it delivered before *)
(* has been consumed, so that no read races ahead of the codec and the     *)
(* buffer never has to hold two reads at once (Insufficient -> Reading).   *)
ReadsOnlyWhenDrained ==
  [][fetched' # fetched => Available = 0 /\ fetched = frame + Len(fed) \div 8]_vars

(* A call that leaves an item unfinished (Pending, a read error, a refused *)
(* reset) costs nothing: once the bits of an item have all arrived, retries *)
(* complete its reader without another byte from the peer.                 *)
ArrivedItemCompletes ==
  (state \in {"Deserialize", "Reading"} /\ 8 * arrived >= 8 * frame + want)
    ~> state \in {"Complete", "Dropped"}

(* Every call of poll returns, unless the stream ends during it: then the  *)
(* loop may go round without end (poll).                                   *)
PollReturns == polling ~> (~polling \/ closed)

(* The end of the stream in the middle of an item is never reported: Ok(0) *)
(* leads back to Deserialize, that to Insufficient, and that to poll_read, *)
(* so the poll that meets it spins inside its loop, until something else   *)
(* fails: it neither returns Ok nor an error of its own.                   *)
StarvedAtEof ==
  /\ polling /\ closed /\ fetched = arrived
  /\ state \in {"Deserialize", "Reading"} /\ Left > Available
EofIsNeverReported ==
  [][StarvedAtEof =>
       StarvedAtEof' \/ res' \in {"ReadError", "DeserializeError", "Pending"}]_vars

=============================================================================
