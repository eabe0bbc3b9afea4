----------------------------- MODULE AsyncWriter -----------------------------
(***************************************************************************)
(* The AsyncWriter adapter (src/src/lib.rs): it lets a serializer fill a   *)
(* bit buffer, hands the whole bytes of the buffer to an AsyncWrite, and   *)
(* repeats until the item is out, the last byte padded.                    *)
(*                                                                         *)
(* As in AsyncReader, data are positions: the serializer emits bit i of    *)
(* its item as the number 8 * frame + i, the place on the wire where that  *)
(* bit belongs.  A wire that is what the peer expects therefore carries    *)
(* the number n at place n, except where a byte was padded.  The           *)
(* serializer is any codec that keeps the contract of the Serialize trait: *)
(* it fills the buffer before it returns Insufficient and goes on after it *)
(* where it stopped.                                                       *)
(*                                                                         *)
(* BitSliceMut::len(), an external function, may count the bits written    *)
(* since advance, which `cursor += buf.len()` needs, or from the start of  *)
(* the slice, as AsyncReader needs it of BitSlice (`cursor = buf.len()`).  *)
(* Every behaviour has one of the two, fromStart says which.  With the     *)
(* second one poll counts the bits it advanced over twice.  That happens   *)
(* only after a transfer that was cut short, and then poll may panic.      *)
(***************************************************************************)
EXTENDS Integers, Sequences

CONSTANTS
  BufSize,      (* ASYNC_WRITER_BUF_SIZE, in bytes                            *)
  ItemBits,     (* the encoded sizes, in bits, an item may have               *)
  WireBytes,    (* bound: no item is started at or behind this wire byte      *)
  Faults,       (* what may go wrong: a subset of FaultKinds                  *)
  SuspendAfter  (* how many bits a serializer may emit in one call and then   *)
                (* return Pending: {} never, {0} only before it writes        *)

(* Pending, Short and Error are answers of poll_write to a non-empty slice. *)
FaultKinds == {"Pending", "Short", "Error", "SerializeError"}

ASSUME WriterConstants ==
  /\ BufSize \in Nat \ {0, 1}
  /\ ItemBits \subseteq Nat
  /\ WireBytes \in Nat
  /\ Faults \subseteq FaultKinds
  /\ SuspendAfter \subseteq Nat

VARIABLES
  buffer,     (* [slot -> wire place of the bit in it], NoBit where zero      *)
  cursor,     (* bits of the buffer to flush; bytes, after a cut-short write  *)
  done,       (* the serializer has finished                                  *)
  state,      (* AsyncWriterState, "Taken" after into_inner, or "Panicked"    *)
  want,       (* the serializer: how many bits its item has                   *)
  emitted,    (* the serializer: how many of them it has written out          *)
  fromStart,  (* len() counts the bits advanced over; it never changes        *)
  polling,    (* a call of poll is under way                                  *)
  res,        (* what the last call returned                                  *)
  wire,       (* every bit the transport has accepted                         *)
  frame,      (* history: the wire byte where the current item belongs        *)
  pads,       (* history: the wire places that are padding                    *)
  interrupted,(* history: a transfer ended before it was whole                *)
  failed      (* history: the serializer returned an error for this item      *)

held    == <<buffer, cursor>>
codec   == <<want, emitted, fromStart>>
history == <<frame, pads, interrupted, failed>>
vars    == <<held, codec, history, done, state, polling, res, wire>>

NoBit == -1

Slots == 0 .. 8 * BufSize - 1
Smaller(a, b) == IF a < b THEN a ELSE b
BytesFor(n) == (n + 7) \div 8

-----------------------------------------------------------------------------
(* The buffer.  Mutated forms stand before the definition they replace.    *)

(* Room left for the serializer: BitSliceMut over the buffer, advanced.    *)
Room == 8 * BufSize - cursor
Left == want - emitted

(* The next k bits of the item are written at the cursor.                  *)
Emit(k) ==
  /\ buffer' = [b \in Slots |-> IF b \in cursor .. cursor + k - 1
                                  THEN 8 * frame + emitted + (b - cursor)
                                  ELSE buffer[b]]
  /\ emitted' = emitted + k

(* buf.len() after k bits have been written behind the cursor.             *)
Length(k) == IF fromStart THEN cursor + k ELSE k

(* What poll divides the cursor into: whole bytes and a remainder.         *)
Whole == cursor \div 8
Re    == cursor % 8

(* The bytes handed to poll_write: the remainder only once all is written. *)
MutSliceLen == Whole
SliceLen == Whole + (IF done /\ Re # 0 THEN 1 ELSE 0)

(* The first n bytes of the buffer go out.                                 *)
Accept(n) == wire' = wire \o [i \in 1 .. 8 * n |-> buffer[i - 1]]

(* `buffer[0] = l`, where l is the byte behind the one the remainder is in *)
(* (`buffer[cursor + 1]`), or 0 if there is no remainder.                  *)
CarryOver ==
  buffer' = [b \in Slots |->
               CASE b > 7  -> buffer[b]
                 [] b <= 7 -> IF Re = 0 \/ done THEN NoBit
                                                ELSE buffer[8 * (Whole + 1) + b]]

(* poll stays in the buffer: `advance(cursor).unwrap()` in Serialize; in   *)
(* Writing `buffer[..cursor]`, and the byte that CarryOver takes.          *)
InBounds ==
  IF state = "Serialize"
    THEN cursor <= 8 * BufSize
    ELSE SliceLen <= BufSize /\ (~done /\ Re # 0 => Whole + 1 < BufSize)

-----------------------------------------------------------------------------
(* The executor.                                                           *)

Return(r) == polling' = FALSE /\ res' = r

(* A completed writer panics when polled; its owner resets it first.  One  *)
(* that returned an error stays in Writing and may be polled again.        *)
Poll ==
  /\ ~polling /\ state \in {"Serialize", "Writing"}
  /\ polling' = TRUE /\ res' = "None"
  /\ UNCHANGED <<held, codec, history, done, state, wire>>

-----------------------------------------------------------------------------
(* One turn of poll's loop in AsyncWriterState::Serialize.                 *)

Serializing == polling /\ state = "Serialize" /\ InBounds

Finish(k) ==
  /\ Emit(k)
  /\ cursor' = cursor + Length(k)
  /\ state' = "Writing" /\ done' = TRUE
  /\ pads' = pads \cup (8 * frame + emitted + k
                          .. 8 * (frame + BytesFor(emitted + k)) - 1)
  /\ UNCHANGED <<want, fromStart, frame, interrupted, wire>>

(* BufPoll::Ready(Ok).                                                     *)
SerializeReady ==
  /\ Serializing /\ Left <= Room
  /\ Finish(Left)
  /\ UNCHANGED <<failed, polling, res>>

(* BufPoll::Ready(Err): state and done are set before `?` returns it, so   *)
(* what was emitted stays due and is flushed if the writer is polled again. *)
SerializeFails(k) ==
  /\ "SerializeError" \in Faults
  /\ Serializing
  /\ Finish(k)
  /\ failed' = TRUE
  /\ Return("SerializeError")

(* BufPoll::Insufficient: the buffer is full.  Mutated forms: the item is  *)
(* taken for finished; its bits are counted, not those of the buffer.      *)
MutSerializeInsufficient ==
  /\ Serializing /\ Left > Room
  /\ Emit(Room)
  /\ cursor' = cursor + Length(Room)
  /\ state' = "Writing" /\ done' = TRUE
  /\ UNCHANGED <<want, fromStart, history, polling, res, wire>>

MutSerializeCount ==
  /\ Serializing /\ Left > Room
  /\ Emit(Room)
  /\ cursor' = cursor + Left
  /\ state' = "Writing"
  /\ UNCHANGED <<want, fromStart, history, done, polling, res, wire>>

SerializeInsufficient ==
  /\ Serializing /\ Left > Room
  /\ Emit(Room)
  /\ cursor' = cursor + Length(Room)
  /\ state' = "Writing"
  /\ UNCHANGED <<want, fromStart, history, done, polling, res, wire>>

(* BufPoll::Pending after k more bits: returned as it is, and the cursor   *)
(* stays where it was although the serializer has moved on.                *)
SerializePending(k) ==
  /\ Serializing /\ k \in SuspendAfter
  /\ Emit(k)
  /\ interrupted' = (interrupted \/ k > 0)
  /\ Return("Pending")
  /\ UNCHANGED <<cursor, want, fromStart, frame, pads, failed, done, state, wire>>

-----------------------------------------------------------------------------
(* One turn of poll's loop in AsyncWriterState::Writing.                   *)

Writing == polling /\ state = "Writing" /\ InBounds

(* A mutated form: back to the serializer though it has finished.          *)
MutWriteWhole ==
  /\ Writing
  /\ Accept(SliceLen)
  /\ cursor' = IF done THEN 0 ELSE Re
  /\ CarryOver
  /\ state' = "Serialize"
  /\ UNCHANGED <<polling, res, codec, history, done>>

(* Poll::Ready(Ok(size)) that leaves nothing: complete, or serialize more. *)
WriteWhole ==
  /\ Writing
  /\ Accept(SliceLen)
  /\ IF done
       THEN /\ cursor' = 0
            /\ state' = "Complete" /\ Return("Ok")
            /\ UNCHANGED buffer
       ELSE /\ cursor' = Re
            /\ CarryOver
            /\ state' = "Serialize"
            /\ UNCHANGED <<polling, res>>
  /\ UNCHANGED <<codec, history, done>>

(* Poll::Ready(Ok(size)) that leaves something: the loop goes round with   *)
(* the bytes left as its cursor, and with the buffer as it was.            *)
WriteShort(size) ==
  /\ "Short" \in Faults
  /\ Writing
  /\ Accept(size)
  /\ cursor' = SliceLen - size
  /\ interrupted' = TRUE
  /\ UNCHANGED <<buffer, codec, frame, pads, failed, done, state, polling, res>>

(* Poll::Pending and Poll::Ready(Err) leave the divided cursor behind.     *)
WriteStops(fault, r) ==
  /\ fault \in Faults
  /\ Writing
  /\ cursor' = SliceLen
  /\ interrupted' = (interrupted \/ cursor # SliceLen)
  /\ Return(r)
  /\ UNCHANGED <<buffer, codec, frame, pads, failed, done, state, wire>>

WritePending == WriteStops("Pending", "Pending")
WriteFails   == WriteStops("Error", "WriteError")

(* An index out of the buffer: poll panics, in Writing after the division  *)
(* of the cursor.  The task is unwound, and the writer goes with it.       *)
Panic ==
  /\ polling /\ state \in {"Serialize", "Writing"} /\ ~InBounds
  /\ cursor' = IF state = "Writing" THEN SliceLen ELSE cursor
  /\ state' = "Panicked" /\ Return("Panic")
  /\ UNCHANGED <<buffer, codec, history, done, wire>>

-----------------------------------------------------------------------------
(* The owner of the writer, between two polls.                             *)

(* A mutated form: the item before is still taken for finished.            *)
MutReset(bits) ==
  /\ ~polling /\ state = "Complete"
  /\ want' = bits /\ emitted' = 0
  /\ state' = "Serialize" /\ res' = "None"
  /\ frame' = frame + BytesFor(emitted) /\ failed' = FALSE
  /\ UNCHANGED <<held, fromStart, pads, interrupted, polling, wire, done>>

Reset(bits) ==
  /\ ~polling /\ state = "Complete"
  /\ want' = bits /\ emitted' = 0
  /\ done' = FALSE
  /\ state' = "Serialize" /\ res' = "None"
  /\ frame' = frame + BytesFor(emitted) /\ failed' = FALSE
  /\ UNCHANGED <<held, fromStart, pads, interrupted, polling, wire>>

(* reset before completion is refused and changes nothing.                 *)
ResetRefused ==
  /\ ~polling /\ state \in {"Serialize", "Writing"}
  /\ res' = "Incomplete"
  /\ UNCHANGED <<held, codec, history, done, state, polling, wire>>

(* into_inner gives the transport back; what is in the buffer is dropped.  *)
IntoInner ==
  /\ ~polling /\ state \notin {"Taken", "Panicked"}
  /\ state' = "Taken"
  /\ UNCHANGED <<held, codec, history, done, polling, res, wire>>

(* AsyncWriter::new with the next item, on the transport that an earlier   *)
(* writer gave back, wherever that one had got to.                         *)
Renew(bits) ==
  /\ ~polling /\ state = "Taken"
  /\ buffer' = [b \in Slots |-> NoBit] /\ cursor' = 0
  /\ want' = bits /\ emitted' = 0
  /\ done' = FALSE
  /\ state' = "Serialize" /\ res' = "None"
  /\ frame' = Len(wire) \div 8 /\ failed' = FALSE
  /\ pads' = pads \cap 0 .. Len(wire) - 1
  /\ UNCHANGED <<fromStart, interrupted, polling, wire>>

-----------------------------------------------------------------------------
(* AsyncWriter::new, or AsyncWriter::complete, which never sends its item. *)
Init ==
  /\ buffer = [b \in Slots |-> NoBit] /\ cursor = 0
  /\ \/ want \in ItemBits /\ state = "Serialize" /\ done = FALSE
     \/ want = 0 /\ state = "Complete" /\ done = TRUE
  /\ emitted = 0 /\ fromStart \in BOOLEAN
  /\ polling = FALSE /\ res = "None"
  /\ wire = <<>> /\ frame = 0 /\ pads = {}
  /\ interrupted = FALSE /\ failed = FALSE

LoopTurn ==
  \/ SerializeReady
  \/ \E k \in 0 .. Smaller(Left, Room) : SerializeFails(k)
  \/ SerializeInsufficient
  \/ \E k \in 0 .. Smaller(Left, Room) : SerializePending(k)
  \/ WriteWhole
  \/ \E size \in 0 .. SliceLen - 1 : WriteShort(size)
  \/ WritePending
  \/ WriteFails
  \/ Panic

Owner ==
  \/ Poll
  \/ \E bits \in ItemBits : frame + BytesFor(emitted) < WireBytes /\ Reset(bits)
  \/ ResetRefused
  \/ IntoInner
  \/ \E bits \in ItemBits : Len(wire) \div 8 < WireBytes /\ Renew(bits)

Next == LoopTurn \/ Owner

Spec == Init /\ [][Next]_vars

(* A synchronous call runs to its end, and an executor polls a task again  *)
(* that has not completed.  A transport that refuses or shortens a write   *)
(* also accepts one whole now and then, and a future the codec depends on  *)
(* does not suspend it for ever.  Nothing is assumed of the owner.         *)
FairSpec ==
  /\ Spec /\ WF_vars(LoopTurn) /\ WF_vars(Poll)
  /\ SF_vars(WriteWhole) /\ SF_vars(SerializeReady) /\ SF_vars(SerializeInsufficient)

-----------------------------------------------------------------------------
Results ==
  {"None", "Pending", "Ok", "WriteError", "SerializeError", "Incomplete", "Panic"}

(* The type of every variable; the cursor is at most seven bits behind the *)
(* end of the buffer, and only if len() counts from the start.             *)
TypeOK ==
  /\ buffer \in [Slots -> Int]
  /\ cursor \in 0 .. 8 * BufSize + (IF fromStart THEN 7 ELSE 0)
  /\ done \in BOOLEAN
  /\ state \in {"Serialize", "Writing", "Complete", "Taken", "Panicked"}
  /\ want \in Nat /\ emitted \in Nat /\ frame \in Nat
  /\ polling \in BOOLEAN /\ interrupted \in BOOLEAN /\ failed \in BOOLEAN
  /\ fromStart \in BOOLEAN
  /\ res \in Results
  /\ wire \in Seq(Int) /\ pads \subseteq Nat

(* Every bit the transport accepted stands where the peer looks for it:    *)
(* whatever the buffer cuts an item into, no bit is lost, repeated or      *)
(* displaced, and the padding of an item is all that lies between its last *)
(* bit and the first bit of the next (poll, reset).                        *)
WireExact ==
  \A i \in 1 .. Len(wire) : wire[i] = i - 1 \/ i - 1 \in pads

(* ... as long as no transfer has ended before it was whole.               *)
WireExactUntilInterrupted == ~interrupted => WireExact

(* A completed item is on the wire to its last bit, and nothing is behind  *)
(* it: what Poll::Ready(Ok) promises, and what makes it safe to give the   *)
(* transport away with into_inner.                                         *)
Flushed == state = "Complete" => Len(wire) = 8 * (frame + BytesFor(emitted))
FlushedUntilInterrupted == ~interrupted => Flushed

(* Ok is never returned early: an item that was completed without an error *)
(* was serialized to its last bit, though `done`, which decides between    *)
(* Complete and another turn, is set by one item and cleared by another    *)
(* call (poll, reset).                                                     *)
CompleteIsWhole == state = "Complete" /\ ~failed => emitted = want

(* What the buffer still holds is the continuation of the wire.            *)
BufferContinuesWire ==
  /\ \A b \in 0 .. cursor - 1 : buffer[b] = Len(wire) + b
  /\ Len(wire) + cursor = 8 * frame + emitted

(* The inductive invariant: while no transfer was cut short the serializer *)
(* always starts on an empty buffer, and the buffer is flushed in between  *)
(* only when it is full, so no byte is ever split between two flushes.     *)
UninterruptedInv ==
  /\ state \in {"Serialize", "Complete"} => cursor = 0
  /\ state = "Writing" /\ ~done => cursor = 8 * BufSize
  /\ state = "Writing" /\ done =>
       8 * frame + emitted .. 8 * (frame + BytesFor(emitted)) - 1 \subseteq pads
  /\ state \in {"Serialize", "Writing"} => BufferContinuesWire
  /\ WireExact
  /\ Flushed

(* poll indexes the buffer out of its bounds only if len() counts from the *)
(* start and a transfer was cut short before.  Otherwise it never does: not*)
(* up to then, and if len() counts since advance, not even with a cursor   *)
(* that a cut-short write has turned from bits into bytes.                 *)
PanicOnlyAfterCutShort == state = "Panicked" => fromStart /\ interrupted

WriterInv ==
  /\ TypeOK
  /\ emitted <= want
  /\ Len(wire) % 8 = 0
  /\ state = "Serialize" => ~done
  /\ state = "Complete" => done
  /\ done /\ ~failed => emitted = want
  /\ state \in {"Serialize", "Complete"} => cursor <= 7
  /\ state = "Writing" /\ ~done =>
       cursor >= 8 * BufSize \/ cursor <= BufSize
  /\ cursor > 8 * BufSize => interrupted
  /\ ~interrupted => UninterruptedInv
  /\ PanicOnlyAfterCutShort

(* Every call of poll returns, though a write may be cut short many times. *)
PollReturns == polling ~> ~polling

(* Every item an owner keeps polling is completed in the end: what a       *)
(* transfer that is cut short costs is content, not progress, unless poll  *)
(* panics, as PanicOnlyAfterCutShort allows.                               *)
ItemCompletes ==
  state \in {"Serialize", "Writing"} ~> state \in {"Complete", "Taken", "Panicked"}

=============================================================================
