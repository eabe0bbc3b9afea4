# A verification project for mincodec

`mincodec` is a bit-level serialization format for Rust. A type has a
*serializer* and a *deserializer*, state machines that stop when the buffer
they are offered runs out and go on in the next call; two adapters,
`AsyncWriter` and `AsyncReader`, drive them over a byte stream. There is no
frame, length or separator between the items of a stream: both ends find the
next item only because both have counted the bits of the one before exactly.

This directory holds TLA+ models of the adapters, of the codecs and of the wire
format, TLC configurations that check them, and TLAPS proofs about the two stream
adapters, the sessions they form, the wire format, the serializers, the deserializers,
the immediate adapters and the state indices of derived codecs. Line numbers are those of the repository; `PROJECT.json` maps every definition to the lines it models.

## 1. Inventory

| Component | State | Operations | Interacts through | Hard behaviour |
|---|---|---|---|---|
| `AsyncReader` (src/lib.rs:364-449, 512-571) | `buffer`, `cursor` (bits), `last_byte` (bytes), `deserializer`, `state` | `new`, `poll`, `reset`, `reset_as` | `AsyncRead::poll_read`; `poll_deserialize`; the task that polls it | reads cut the stream anywhere; compaction; data read ahead kept over `reset`; `Pending`, errors and end of stream in the middle of an item |
| `AsyncWriter` (385-501, 583-650) | `buffer`, `cursor` (bits, or bytes while writing), `serializer`, `done`, `state` | `new`, `complete`, `poll`, `reset`, `is_done`, `into_inner` | `AsyncWrite::poll_write`; `poll_serialize`; the task | items larger than the buffer; a byte split over two flushes; `Pending`, short and failed writes; errors of the serializer |
| Codec contract: `Serialize`, `Deserialize`, `BufPoll`, `sufficient!`, `buf_try!`, `buf_ready!` (49-164) | - | - | the result of a poll | what `Insufficient` and `Pending` oblige both sides to |
| Serializers (primitive, option, result, tuple, array, allocated, `MapSerialize`, derived) | where in the value the machine is | `serialize`, `poll_serialize` | nested calls | resuming at any bit, through any nesting |
| Deserializers (the same, `OptionDeserialize`, `EmptyCodec`) | what has been read so far | `deserialize`, `poll_deserialize` | nested calls | the stream cut inside a length, a determinant, an element; values that are refused |
| Wire format (the `serialize()` of every type; derive/src/lib.rs) | - | encoding, decoding | - | lengths and determinants at their boundaries |
| `ReadImmediate`, `WriteImmediate` (243-357) | codec, flag; the buffer is borrowed and keeps its position | `write_immediate`, `read_immediate`, `poll` | codec calls; the caller's buffer, shared by several items | the buffer ends anywhere in an item; `Pending` in the middle of one; items that begin at any bit |
| `derive(MinCodec)` (derive/src/lib.rs) | of a generated codec: the index of the part it is at | generates codecs | nested calls | widths of indices, determinants and arrays, computed apart |
| `derive(FieldDebug)`, type bounds | - | compile time | - | - |

What makes each correct:

- *Reader*: however the stream is cut, each deserializer is fed the bits of its
  own item, in order, each once; no unwrap fails; bits that have arrived suffice
  to complete an item.
- *Writer*: every bit the transport accepts stands where the peer looks for it;
  an item that is reported complete is on the wire; polls return.
- *Session*: together the two are a first-in first-out channel of items.
- *Codecs*: a serializer writes the encoding of its value and nothing else,
  a deserializer gives back the value that was encoded and uses exactly its
  bits, wherever calls are interrupted; both keep the contract the adapters
  rely on.
- *Immediate adapters*: an item is written whole behind the one before it, or
  fails because it is too large; what was written is read back; every call is
  answered.
- *Derived codecs*: the determinant and every field are polled to their end once,
  in order, whatever their number.
- *Format*: no encoding of a type begins another of it; encodings have the
  documented sizes.

## 2. Modules

| Module | Models |
|---|---|
| `AsyncReader` | the reader: one action per arm of `poll`, plus its owner and its transport |
| `AsyncWriter` | the writer, likewise; what `poll_write` answers is a choice |
| `Session` | `INSTANCE`s of both, joined by a byte stream; refines `ItemChannel` |
| `ItemChannel` | the abstract specification of a session: a FIFO channel |
| `CodecContract` | the abstract specification of a codec, as the adapters see it |
| `WireFormat` | types and values, and what each codec writes itself and hands on: pure definitions, the reference for the codec machines |
| `EncodedItems` | the values a codec machine works on and their encodings, as parameters, and the equation that makes them so |
| `Encodings` | the encoding of a value, `Enc`, and samples of every kind of type: the recursive part, kept apart from the modules that proofs use |
| `Serializer` | every `poll_serialize`, as one machine of nested frames; implements `CodecContract` |
| `Deserializer` | every `poll_deserialize`, likewise; implements `CodecContract` |
| `Immediate` | `INSTANCE`s of both codec machines under `WriteImmediate` and `ReadImmediate`, items one after the other in one buffer |
| `DeriveIndex` | the state machines `derive` generates, reduced to their index, and the integer widths the macro computes |
| `AsyncReaderProofs`, `AsyncWriterProofs`, `SessionProofs`, `SerializerProofs`, `DeserializerProofs`, `ImmediateProofs`, `DeriveIndexProofs` | theorems and proofs about the module of that name; `DeserializerProofs` also has those about `WireFormat` and encodings |
| `FiniteRecursion` | induction over numbers and the existence of functions defined by recursion, for sets; facts about joined sequences and pieces of them; used by the proofs |
| `MC...` | instances for TLC |

**The adapters.** Data are positions. Bit *n* of the wire is the number *n*; the
buffer is a function from slots to the bits they hold. A bit that is lost,
repeated or displaced is therefore visible, and nothing else about it matters.
In `AsyncReader`, `fed` is the sequence of wire bits the current deserializer has
consumed; in `AsyncWriter`, bit *i* of an item is the number of the wire place it
belongs at, and `wire` is what the transport has accepted. `frame` (history) is
the byte at which the current item starts. The codec is abstract: an item has
`want` bits, the codec moves all it can, and says `Insufficient` only when it has
used all of the buffer - `CodecContract`, which the codec machines are shown to
implement.

One action is one turn of the loop in `poll` (one arm of its `match`, one answer
of the codec or the transport); `polling` says that a call is under way. Between
two polls the owner may poll again, `reset`, be refused a `reset`, or give the
adapter away; the transport that `into_inner` gave back may go into a new writer
(`Renew`, and `TakeStream` in a session). Bytes arrive at the reader at any moment.

| Code | Definition |
|---|---|
| reader, `Deserialize` arm: Ready(Ok) / Ready(Err) / Insufficient / Pending | `DeserializeReady` / `DeserializeFails` / `DeserializeInsufficient` / `DeserializePending` |
| reader, `Reading` arm: Ok(size) / Pending / Err | `ReadOk` / `ReadPending` / `ReadFails` |
| `cursor + 7 & !7` (528) | `RoundUp` |
| `copy_within`, `write_aligned_all`, `last_byte` (551-561) | `Refilled`, `ReadOk` |
| writer, `Serialize` arm: Ready(Ok) / Ready(Err) / Insufficient / Pending | `SerializeReady` / `SerializeFails` / `SerializeInsufficient` / `SerializePending` |
| writer, `Writing` arm: Ok(all) / Ok(some) / Pending / Err | `WriteWhole` / `WriteShort` / `WritePending` / `WriteFails` |
| `buf.len()` in `cursor += buf.len()` (634, 641) | `Length`; `fromStart` says how it counts (section 5) |
| `buffer[cursor + 1]`, `buffer[..cursor]`, `advance(cursor).unwrap()` (599, 605, 629) | `InBounds`, a guard of every turn; out of bounds `Panic` |
| `re`, `cursor /= 8`, the byte carried over (593-601, 615-619) | `Re`, `Whole`, `SliceLen`, `CarryOver` |

**The codecs.** `WireFormat` describes each write side as the bits a codec writes
itself and the parts it hands to the codecs inside it (`OptionWrites`, `VecWrites`,
`DerivedWrites`, ...); `Enc`, in `Encodings`, puts them together. `Serializer` runs
that description as the code does: a stack of frames, one per codec at work, resumed
from the outermost. Neither codec machine uses `Enc`, which is a RECURSIVE operator: the
parameters `Nested` and `EncodingOf` (`EncodedItems`) are the values and their encodings,
and `IsEncoded` is the
equation that makes them so - an encoding is the codec's own bits and then the
encodings of its parts. TLC evaluates that assumption with `Enc` for `EncodingOf`. `Deserializer` has a description of its own for each read side
(`OptionReads`, `StringReads`, `DerivedReads`, ...), translated from the
deserializers and not from the encoding, so that the two sides are compared and not
assumed to agree. Numbers are bit sequences, and `ByteBits` says how many bits a
byte has: eight where sizes are compared with the README, three where machines are
explored.

Two codecs do not resume where they stopped: `VecSerialize` (allocated.rs:190)
and the array serializers (array.rs:82) take the next element whenever they are
polled. `Serializer!Resumed` models that; the history variable `cut` records it.
`CodecContract` is implemented up to there: `ContractUntilCut`.

**The immediate adapters.** `Immediate` instantiates `Serializer` and
`Deserializer`, whose `Poll` is offered all that is left of the buffer at once.
`memory` is what the buffer holds of the items before the current one; `WritePoll`
and `ReadPoll` are the two `poll`s, `NextWrite` and `NextRead` the caller's next
`write_immediate` and `read_immediate` on the same buffer, `StartRead` the change
from writing to reading (as `round_trip` in the tests, lib.rs:786-802), possibly of
a shorter slice. The answer `Insufficient` ends the future (`this.2 = true`). Of
`Nested`, the values that are written, `Legible` are those that deserializers accept:
what makes another one illegible is refused by its serializer (`MapSerialize`), so it
never is in the buffer as a whole. `Documented` are the sizes that documents give.

**Derived codecs.** In `DeriveIndex` a machine is the number of its parts - the
determinant, if there is more than one variant, and the fields - and the index that
the generated `match` dispatches on. `IndexValues` is `b_ty` (213-224), `Offset` the
place of the first field (239-240), `Arm` the part an index selects,
`Increment` the `*idx += 1` that panics or wraps, as the build has it.
`ArrayBytes` and `TypeBytes` are the two lengths of a determinant that must agree
for the generated code to compile. `again` records a field polled after it had finished.
The serializer and the deserializer of one variant are both modelled; they differ
in where the determinant is read.

## 3. Runs

| Run | Question | Expected |
|---|---|---|
| `reader_stream` | Is each codec fed exactly its bits, without a panic, whatever the cuts, read errors, codec errors and ends of the stream? Does an item whose bits have arrived complete, and does every poll return? | holds |
| `reader_suspended_codec` | Is it, with a deserializer that waits for a future after consuming bits? | violated |
| `writer_faulty` | With every fault, and either way `len()` may count: is the wire exact up to the first transfer that is cut short, does `poll` stay in its buffer (up to there, and always if `len()` counts since `advance`), is no item reported complete that was not serialized, does every item complete and every poll return? | holds |
| `writer_cut_short` | Is the wire exact if `poll_write` may be Pending or short? | violated |
| `immediate` | Does every item fit whole or fail, is it read back, is every call answered, is the reported size the documented one, is no encoding the beginning of another? | holds |
| `serializers` | Do serializers write exactly the encoding and keep the contract, as long as no element of a sequence is cut? Are what is written and what is still due always the encoding (`SerializerInv`)? Do they end in any case? | holds |
| `ser_sequence` | Are they exact also if an element is cut? | violated |
| `deser_stream` | Is the value that was written read, from its own bits, over any cut, and once they are there, also on streams that end within it? Is every deserializer at work at its place all the while (`DeserializerInv`)? Is every value that is accepted, from noise too, read from its own encoding? | holds |
| `deser_isize` | Does a negative `isize` survive the round trip? | violated |
| `derive_index` | Do derived machines poll each part once, in order, and finish? Do they overflow, and does the macro refuse or produce what does not compile, only at the limits? | holds |
| `derive_overflow` | Does no index overflow? | violated |
| `session` | Do both ends agree on every bit and every item boundary, each at its place in the plan (`SessionInv`)? Is a session a FIFO channel, and is all that is sent received? | holds |

### What the violated runs show

1. `reader_suspended_codec` (src/lib.rs:525). On `BufPoll::Pending` the adapters
   return without adding what the codec moved to their cursor. A deserializer
   that depends on a future (README.md:48) and has consumed bits in that call is
   offered the same bits again. The writer does the same (632): what its
   serializer wrote is overwritten; `writer_faulty` counts it as a transfer that
   was cut short. No codec of the crate itself returns Pending; a user's may.
2. `writer_cut_short`, Pending (607). `cursor` is divided by eight before
   `poll_write`, and Pending leaves it divided; the next poll divides again. The
   item is reported complete with an eighth of its bytes written. The same holds for
   a retry after an error (623).
3. `writer_cut_short`, short writes (610). After a short write the cursor counts
   bytes and the unwritten rest is not moved to the front: the next turn divides
   again and writes from the front. Depending on how `BitSliceMut::len` counts, `poll`
   may panic after that (section 5; `Panic`, which `writer_faulty` takes).
4. `ser_sequence` (allocated.rs:191, array.rs:82). A sequence in which an element
   meets the end of the buffer - among them every one that is longer than the
   1024 bytes of `AsyncWriter`, unless an element happens to end there - loses the
   rest of that element.
5. `deser_isize` (primitive.rs:38). `isize` is cast with `as u64` and read
   with `try_into`: a negative one is written and cannot be read.
6. `derive_overflow` (derive/src/lib.rs:213). The type of the index is chosen for the
   number of fields; the index of an enum's serializer also counts the determinant. With
   255 fields in a variant a `u8` overflows after the last: a debug build panics; a
   release build starts over and polls finished serializers. 65535 fields likewise.

About the end of the stream no document says anything: `Ok(0)` is taken for
data, and a poll that meets it inside an item loops without returning. That is
stated as a property (`EofIsNeverReported`), and `PollReturns` is claimed for
polls during which the stream has not ended.

### Bounds

- Buffers of two bytes (three on one side of a session): enough for a residue, a
  full buffer and items that take several rounds. Neither size is special in
  the code as long as the writer has two bytes (`buffer[cursor + 1]`).
- `ItemBits`: none, below a byte, a byte, across a boundary, exactly the buffer,
  more than it and more than twice as much. Item sizes
  enter the adapters only through their remainder by eight and their relation to
  the buffer.
- `StreamBytes` (5) bounds the bytes sent, `WireBytes` the place behind which no
  further item is started; the sessions are bounded by `Plans`, up to three items.
  `writer_faulty`, in which anything may fail at any moment, has four sizes: none, below
  a byte, within the buffer, and one that fills the buffer twice and leaves a bit: the
  serializer fills it again behind a cursor that is not 0. A serializer suspends after 0
  or 15 bits.
- `immediate`: buffers of 0, 1, 2 and 7 bytes of eight bits and batches of one to
  three items: `"hello"`, the longest of the README's rows, needs six; those that
  need two do not fit in one. Lengths up to 129 cross the first boundary of a length
  prefix.
- `derive_index`: integers of 4, 16 and 32 values stand for `u8`, `u16` and `u32`, and
  every number of fields up to one past the last limit occurs; numbers of variants are
  the real ones on both sides of each width of a determinant. `derive_overflow` has
  the `u8` as it is.
- Codecs: types nested up to three deep, sequences of up to two elements, buffers of
  1 to 20 bits, bytes of three bits: every cut of every encoding occurs.
  `UsizeLimit` (3) makes the length 3, which noise contains, too long for a `usize`;
  elsewhere it is 2^16, the least Rust guarantees. The noise of `deser_stream` is
  every sequence of five bits, too few for a quantity of two bytes: a longer form
  than needed may exist there, and what becomes of it is up to bitbuf-vlq.
- The theorems of section 4 hold without bounds.

### Fairness

`FairSpec` in the adapters: a loop turn that is possible is taken (`poll` is
synchronous), and a task that has not completed is polled again (an executor
wakes it: `Pending` is only returned after the transport or the future has
registered the waker). Strong fairness says that a transport which fails now and
then also succeeds now and then, and that a future is ready in the end. Nothing
is assumed of owners (`Reset` is never forced) nor, in the reader, of the peer.
In a session both tasks run on and bytes that were written arrive. For the codec
machines: calls end, and callers call again. In `Immediate` a call that was
suspended is polled again and the future it waits for is ready in the end; a
caller need not go on to a further item. A derived machine is polled until it
completes.

## 4. Proofs

| Theorem | States | Assumes |
|---|---|---|
| `ReaderInvariant`, `ReaderTypeCorrect`, `ReaderFeedsExactly`, `ReaderNeverPanics` | `Spec => []ReaderInv`, `[]TypeOK`, `[]FedExactly`, `[]NoPanic` | `SuspendAfter \subseteq {0}` |
| `ReaderReadsOnlyWhenDrained`, `ReaderSpinsAtEof` | `Spec => ReadsOnlyWhenDrained`, `Spec => EofIsNeverReported` | `SuspendAfter \subseteq {0}` |
| `WriterInvariant`, `WriterTypeCorrect`, `WriterExactUntilInterrupted`, `WriterFlushes`, `WriterCompletesWhole`, `WriterPanicsOnlyAfterCutShort` | `Spec => []WriterInv`, `[]TypeOK`, `[](WireExactUntilInterrupted /\ FlushedUntilInterrupted)`, `[]FlushedUntilInterrupted`, `[]CompleteIsWhole`, `[]PanicOnlyAfterCutShort` | nothing but `WriterConstants` |
| `WriterExactOnSink` | `Spec => [](WireExact /\ Flushed /\ state # "Panicked")` | no transport faults, `SuspendAfter \subseteq {0}` |
| `SessionInvariant`, `SessionTypeCorrect`, `SessionEndToEnd`, `SessionAligned` | `Spec => []SessionInv`, `[]TypeOK`, `[]EndToEnd`, `[]Aligned` | `SessionConstants` |
| `SessionIsChannel` | `Spec => IsChannel`: a session implements `ItemChannel` | `SessionConstants` |
| `SerializerInvariant`, `SerializerTypeCorrect`, `SerializerExact` | `Spec => []SerializerInv`, `[]TypeOK`, `[]ExactUntilCut` | `SerializerConstants` |
| `SerializerKeepsContract` | `Spec => ContractUntilCut`: a serializer implements `CodecContract` | `SerializerConstants` |
| `BigEndianReadsBack`, `LittleEndianReadsBack`, `QuantityReadsBack` | numbers, determinants and quantities are read back from the bits written of them | `FormatConstants` |
| `SidesAgree` | for every kind of codec, the deserializer takes what the serializer wrote for what it is | `ItemsAreEncoded`, `DeserializerConstants`, the value is `Readable` |
| `DeserializerTypeCorrect` | `Spec => []TypeOK`, over noise as well | `DeserializerConstants` |
| `DeserializerInvariant` | `Spec => []DeserializerInv` | the same; `AllReadable` |
| `DeserializerRoundTrip`, `DeserializerInPlace` | `Spec => []RoundTrip`; the part of `DeserializerInv` about streams on which a value was sent | the same; `AllReadable` |
| `DeserializerKeepsContract` | a deserializer that reads a value that was sent implements `CodecContract` | the same; `AllReadable` |
| `AcceptedIsWritten` | for every kind of codec, the serializer writes of an accepted value the bits its deserializer took | `ItemsAreEncoded`, `DeserializerConstants`, quantities in their shortest form |
| `DeserializerCanonical` | `Spec /\ []ShortestForms => []Canonical`, over noise as well | the same, and `AllItems` |
| `DeserializerNoiseContract` | `Spec /\ []ShortestForms => KeepsContract`, over noise as well | the same; `AllReadable`, `AllItems`, `SizesGiven` |
| `EncodingsDelimit` | no encoding of a value begins with that of another of its type | the same; values are finite (`IsDepth`) |
| `ImmediateTypeCorrect`, `ImmediateFitsOrFails`, `ImmediateReadsBack` | `Spec => []TypeOK`, `[]FitsOrFails`, `[]ReadsBack` | `ImmediateConstants` |
| `ImmediateSelfDelimiting` | `Spec => []SelfDelimiting` | the same; values are finite |
| `IndexInvariant`, `PartsInOrder`, `OnlyLimitsFail` | `Spec => []IndexInv`, `[]EachPartOnce`, `[]FailsOnlyAtLimits` | `IndexConstants` |

They hold for every buffer size (of at least two bytes for the writer), every set of
item sizes and streams of every length; those of `Session` for every set of plans of
any length; those of `Serializer` for every set of values, of whatever types and
however deeply nested, and calls with buffers of any size; those of `Deserializer` for
every such set, every cut of the stream into calls and everything that may follow the
value on it, as long as the deserializers accept the value: `AllReadable` leaves out a
negative `isize` (`deser_isize` is the counterexample), a sequence longer than the
reader's `usize` counts, and what a user's `MapDeserialize` refuses; those of `Immediate`
for every batch of such items, whatever the buffer's size and that of the slice it is read
from; those of `DeriveIndex` for
every number of variants and fields, every width of the integers, and both builds.
`SuspendAfter \subseteq {0}` - a codec does not move bits in the call that suspends
it - is the weakest condition under which the reader is correct:
`reader_suspended_codec` is the counterexample without it.

*Reader.* `FedExactly` is not inductive: it says nothing about the buffer.
`ReaderInv` adds that the data in the buffer are the last `last_byte` bytes handed
over by the transport (`BufferIsWindow`), that the cursor stands on the bit after
the last one fed, or on the byte boundary behind it in a completed item
(`CursorFollowsCodec`), and that `Reading` is entered with nothing left over.
From the last it follows that the residue and the remainder of the cursor are
empty in every read: with a codec that keeps its contract the compaction of
lib.rs:551-552 never has anything to move. That a read happens only with nothing left
over (`ReadsOnlyWhenDrained`) is the same fact about a step. `EofIsNeverReported` needs it, too: at the end of the stream `Ok(0)`
finds an empty buffer and leaves one. The step for `ReadOk` rests on lemmas on
`Refilled`; the others move the cursor along.

*Writer.* Once a transfer was cut short little can be said, so the invariant has
two parts. `WriterInv` holds always: types, `done` only while writing or complete, a
cursor of at most seven where the serializer is polled, and a cursor in `Writing` that
is at the end of the buffer or behind it or, once divided, at most `BufSize`. So an
index is out of bounds exactly if the cursor is behind the end (`CursorInBounds`), and
it gets there only with `fromStart` and a cursor that was not 0 before
(`LengthOfBuffer`), hence after a transfer that was cut short. `UninterruptedInv` holds
until then: the serializer starts on an empty buffer, a flush in between happens only
with a full one - so the carried byte is always empty - and what the buffer holds
continues the wire (`BufferContinuesWire`). With the cursor at 0, `len()` is the same
in both readings.

*Session.* `EndToEnd` speaks of the items received and of the bits of the current
one; neither says where the other end is, so it is far from inductive. `SessionInv`
consists of the invariants of both adapters and of what joins them: the writer is at
the item behind those it has sent, at the byte where the items before it end, and that
item is not whole on the wire before it is complete (`WriterPlace`); the reader is at
the item behind those it has received, at its byte (`ReaderPlace`); what is fetched
has arrived and what has arrived was written (`StreamIsCausal`); padding lies between
items (`PadsBetween`); and what was sent and received are the items of the plan, from
the first on (`HistoryOf`). That both have the same idea of where an item starts is
not assumed: each has its own count, and `NextStart` says that both rounding rules,
`w_emitted` bits flushed in whole bytes and `(cursor + 7) & !7`, lead to `StartOf`. The steps
of the adapters are those of their own modules, so that `WriterInv` and `ReaderInv` are
preserved is taken from `AsyncWriterProofs` and `AsyncReaderProofs`, instantiated as `WP`
and `RP`; only the rest is new.
`SessionIsChannel` goes step by step: completing an item with bits is `Send`, getting
one is `Receive`, everything else stutters. `Receive` takes the next item sent: the
bits that the reader has were written (`StreamIsCausal`), the writer's item is not whole
on the wire, so the item that is whole must have been completed before.

`StartOf` and `WithBits` are functions defined by recursion on the number of items. The
induction theorems of the library take an operator as their parameter, which none of
the provers at hand can instantiate; `FiniteRecursion` proves what is needed for sets
instead (`NatSetInduction`: a set that contains 0 and with each number the next
contains all; `RecursionExists`: a recursion over `0 .. n` defines a function).

*Serializers.* `ExactUntilCut` says that what has been written begins the encoding,
but not what comes next. `SerializerInv` does: what has been written and what is
still `Due` - of every frame at work, the innermost first, its own bits and the
encodings of the parts it has not handed on - are the encoding of the item. `Drain`
moves bits from one side to the other, `Descend` replaces a part by its own bits and
parts (that is `IsEncoded`), `Finish` drops a frame that owes nothing, and a new call
finds the frames it left unless an element was cut. The lemmas are about
`FlattenSeq` (`FlattenHeadTail`, `FlatOfGrows`) and `Due`. The contract follows: a call that is
`Insufficient` leaves bits due, one that is `Ready` leaves none, and each `Drain` uses
the room it was given.

*Wire format.* `FromBigEndian` is a function defined by recursion on the number of
bits, so what it reads is proved by induction over them: after `i` bits it is the number
without its last `k - i`. For a quantity, the least number of bytes is unique, and the
unary first bits tell it. `SidesAgree` goes through the kinds of codecs: it compares the
write side (`OptionWrites`, ...) with the read side (`OptionReads`, ...) of each, for a
frame that has any beginning of the codec's own bits (`Agrees`) - it wants more of them
exactly if there are more, asks for the same parts, and makes of the bits and the parts'
values the value that was written.

*Deserializers.* `RoundTrip` speaks of the outermost value when it is there; nothing in
it says where a machine of nested frames stands. `DeserializerInv` does: each frame
has a source, the item it is reading and the place of that on the stream - the item sent,
at 0, for the outermost; for the one above a frame, the part behind those it has, at the
place behind them (`Sources`). Every frame has the beginning of what its item's codec
wrote and, once that is whole, the values of the first parts (`ReadsItem`); the
encoding of its item stands at its place (`StandsAt`); and the next bit to read is the next
of the codec at work (`NextBitInPlace`). `Fill` moves within the item on top
(`PlacedFill`), `Descend` puts the next part on top, at its place (`PlacedDescend`), `Finish`
appends the value of a part to the frame below, and the bit behind the part is the
next of that one (`PlacedFinish`), or gives the value to the caller (`PlacedEnd`); `SidesAgree`
says that neither goes wrong, and excludes `Fail` and `Panic`. The proof has the sources as
some function that satisfies the recursion (`Placed`), and shows that there is only one
(`OnlyChain`). The contract follows as for the serializers.

Over noise there is no value to be at a place in. `TypedInv` has the types that the
other half gets from the item: every frame is of a type of `Types`, its parts are of the
types it asks for, it has no more bits than it wants, and what it wants does not change
while it gets them (`BitsWanted`, `MoreBitsWanted`: a quantity tells its length with its
first byte, a string its own with the quantity; a determinant is read as a number and
need not name a variant). It is inductive for every stream (`StepKeepsTypes`), and with
the other half it makes `DeserializerInv`, as a whole, invariant.

*Noise that is accepted.* `Canonical` says of a value that was accepted that its encoding is
what was read. `AcceptedIsWritten` is the other direction of `SidesAgree`, by kinds of codecs
again: a whole frame that neither refuses nor panics makes a value of its type that
deserializers accept, and of that value the serializer writes the frame's own bits (`got`)
and hands on to the parts that were read. The invariant, `NoiseInv`, is that the frames hold
all that was read, in order (`InOrder`): the encodings of the parts of the outermost frame
behind its own bits, then those of the next, up to `pos`. `Fill` adds bits to the frame on top,
`Descend` an empty frame; in `Finish` the bits of the frame on top become,
by `AcceptedIsWritten`, the encoding of one more part of the frame below. The theorem has two
hypotheses. `AllItems`: `Nested` is closed, it has every value of `Types` that is readable and
whose parts it has, sequences of every length below `UsizeLimit` among them; the runs take a
small part of that. `ShortestForms`: no quantity was read from more
bytes than it needs. `bitbuf-vlq` writes the shortest form (section 5); whether it refuses a
longer one when it reads is up to that crate, and if it does not, a value read from such a form
is serialized to fewer bits. In `deser_stream` the noise is too short to hold one.

The contract counts the bits of the item, and noise may have none. `SizesGiven` says how
streams of noise give it (`SizeOf` in `MCDeserializer`): the length of the encoding that the
noise begins with, or, if it begins with none, more bits than there are. In the first case
the deserializers do on the noise what they would do if that value had been sent:
`GuidedInv` is `ReadsInPlace` for the stream `AsIfSent`, and no step looks at what was sent,
so the lemmas on `Placed` apply. In the second, everything short of `Ready` is allowed, and
`Ready` would, by `EndInOrder`, give an item whose encoding the noise begins with
(`NothingToAccept`).

*Encodings delimit themselves.* Why no frames are needed, apart from any run of the
machines: if the encoding of `a` begins that of `b`, the codecs of both have written
the same bits as far as the shorter one goes. `SidesAgree`, used for `a` and for `b`, says
that the deserializer has got all it wants at the end of what `a`'s codec wrote, and at
the end of what `b`'s wrote, and not before: both wrote the same bits. Then it asks for the
same parts, of which the first stand at the same place, the encoding of one beginning
with that of the other; so they are the same value, if that is already known of parts, the
second stand at the same place, and so on (`PartsDelimit`). The value made of the bits and
the parts' values is that of `a` and that of `b`. The induction is over the depth of a
value; that there is one (`IsDepth`: a part is less deep than what it is part of) is
assumed, because a set of values in TLA+ may go in circles, and Rust's do not.

*Immediate adapters.* `FitsOrFails` says what the buffer holds when an item is done, but
not while it is written, and nothing of the reader. `ImmediateInv` has a part for each
side. `WriteInv`: the memory is the encodings of the items before the current one, the
serializer's room is what is left of the buffer, its own `SerializerInv` holds, and where
an item is illegible, a frame that will be refused is on its way (`Tainted`), so that it never
gets `Ready`. `ReadInv`: what was received are the items before the current read; the slice
left is the one that was written, from the place where the next item stands, cut where it
was cut (`StandIn`); and the deserializer is at its place in it (`ReadsInv`). The steps of the codecs
are those of `Serializer` and `Deserializer`, whose lemmas are used through instances of their
proof modules (`SP`, `DP`); new are the steps from one item to the next, and that a
deserializer which is offered all there is (`PlacedRoom`) lacks bits only if the slice is
too short for the item.

*Derived codecs.* `IndexInv` says that, below the limit, the index is the one of the
first part that has not finished, and that only at the limit (`AtLimit`) it goes
round: so each arm polls the part behind the last one that finished
(`EachPartOnce`), and no other machine panics. The proof has one step per action of
`Next`; the arithmetic is in lemmas on `IndexValues` and `Arm`. The part of
`FailsOnlyAtLimits` on rejected types compares the two lengths of a determinant for
every number of variants below the limit, by cases over the bits it needs.

*Only model-checked.* Liveness (`ArrivedItemCompletes`, `PollReturns`,
`ItemCompletes`, `Completes`, `Arrives`, `AllReceived`, `AllAnswered`, `Finishes`):
TLAPS does not reason about fairness and ENABLED here. That `Enc` satisfies `IsEncoded`,
and the sizes it yields for particular types (`DocumentedSize`): types nest, so `Enc` is a
RECURSIVE operator, and the provers do not handle modules with one.

## 5. Assumptions on external code

The crates `bitbuf`, `bitbuf-vlq` and `core-futures-io` are not part of the
repository; they are modelled from how it uses them.

- `BitSlice::len`, after a codec has read from it, is the number of bits from the
  start of the slice, those that `advance` skipped included: `cursor = buf.len()`
  (lib.rs:527, 533) needs that. `write_immediate` reports `BitSliceMut::len`, so the
  number of a second item in the same buffer includes the first; in `DocumentedSize`
  only first items count.
- `BitSliceMut::len` in the writer (`cursor += buf.len()`, 634, 641) must count from
  `advance` if the cursor is not 0. The crate is not at hand, so `fromStart` leaves it
  open: in each behaviour of `AsyncWriter` it has one of the two values, under every
  fault, and the theorems are about both. They differ only once a transfer was cut
  short. With the second reading, the one the reader needs of the other half of the
  crate, `poll` may then panic: of a slice of 1024 bytes the transport accepts all but
  two, the next turn takes the two bytes left for bits, so the serializer is
  polled with a cursor of 2; it fills the buffer, the cursor becomes 2 + 8192, and
  `buffer[1024 + 1]` is out of bounds. `writer_faulty` takes this step (`Panic`): with
  two bytes, an item of 33 bits and a write of none of them. A panic unwinds the task,
  so nothing follows it. `PanicOnlyAfterCutShort` is what holds of it. In sessions,
  which cut no write short, the readings are the same; they use the second.
- `Drain`, `Fill` and their capped forms remember how far they got and return
  `Insufficient` only when the buffer is used up.
- A variable-length quantity has its length in unary in its first byte and the
  value behind it, most significant bit first, in the shortest form that holds it; doc
  comments (allocated.rs:35-37) give its sizes.
- `poll_read` returns at most what fits the slice, `poll_write` at most what it was
  given, and neither touches anything else. A poll that returns an error may be retried.

## 6. Not modelled

- `FieldDebug`, type bounds and error types: compile time and formatting.
- Panics when polled after completion: the owners modelled here reset first.
- Memory, and with it the allocation for a length before any element is there
  (allocated.rs:70, 276), and the depth of the call stack. Recursive types: a
  `Vec`, `Option` or `Result` makes the deserializers of its parts before it reads
  (allocated.rs:217, option.rs:135, result.rs:95), so that of a type that contains
  itself through one of them could not be made; types here are finite.
- What becomes of an `AsyncReader`'s bytes that were read ahead when it is dropped: the
  code has no operation that hands its stream on.
- Enums of more than 32768 variants do not compile (`ArrayBytes` differs from
  `TypeBytes`); the check `b >= 32` (derive/src/lib.rs:165) is never reached.
  `DeriveIndex` has the outcome, `Rejected`.
- After a deserializer error the reader goes on at the next byte boundary
  (`DeserializeFails`), in the middle of the peer's item perhaps. The model has the
  step; that both ends agree again afterwards holds for neither code nor model.
- Contents of numbers beyond their bits (floats), and of strings beyond the
  validity of single bytes.

## 7. Plan

Done: the stream adapters, the session, the codec machines, the format, the immediate
adapters and derived indices; proofs about the adapters, the session with its
refinement, the format, the codec machines with theirs, the immediate adapters and
derived indices; the type correctness of deserializers over noise, that they are canonical,
and that they keep the contract. Every safety property and every refinement that a passing
run checks is proved, but `DocumentedSize` (section 4).

## 8. Running

    tlc -config reader_stream.cfg MCAsyncReader.tla
    tlapm AsyncReaderProofs.tla
