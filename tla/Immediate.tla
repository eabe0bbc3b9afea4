------------------------------ MODULE Immediate ------------------------------
(***************************************************************************)
(* WriteImmediate and ReadImmediate (src/src/lib.rs:243-357): one item is  *)
(* written into, or read from, a buffer of a fixed size, and an item that  *)
(* does not fit fails with Insufficient instead of waiting.  Both borrow   *)
(* the buffer, which keeps its position, so that items follow one another  *)
(* bit by bit, without the padding that AsyncWriter puts between them.     *)
(*                                                                         *)
(* The codecs are the machines of Serializer and Deserializer.  A batch of *)
(* items is written to one buffer, and what the buffer holds, or only the  *)
(* first bytes of it, is read back: round_trip of the tests, for more than *)
(* one item and for buffers of every size.                                 *)
(***************************************************************************)
EXTENDS EncodedItems

CONSTANTS
  Types,      (* the types of the items, and all types they are built from   *)
  Legible,    (* the items that deserializers accept                         *)
  Batches,    (* sequences of items that are written in a row                *)
  Documented, (* [item, bits]: the size that a document gives for an item    *)
  Buffers,    (* how many bytes a buffer may have, and a slice that is read  *)
  UsizeLimit  (* lengths below it fit in a usize                             *)

VARIABLES
  batch, capacity,  (* the items to write; bytes in the buffer               *)
  turn,             (* which item is written, or was the last                *)
  memory,           (* the bits in the buffer from the items before it       *)
  item, w_stack, w_room, out, w_outcome, size, cut,    (* the serializer     *)
  stream, r_stack, pos, r_room, r_outcome, result,     (* the deserializer   *)
  values            (* what the reads before the current one returned        *)

(* The bits that a deserializer of an item may be offered: the item is     *)
(* there, or there is only the beginning of it.                            *)
Slices ==
  UNION { { [type |-> it.type, sent |-> <<it.value>>, size |-> Len(EncodingOf(it)), bits |-> b] :
              b \in { s \in Seq({0, 1}) : \/ IsPrefix(EncodingOf(it), s)
                                        \/ IsPrefix(s, EncodingOf(it)) } } : it \in Legible }

S == INSTANCE Serializer
       WITH Values <- Nested, Rooms <- Nat,
            stack <- w_stack, room <- w_room, outcome <- w_outcome
D == INSTANCE Deserializer
       WITH Nested <- Legible, Streams <- Slices, Pieces <- Nat,
            stack <- r_stack, room <- r_room, outcome <- r_outcome

(* Every item that is not legible is refused on the way out, it or a part  *)
(* of it (MapSerialize); the others deserializers accept, and their parts. *)
Illegible(parts) == \E j \in 1 .. Len(parts) : parts[j] \notin Legible
ASSUME ImmediateConstants ==
  /\ Buffers \subseteq Nat /\ UsizeLimit \in Nat
  /\ \A b \in Batches : b \in Seq(Nested) /\ b # <<>>
  /\ \A T \in Types : D!IsType(T)
  /\ \A it \in Nested : it.type \in Types
  /\ Legible \subseteq Nested
  /\ \A it \in Legible :
       /\ it = Part(it.type, it.value) /\ D!IsValue(it) /\ D!Readable(it)
       /\ Own(it).parts \in Seq(Legible)
  /\ \A it \in Nested \ Legible : S!FrameOf(it).refused \/ Illegible(Own(it).parts)

writing == <<item, w_stack, w_room, out, w_outcome, size, cut>>
reading == <<stream, r_stack, pos, r_room, r_outcome, result>>
vars    == <<batch, capacity, turn, memory, writing, reading, values>>

-----------------------------------------------------------------------------
(* BitSliceMut: what it holds, and `len`, which counts from its start.     *)
Held     == memory \o out
Reported == Len(Held)
Free     == ByteBits * capacity - Reported

(* How many items have been written: those for which Ok was returned.      *)
Written == IF w_outcome = "Ready" THEN turn ELSE turn - 1

(* WriteImmediate::poll.  The flag that it is done is set with every       *)
(* answer but Pending; then the future is not polled again.  Mutated       *)
(* forms: the flag is set with Pending too; the call after Pending is      *)
(* offered the buffer from where the item began.                           *)
MutDoneWhenPending ==
  /\ w_outcome = "New"
  /\ S!Poll(Free)
  /\ UNCHANGED <<batch, capacity, turn, memory, reading, values>>

MutFromItem ==
  /\ w_outcome \in {"New", "Pending"}
  /\ S!Poll(ByteBits * capacity - Len(memory))
  /\ UNCHANGED <<batch, capacity, turn, memory, reading, values>>

WritePoll ==
  /\ w_outcome \in {"New", "Pending"}
  /\ S!Poll(Free)
  /\ UNCHANGED <<batch, capacity, turn, memory, reading, values>>

WriteTurn ==
  /\ S!LoopTurn
  /\ UNCHANGED <<batch, capacity, turn, memory, reading, values>>

(* write_immediate with the next item and the same buffer.  Mutated form:  *)
(* it starts at a byte boundary, as an item on a stream does.              *)
MutNextWrite ==
  /\ w_outcome = "Ready" /\ turn < Len(batch) /\ r_outcome = "Idle"
  /\ turn' = turn + 1
  /\ memory' = Held \o [i \in 1 .. (Free % ByteBits) |-> 0]
  /\ item' = batch[turn + 1] /\ size' = Len(EncodingOf(item'))
  /\ w_stack' = <<S!FrameOf(item')>> /\ w_room' = 0 /\ out' = <<>> /\ w_outcome' = "New"
  /\ UNCHANGED <<batch, capacity, cut, reading, values>>

NextWrite ==
  /\ w_outcome = "Ready" /\ turn < Len(batch) /\ r_outcome = "Idle"
  /\ turn' = turn + 1 /\ memory' = Held
  /\ item' = batch[turn + 1] /\ size' = Len(EncodingOf(item'))
  /\ w_stack' = <<S!FrameOf(item')>> /\ w_room' = 0 /\ out' = <<>> /\ w_outcome' = "New"
  /\ UNCHANGED <<batch, capacity, cut, reading, values>>

-----------------------------------------------------------------------------
(* read_immediate of the k-th item of the batch from `bits`.               *)
Reads(k, bits) ==
  /\ stream' = [ type |-> batch[k].type, sent |-> <<batch[k].value>>,
                 size |-> Len(EncodingOf(batch[k])), bits |-> bits ]
  /\ r_stack' = <<D!FrameFor(batch[k].type)>>
  /\ pos' = 0 /\ r_room' = 0 /\ r_outcome' = "New" /\ result' = <<>>

(* The owner of the buffer, once all writes have been answered, reads its  *)
(* first n bytes, in which nothing has been written behind the items       *)
(* ([0u8; 1024]).                                                          *)
StartRead(n) ==
  /\ r_outcome = "Idle" /\ n <= capacity
  /\ w_outcome \in {"Ready", "Insufficient", "Error"}
  /\ w_outcome = "Ready" => turn = Len(batch)
  /\ Written > 0
  /\ Reads(1, SubSeq(Held \o [i \in 1 .. Free |-> 0], 1, ByteBits * n))
  /\ UNCHANGED <<batch, capacity, turn, memory, writing, values>>

(* ReadImmediate::poll: all bits that are left are there from the start.   *)
ReadPoll ==
  /\ r_outcome \in {"New", "Pending"}
  /\ D!Poll(Len(stream.bits) - pos)
  /\ UNCHANGED <<batch, capacity, turn, memory, writing, values>>

ReadTurn ==
  /\ D!LoopTurn
  /\ UNCHANGED <<batch, capacity, turn, memory, writing, values>>

Received == values \o result

(* read_immediate of the next item from the same slice.  Mutated form: it  *)
(* goes on at the next byte, as AsyncReader does.                          *)
MutNextRead ==
  /\ r_outcome = "Ready" /\ Len(Received) < Written
  /\ values' = Received
  /\ LET left == Len(stream.bits) - pos
     IN  Reads(Len(Received) + 1,
               SubSeq(stream.bits, pos + (left % ByteBits) + 1, Len(stream.bits)))
  /\ UNCHANGED <<batch, capacity, turn, memory, writing>>

NextRead ==
  /\ r_outcome = "Ready" /\ Len(Received) < Written
  /\ values' = Received
  /\ Reads(Len(Received) + 1, SubSeq(stream.bits, pos + 1, Len(stream.bits)))
  /\ UNCHANGED <<batch, capacity, turn, memory, writing>>

-----------------------------------------------------------------------------
Init ==
  /\ batch \in Batches /\ capacity \in Buffers /\ turn = 1 /\ memory = <<>>
  /\ item = batch[1] /\ S!Init
  /\ stream = [type |-> Unit, sent |-> <<>>, size |-> 0, bits |-> <<>>]
  /\ r_stack = <<>> /\ pos = 0 /\ r_room = 0 /\ r_outcome = "Idle" /\ result = <<>>
  /\ values = <<>>

Next ==
  \/ WritePoll \/ WriteTurn \/ NextWrite
  \/ \E n \in Buffers : StartRead(n)
  \/ ReadPoll \/ ReadTurn \/ NextRead

(* An executor (block_on) polls a future that has been woken, a call runs  *)
(* to its end, and what a codec waits for happens some day.                *)
WriteDescend == S!Descend /\ UNCHANGED <<batch, capacity, turn, memory, reading, values>>
ReadDescend  == D!Descend /\ UNCHANGED <<batch, capacity, turn, memory, writing, values>>
Fairness ==
  /\ WF_vars(WritePoll) /\ WF_vars(WriteTurn) /\ SF_vars(WriteDescend)
  /\ WF_vars(ReadPoll) /\ WF_vars(ReadTurn) /\ SF_vars(ReadDescend)

Spec == Init /\ [][Next]_vars /\ Fairness

-----------------------------------------------------------------------------
TypeOK ==
  /\ turn \in 1 .. Len(batch) /\ Len(values) < Len(batch)
  /\ Free \in 0 .. ByteBits * capacity
  /\ w_outcome = "Running" => w_room = Free
  /\ r_outcome = "Running" => pos + r_room = Len(stream.bits)

(* The encodings of the first k items, one directly behind the other.      *)
Encodings(k) == Joined(SubSeq(batch, 1, k))

(* An item is written whole, right behind those before it, or fails: with  *)
(* Insufficient only if it is too large for what is left, and then all     *)
(* that is left holds the beginning of it, nothing less and nothing else;  *)
(* with an error only if a closure refused.  (The buffer is no longer what *)
(* it was before the item: lib.rs:293, "failing if the buffer is too       *)
(* small".)  Except for an item one of whose sequences was suspended in    *)
(* the middle of an element.                                               *)
FitsOrFails ==
  ~cut =>
    /\ w_outcome = "Ready" => Held = Encodings(turn)
    /\ w_outcome = "Insufficient" =>
         Free = 0 /\ Held # Encodings(turn) /\ IsPrefix(Held, Encodings(turn))
    /\ IsPrefix(Held, Encodings(turn))

(* What was written is read back from the buffer, item by item, although   *)
(* no item but the first begins at a byte boundary; a slice that ends too  *)
(* early gives the items before its end and then Insufficient (lib.rs:254, *)
(* "This fails if insufficient data is available"; the assertion of        *)
(* round_trip, lib.rs:802).                                                *)
ReadsBack ==
  ~cut /\ r_outcome # "Idle" =>
    /\ IsPrefix(Received, [i \in 1 .. Written |-> batch[i].value])
    /\ r_outcome \notin {"Error", "Panic"}
    /\ r_outcome = "Insufficient" => Len(stream.bits) < stream.size

(* The number write_immediate returns is the size in bits that the README  *)
(* lists and the doc comments of the codecs state (README.md:11-22,        *)
(* option.rs:16, result.rs:18, allocated.rs:36).                           *)
DocumentedSize ==
  w_outcome = "Ready" /\ turn = 1 =>
    \A row \in Documented : row.item = item => Reported = row.bits

(* Encodings delimit themselves: that of one value of a type never begins  *)
(* with that of another, so that items can follow each other without a     *)
(* frame around them (README.md:41, "True frameless design") and no two    *)
(* values share an encoding.                                               *)
SelfDelimiting ==
  w_outcome = "New" /\ turn = 1 /\ item \in Legible =>
    \A other \in Legible :
      other.type = item.type /\ other.value # item.value =>
        ~IsPrefix(EncodingOf(other), EncodingOf(item))

(* Every write and every read that is awaited is answered: none waits for  *)
(* room or for bits that cannot come.                                      *)
AllAnswered ==
  /\ w_outcome = "New" ~> w_outcome \in {"Ready", "Insufficient", "Error"}
  /\ r_outcome = "New" ~> r_outcome \in {"Ready", "Insufficient", "Error", "Panic"}
=============================================================================
