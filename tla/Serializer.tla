----------------------------- MODULE Serializer ------------------------------
(***************************************************************************)
(* The serializers of the crate (option.rs, result.rs, tuple.rs, array.rs, *)
(* allocated.rs, primitive.rs, and the ones derive generates) as one       *)
(* machine: a stack of frames, one for each serializer that is at work,    *)
(* the one the adapter polls at the bottom.  A frame has the bits its      *)
(* codec still has to write itself and the parts still to be handed on.    *)
(*                                                                         *)
(* A call of poll_serialize runs until the item is out, the buffer is full *)
(* or a future is not ready.  The next call finds its way down the same    *)
(* frames - except at a Vec or an array, which take the NEXT element of    *)
(* their iterator every time they are polled, and drop the serializer of   *)
(* the one before.                                                         *)
(***************************************************************************)
EXTENDS EncodedItems

CONSTANTS
  Values,       (* the items, among those of Nested, that may be serialized  *)
  Rooms         (* how many bits of buffer a call may be offered             *)

ASSUME SerializerConstants == Rooms \subseteq Nat /\ Values \subseteq Nested

VARIABLES
  item,    (* the item being serialized                                      *)
  stack,   (* the frames, outermost first: [kind, refused, bits, parts]      *)
  room,    (* bits left in the buffer of the current call                    *)
  out,     (* every bit written                                              *)
  outcome, (* "New", "Running" within a call, or what the last call returned *)
  size,    (* history: how many bits the encoding of the item has            *)
  cut      (* history: an element was dropped before it was written out      *)

vars == <<item, stack, room, out, outcome, size, cut>>

-----------------------------------------------------------------------------
(* MinCodecWrite::serialize: a new serializer for an item.                 *)
FrameOf(it) ==
  [ kind    |-> it.type.kind,
    refused |-> it.type.kind = "mapped" /\ it.value.n = 1,
    bits    |-> Own(it).bits,
    parts   |-> Own(it).parts ]

Top == stack[Len(stack)]
WithTop(frame) == [stack EXCEPT ![Len(stack)] = frame]

(* The codecs that start on the next element whenever they are polled:     *)
(* `if let Some(item) = this.data.next() { this.ser = Some(..) }`.         *)
Iterating == {"vec", "array"}

(* The frames a new call finds: an iterating codec that was in the middle  *)
(* of an element loses it, and with it every frame above.                  *)
Resumed ==
  LET losing == { i \in 1 .. Len(stack) - 1 : stack[i].kind \in Iterating }
  IN  SubSeq(stack, 1, IF losing = {} THEN Len(stack)
                       ELSE CHOOSE i \in losing : \A j \in losing : i <= j)

-----------------------------------------------------------------------------
(* A call of poll_serialize with a buffer of r bits.                       *)
Poll(r) ==
  /\ outcome \in {"New", "Insufficient", "Pending"}
  /\ outcome' = "Running" /\ room' = r
  /\ stack' = Resumed
  /\ cut' = (cut \/ Resumed # stack)
  /\ UNCHANGED <<item, size, out>>

Running == outcome = "Running"

(* The codec at work writes what fits of its own bits (write_bool, or      *)
(* Drain::drain_into, which remembers how far it got).  Mutated forms: it  *)
(* is written anew when it did not fit; it is only written if it all fits. *)
MutDrain ==
  /\ Running /\ Top.bits # <<>> /\ room > 0
  /\ LET k == IF Len(Top.bits) < room THEN Len(Top.bits) ELSE room
     IN  /\ out' = out \o SubSeq(Top.bits, 1, k)
         /\ room' = room - k
         /\ IF k = Len(Top.bits)
              THEN stack' = WithTop([Top EXCEPT !.bits = <<>>])
              ELSE UNCHANGED stack
  /\ UNCHANGED <<item, size, outcome, cut>>

MutDrainWhole ==
  /\ Running /\ Top.bits # <<>> /\ room > 0
  /\ IF Len(Top.bits) <= room
       THEN /\ out' = out \o Top.bits /\ room' = room - Len(Top.bits)
            /\ stack' = WithTop([Top EXCEPT !.bits = <<>>])
       ELSE room' = 0 /\ UNCHANGED <<out, stack>>
  /\ UNCHANGED <<item, size, outcome, cut>>

Drain ==
  /\ Running /\ Top.bits # <<>> /\ room > 0
  /\ LET k == IF Len(Top.bits) < room THEN Len(Top.bits) ELSE room
     IN  /\ out' = out \o SubSeq(Top.bits, 1, k)
         /\ room' = room - k
         /\ stack' = WithTop([Top EXCEPT !.bits = SubSeq(@, k + 1, Len(@))])
  /\ UNCHANGED <<item, size, outcome, cut>>

(* sufficient!: there is no room for a bit that has to be written.         *)
Insufficient ==
  /\ Running /\ Top.bits # <<>> /\ room = 0
  /\ outcome' = "Insufficient"
  /\ UNCHANGED <<item, size, stack, room, out, cut>>

(* buf_ready!: a future that a user's codec depends on is not ready, and   *)
(* Pending passes through every codec above.                               *)
Suspend ==
  /\ Running /\ Top.kind = "future" /\ Top.parts # <<>>
  /\ outcome' = "Pending"
  /\ UNCHANGED <<item, size, stack, room, out, cut>>

(* buf_try!: the closure of a MapSerialize refused the value (MapError),   *)
(* and the error passes through every codec above.                         *)
Fail ==
  /\ Running /\ Top.refused
  /\ outcome' = "Error"
  /\ UNCHANGED <<item, size, stack, room, out, cut>>

(* The codec polls the serializer of its next part.                        *)
Descend ==
  /\ Running /\ Top.bits = <<>> /\ Top.parts # <<>>
  /\ stack' = Append(WithTop([Top EXCEPT !.parts = Tail(@)]), FrameOf(Head(Top.parts)))
  /\ UNCHANGED <<item, size, room, out, outcome, cut>>

(* Ready(Ok): back to the codec above, or to the caller.  A mutated form:  *)
(* the codec above is ready as soon as its first part is.                  *)
MutFinish ==
  /\ Running /\ ~Top.refused /\ Top.bits = <<>> /\ Top.parts = <<>>
  /\ stack' = SubSeq(stack, 1, Len(stack) - 1)
  /\ outcome' = "Ready"
  /\ UNCHANGED <<item, size, room, out, cut>>

Finish ==
  /\ Running /\ ~Top.refused /\ Top.bits = <<>> /\ Top.parts = <<>>
  /\ stack' = SubSeq(stack, 1, Len(stack) - 1)
  /\ outcome' = IF Len(stack) = 1 THEN "Ready" ELSE outcome
  /\ UNCHANGED <<item, size, room, out, cut>>

Init ==
  /\ item \in Values /\ stack = <<FrameOf(item)>>
  /\ room = 0 /\ out = <<>> /\ outcome = "New"
  /\ size = Len(EncodingOf(item)) /\ cut = FALSE

LoopTurn == Drain \/ Insufficient \/ Suspend \/ Fail \/ Descend \/ Finish
Next == LoopTurn \/ \E r \in Rooms : Poll(r)

Spec == Init /\ [][Next]_vars

(* A call runs to its end, its caller, who makes room, calls again, and a  *)
(* future does not suspend its codec for ever.                             *)
FairSpec ==
  /\ Spec /\ WF_vars(LoopTurn) /\ WF_vars(\E r \in Rooms : Poll(r))
  /\ SF_vars(Descend)

-----------------------------------------------------------------------------
TypeOK ==
  /\ room \in Nat /\ size \in Nat
  /\ \A i \in 1 .. Len(out) : out[i] \in {0, 1}
  /\ outcome \in {"New", "Running", "Insufficient", "Pending", "Error", "Ready"}
  /\ (outcome = "Ready") <=> (stack = <<>>)
  /\ cut \in BOOLEAN

(* What a frame still has to put on the wire, and what a stack of them     *)
(* has, the innermost first.                                               *)
Owed(frame) == frame.bits \o Joined(frame.parts)
Due(frames) ==
  FlattenSeq([i \in 1 .. Len(frames) |-> Owed(frames[Len(frames) + 1 - i])])

Kinds  == { it.type.kind : it \in Nested }
Frames == [kind : Kinds, refused : BOOLEAN, bits : Seq({0, 1}), parts : Seq(Nested)]

(* Nothing is written twice and nothing is left out, whatever the frames   *)
(* that are at work and however far each has got: until an element is      *)
(* dropped, what has been written and what is still due are the encoding   *)
(* (Drain::drain_into, and the Option every codec keeps its serializers    *)
(* in).  This is inductive.                                                *)
SerializerInv ==
  /\ TypeOK
  /\ item \in Values /\ stack \in Seq(Frames) /\ out \in Seq({0, 1})
  /\ size = Len(EncodingOf(item))
  /\ ~cut => out \o Due(stack) = EncodingOf(item)

(* Whatever the sizes of the buffers, what has been written is the         *)
(* beginning of the encoding, and all of it when the serializer is ready.  *)
Exact ==
  /\ IsPrefix(out, EncodingOf(item))
  /\ outcome = "Ready" => out = EncodingOf(item)

(* ... as long as no call ends within an element of a Vec or an array      *)
(* (poll_serialize of option, result, tuples, strings, numbers, bool, Box, *)
(* Map and derived types).                                                 *)
ExactUntilCut == ~cut => Exact

(* Every serializer finishes, even one that has lost an element.           *)
Completes == <>(outcome \in {"Ready", "Error"})

(* The serializer keeps the contract its adapter relies on, until a call   *)
(* ends within an element: each of its steps is one the contract allows.   *)
Contract == INSTANCE CodecContract WITH want <- size, moved <- Len(out)
ContractUntilCut ==
  Contract!Init /\ [][cut' \/ Contract!Next]_(Contract!vars)
=============================================================================
