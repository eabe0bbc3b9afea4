------------------------------- MODULE Session -------------------------------
(***************************************************************************)
(* A session: one task owns an AsyncWriter and sends the items of a plan   *)
(* one after the other, resetting the writer in between or handing the     *)
(* stream to a new one; another owns an AsyncReader on the other end and   *)
(* receives as many, each with a deserializer for its type.  Between them  *)
(* is a byte stream that loses nothing and delays everything.  Nothing     *)
(* else passes between the two: no length, no separator, no                *)
(* acknowledgement.                                                        *)
(***************************************************************************)
EXTENDS Integers, Sequences

CONSTANTS
  WriterBufSize, (* ASYNC_WRITER_BUF_SIZE, in bytes                          *)
  ReaderBufSize, (* ASYNC_READER_BUF_SIZE, in bytes                          *)
  Plans,         (* the sequences of item sizes, in bits, a session may send *)
  ReadFaults     (* what may fail at the reader: {} or {"ReadError"}         *)

ASSUME SessionConstants ==
  /\ WriterBufSize \in Nat \ {0, 1}
  /\ ReaderBufSize \in Nat \ {0}
  /\ \A p \in Plans : p \in Seq(Nat) /\ p # <<>>
  /\ ReadFaults \subseteq {"ReadError"}

VARIABLES
  plan,          (* the sizes of the items of this session                   *)
  w_buffer, w_cursor, w_done, w_state, w_want, w_emitted, w_fromStart, w_polling,
  w_res, wire, w_frame, w_pads, w_interrupted, w_failed,
  r_buffer, r_cursor, r_last_byte, r_state, r_want, r_fed, r_polling, r_res,
  arrived, closed, fetched, r_frame,
  sent,          (* history: the items the writer has completed              *)
  received       (* history: the items the reader has returned               *)

writer == <<w_buffer, w_cursor, w_done, w_state, w_want, w_emitted, w_fromStart,
            w_polling, w_res, wire, w_frame, w_pads, w_interrupted, w_failed>>
reader == <<r_buffer, r_cursor, r_last_byte, r_state, r_want, r_fed, r_polling, r_res,
            arrived, closed, fetched, r_frame>>
vars == <<plan, writer, reader, sent, received>>

Sizes == UNION { { p[i] : i \in 1 .. Len(p) } : p \in Plans }

W == INSTANCE AsyncWriter
       WITH BufSize <- WriterBufSize, ItemBits <- Sizes, WireBytes <- 0,
            Faults <- {}, SuspendAfter <- {}, fromStart <- w_fromStart,
            buffer <- w_buffer, cursor <- w_cursor, done <- w_done, state <- w_state,
            want <- w_want, emitted <- w_emitted, polling <- w_polling, res <- w_res,
            frame <- w_frame, pads <- w_pads, interrupted <- w_interrupted,
            failed <- w_failed

R == INSTANCE AsyncReader
       WITH BufSize <- ReaderBufSize, ItemBits <- Sizes, StreamBytes <- 0,
            Faults <- ReadFaults, SuspendAfter <- {},
            buffer <- r_buffer, cursor <- r_cursor, last_byte <- r_last_byte,
            state <- r_state, want <- r_want, fed <- r_fed, polling <- r_polling,
            res <- r_res, frame <- r_frame

-----------------------------------------------------------------------------
(* The bits of the writer's item, and those the reader was fed, as they    *)
(* stood on the wire.                                                      *)
Written == [i \in 1 .. w_want |-> 8 * w_frame + i - 1]
Read(fed) == [i \in 1 .. Len(fed) |-> wire[fed[i] + 1]]

(* A poll of the writer and the turns of its loop; the one that completes  *)
(* its item is the one that sends it.                                      *)
WriterRuns ==
  /\ W!Poll \/ W!SerializeReady \/ W!SerializeInsufficient \/ W!WriteWhole
  /\ sent' = IF w_state' = "Complete" THEN Append(sent, Written) ELSE sent
  /\ UNCHANGED <<plan, reader, received>>

(* The sending task goes on to its next item: it resets the writer, or     *)
(* takes the stream out of it and hands it to a new one.                   *)
TakeStream ==
  /\ Len(sent) < Len(plan) /\ w_state = "Complete"
  /\ W!IntoInner
  /\ UNCHANGED <<plan, reader, sent, received>>

SendNext ==
  /\ Len(sent) < Len(plan)
  /\ W!Reset(plan[Len(sent) + 1]) \/ W!Renew(plan[Len(sent) + 1])
  /\ UNCHANGED <<plan, reader, sent, received>>

(* A byte that was written reaches the other end.                          *)
Deliver ==
  /\ R!Arrive(Len(wire) \div 8)
  /\ UNCHANGED <<plan, writer, sent, received>>

(* A poll of the reader and the turns of its loop; the one that completes  *)
(* its item is the one that receives it.                                   *)
ReaderRuns ==
  /\ \/ R!Poll \/ R!DeserializeReady \/ R!DeserializeInsufficient
     \/ \E size \in R!ReadSizes : R!ReadOk(size)
     \/ R!ReadPending \/ R!ReadFails
  /\ received' = IF r_state' = "Complete" THEN Append(received, Read(r_fed')) ELSE received
  /\ UNCHANGED <<plan, writer, sent>>

(* The receiving task goes on to its next item.                            *)
ReceiveNext ==
  /\ Len(received) < Len(plan)
  /\ R!Reset(plan[Len(received) + 1])
  /\ UNCHANGED <<plan, writer, sent, received>>

(* Both ends count len() from the start of the slice, as the reader needs  *)
(* it; over this stream, which cuts no write short, the writer is in bounds*)
(* with either count, as its invariant says.                               *)
Init ==
  /\ plan \in Plans
  /\ W!Init /\ w_state = "Serialize" /\ w_want = plan[1] /\ w_fromStart
  /\ R!Init /\ r_want = plan[1]
  /\ sent = <<>> /\ received = <<>>

Next == WriterRuns \/ TakeStream \/ SendNext \/ Deliver \/ ReaderRuns \/ ReceiveNext

Spec == Init /\ [][Next]_vars

(* Both tasks are polled until they are through, the stream delivers what  *)
(* was written, and a read that fails now and then also succeeds.          *)
FairSpec ==
  /\ Spec
  /\ WF_vars(WriterRuns) /\ WF_vars(SendNext) /\ WF_vars(Deliver)
  /\ WF_vars(ReaderRuns) /\ WF_vars(ReceiveNext)
  /\ SF_vars(ReaderRuns /\ \E size \in R!ReadSizes : R!ReadOk(size))

-----------------------------------------------------------------------------
TypeOK == W!TypeOK /\ R!TypeOK

(* The byte where item k of plan p belongs, and the bits it consists of.   *)
StartOf(p, k) ==
  LET bytes[i \in 0 .. Len(p)] ==
        IF i = 0 THEN 0 ELSE bytes[i - 1] + W!BytesFor(p[i])
  IN  bytes[k - 1]
ItemOf(p, k) == [i \in 1 .. p[k] |-> 8 * StartOf(p, k) + i - 1]

(* Frameless and still aligned: without a separator on the wire, a writer  *)
(* that starts on an item has put on the wire the bytes of those before it *)
(* and nothing else, and a reader that starts on it has its cursor on the  *)
(* very same byte, whatever it has read ahead of it into its buffer.       *)
Aligned ==
  /\ w_state = "Serialize" /\ w_emitted = 0 =>
       Len(wire) = 8 * StartOf(plan, Len(sent) + 1)
  /\ r_state \in {"Deserialize", "Reading"} /\ r_fed = <<>> =>
       R!Position = 8 * StartOf(plan, Len(received) + 1)

(* Every bit the reader's codecs were ever fed is the bit the writer's     *)
(* codec emitted at that place of that item.                               *)
EndToEnd ==
  /\ \A i \in 1 .. Len(r_fed) : wire[r_fed[i] + 1] = 8 * r_frame + i - 1
  /\ \A k \in 1 .. Len(received) : received[k] = ItemOf(plan, k)

(* The session is a first-in first-out channel of the items that have bits *)
(* (one that has none can be received before it is sent).                  *)
ItemsOfPlans == UNION { { ItemOf(p, k) : k \in 1 .. Len(p) } : p \in Plans }
WithBits(items) ==
  LET kept[k \in 0 .. Len(items)] ==
        IF k = 0 THEN <<>>
        ELSE IF items[k] = <<>> THEN kept[k - 1] ELSE Append(kept[k - 1], items[k])
  IN  kept[Len(items)]
Channel == INSTANCE ItemChannel
             WITH Item <- ItemsOfPlans,
                  sent <- WithBits(sent), received <- WithBits(received)
IsChannel == Channel!Spec

(* Everything that is to be sent is received.                              *)
AllReceived == <>(Len(received) = Len(plan))

-----------------------------------------------------------------------------
(* The inductive invariant: adapters whose own invariants hold, each at    *)
(* its place in the plan, and a wire between them.                         *)

(* The writer is at the item behind those it has sent, and that item is    *)
(* not whole on the wire before the writer is complete.                    *)
WriterPlace ==
  /\ w_state \in {"Serialize", "Writing"} =>
       /\ Len(sent) < Len(plan)
       /\ w_want = plan[Len(sent) + 1] /\ w_frame = StartOf(plan, Len(sent) + 1)
       /\ w_want = 0 \/ Len(wire) < 8 * w_frame + w_want
  /\ w_state = "Writing" /\ ~w_done => w_emitted < w_want
  /\ w_state = "Complete" =>
       /\ Len(sent) > 0
       /\ w_want = plan[Len(sent)] /\ w_frame = StartOf(plan, Len(sent))
  /\ w_state = "Taken" => Len(wire) = 8 * StartOf(plan, Len(sent) + 1)
  /\ ~w_failed /\ ~w_interrupted

(* The reader is at the item behind those it has received.                 *)
ReaderPlace ==
  /\ r_state \in {"Deserialize", "Reading"} =>
       /\ Len(received) < Len(plan)
       /\ r_want = plan[Len(received) + 1] /\ r_frame = StartOf(plan, Len(received) + 1)
  /\ r_state = "Complete" =>
       /\ Len(received) > 0 /\ Len(r_fed) = r_want
       /\ r_want = plan[Len(received)] /\ r_frame = StartOf(plan, Len(received))
  /\ r_state # "Dropped"

(* What is fetched has arrived, and what has arrived was written.          *)
StreamIsCausal == fetched <= arrived /\ 8 * arrived <= Len(wire)

(* Padding lies behind the bits of an item and before the next.            *)
PadsBetween ==
  \A k \in 1 .. Len(plan) :
    w_pads \cap (8 * StartOf(plan, k) .. 8 * StartOf(plan, k) + plan[k] - 1) = {}

(* Both ends have the items of the plan, from the first on.                *)
HistoryOf(items) ==
  /\ items \in Seq(Seq(Nat)) /\ Len(items) <= Len(plan)
  /\ \A k \in 1 .. Len(items) : items[k] = ItemOf(plan, k)

SessionInv ==
  /\ plan \in Plans
  /\ W!WriterInv /\ WriterPlace
  /\ R!ReaderInv /\ ReaderPlace
  /\ StreamIsCausal /\ PadsBetween
  /\ HistoryOf(sent) /\ HistoryOf(received)
=============================================================================
