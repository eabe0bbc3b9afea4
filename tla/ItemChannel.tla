----------------------------- MODULE ItemChannel -----------------------------
(***************************************************************************)
(* What an AsyncWriter and an AsyncReader at the two ends of a stream are  *)
(* together: a first-in first-out channel of items.                        *)
(***************************************************************************)
EXTENDS Integers, Sequences

CONSTANT Item   (* everything that may be sent                               *)

VARIABLES
  sent,      (* the items sent, in order                                     *)
  received   (* the items received, in order                                 *)

vars == <<sent, received>>

Init == sent = <<>> /\ received = <<>>

Send(i) ==
  /\ sent' = Append(sent, i)
  /\ UNCHANGED received

Receive ==
  /\ Len(received) < Len(sent)
  /\ received' = Append(received, sent[Len(received) + 1])
  /\ UNCHANGED sent

Next == (\E i \in Item : Send(i)) \/ Receive

Spec == Init /\ [][Next]_vars
=============================================================================
