---------------------------- MODULE CodecContract ----------------------------
(***************************************************************************)
(* What AsyncReader and AsyncWriter rely on in a codec, and what the       *)
(* Serialize and Deserialize traits ask of one (src/src/lib.rs): a call    *)
(* moves bits to or from the buffer it is offered, returns Insufficient    *)
(* only when it has used all of that buffer and its item needs more,       *)
(* returns Ready only when it has moved the bits of its item and not one   *)
(* bit more, and goes on in the next call where it stopped.  It may return *)
(* Pending at any point and go on from there, and fail at any point.       *)
(***************************************************************************)
EXTENDS Integers

CONSTANT Rooms  (* how many bits of buffer a call may be offered             *)

VARIABLES
  want,    (* how many bits the item has                                     *)
  moved,   (* how many of them have been moved                               *)
  room,    (* how many bits the buffer of the current call has left          *)
  outcome  (* "New", "Running" within a call, or what the last call returned *)

vars == <<want, moved, room, outcome>>

Init ==
  /\ want \in Nat /\ moved = 0 /\ room = 0 /\ outcome = "New"

(* A call with a buffer of r bits.                                         *)
Poll(r) ==
  /\ outcome \in {"New", "Insufficient", "Pending"}
  /\ outcome' = "Running" /\ room' = r
  /\ UNCHANGED <<want, moved>>

Move(k) ==
  /\ outcome = "Running" /\ k <= room /\ moved + k <= want
  /\ moved' = moved + k /\ room' = room - k
  /\ UNCHANGED <<want, outcome>>

(* BufPoll::Insufficient.                                                  *)
Insufficient ==
  /\ outcome = "Running" /\ room = 0 /\ moved < want
  /\ outcome' = "Insufficient"
  /\ UNCHANGED <<want, moved, room>>

(* BufPoll::Pending, wherever the codec is.                                *)
Pending ==
  /\ outcome = "Running"
  /\ outcome' = "Pending"
  /\ UNCHANGED <<want, moved, room>>

(* BufPoll::Ready(Ok).                                                     *)
Ready ==
  /\ outcome = "Running" /\ moved = want
  /\ outcome' = "Ready"
  /\ UNCHANGED <<want, moved, room>>

(* BufPoll::Ready(Err), wherever the codec is: it is not called again.     *)
Fail ==
  /\ outcome = "Running"
  /\ outcome' = "Error"
  /\ UNCHANGED <<want, moved, room>>

Next ==
  \/ \E r \in Rooms : Poll(r)
  \/ \E k \in 1 .. room : Move(k)
  \/ Insufficient
  \/ Pending
  \/ Ready
  \/ Fail

Spec == Init /\ [][Next]_vars
=============================================================================
