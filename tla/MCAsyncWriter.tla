---------------------------- MODULE MCAsyncWriter ----------------------------
(* Instances of AsyncWriter for TLC.                                       *)
EXTENDS AsyncWriter

(* Sizes of an item: none, below a byte, across a byte boundary, exactly   *)
(* the buffer of two bytes, more than it, and more than twice as much.     *)
MCItemBits == {0, 3, 11, 16, 19, 35}

(* Fewer of them, for the run in which much may go wrong: none, one below  *)
(* a byte, one that fits in the buffer, and one that fills it three times, *)
(* so that the serializer fills it again behind a cursor that is not 0.    *)
MCFewItemBits == {0, 3, 11, 33}
=============================================================================
