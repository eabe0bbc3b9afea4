---------------------------- MODULE MCAsyncReader ----------------------------
(* Instances of AsyncReader for TLC.                                       *)
EXTENDS AsyncReader

(* Sizes of an item: none (a unit type), below a byte, a byte, across a    *)
(* byte boundary, and more than the whole buffer of two bytes.             *)
MCItemBits == {0, 3, 8, 11, 19}
=============================================================================
