---------------------------- MODULE MCDeriveIndex ----------------------------
(* Instances of DeriveIndex for TLC.                                       *)
EXTENDS DeriveIndex

(* With small integer types: every number of fields up to the last limit,  *)
(* and numbers of variants on both sides of every width of a determinant.  *)
MCShapes ==
  [ variants : {1, 2, 3, 128, 129, 256, 257, 32768, 32769, 65536}, fields : 0 .. 33 ]

(* With a u8 as it is: an enum with a variant of so many fields.           *)
MCRealShapes == [ variants : {1, 2}, fields : {254, 255, 256} ]
=============================================================================
