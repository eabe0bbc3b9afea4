------------------------------ MODULE MCSession ------------------------------
(* Instances of Session for TLC: up to three items, of sizes below and     *)
(* across a byte, and beyond the buffers.                                  *)
EXTENDS Session

PlansOver(sizes) == UNION { [1 .. k -> sizes] : k \in 1 .. 3 }
MCPlans == PlansOver({0, 3, 11, 27})
=============================================================================
