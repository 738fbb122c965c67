--------------------------- MODULE MC_ScalarMul ---------------------------
(* A small instance of the gadget: a group of order 13, three windows of *)
(* four entries, and scalars of three digits (0..63, so witnesses >= 13, *)
(* the group order, occur as they can for q).                             *)
EXTENDS ScalarMul

MC_N == 13
MC_LIMBS == 3
MC_WIDTH == 4
MC_SPLIT == 3
MC_RAND == 5
MC_ANOTHER_RAND == 7
=============================================================================
