--------------------------- MODULE MC_MulTable ---------------------------
(* A small instance of MulTable: a group of order 13, three windows of   *)
(* four entries (4^3 = 64 >= 13, as 16^64 >= q in the code), so that a  *)
(* row base is derived from a row that was itself derived.             *)
EXTENDS MulTable

MC_N == 13
MC_LIMBS == 3
MC_WIDTH == 4
MC_RAND == 5
=============================================================================
