-------------------------- MODULE MulTableParams --------------------------
(***************************************************************************)
(* The shape of a precomputed multiplication table (point_mul.rs): LIMBS  *)
(* windows of WIDTH entries, blinded by RAND, and the table it must equal. *)
(***************************************************************************)
EXTENDS CurveGroup

CONSTANTS
    LIMBS,      \* number of windows (256 / 4 in the code)
    WIDTH,      \* entries per window (1 << 4 in the code)
    RAND        \* the blinding point decoded by get_rand

ASSUME TableAssumption ==
    /\ LIMBS \in Nat \ {0}
    /\ WIDTH \in Nat /\ WIDTH >= 2 /\ WIDTH % 2 = 0
    /\ WIDTH < N       \* 16 < q: a window's multipliers are distinct mod q
    /\ RAND \in Point \ {Identity}

Rows == 0..(LIMBS - 1)
Cols == 0..(WIDTH - 1)

(* The reference table of P: entry (i, j) is j * WIDTH^i * P + RAND. *)
ReferenceTable(p) ==
    [r \in Rows |-> [c \in Cols |-> (c * WIDTH^r * p + RAND) % N]]
=============================================================================
