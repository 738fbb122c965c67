------------------------- MODULE ScalarMulContract -------------------------
(***************************************************************************)
(* What scalar_mul promises (spec section 4.C): given the table of a      *)
(* point P and a scalar k it either yields k * P, or its constraints      *)
(* cannot be satisfied; it never yields another point.                   *)
(***************************************************************************)
EXTENDS CurveGroup

CONSTANT Scalars        \* the scalars a witness can hold

VARIABLES
    base,       \* the point whose table the gadget reads
    scalar,     \* the scalar witness
    out         \* <<"pending" | "ok" | "unsat", output point>>

cvars == <<base, scalar, out>>

CInit ==
    /\ base \in Point \ {Identity}
    /\ scalar \in Scalars
    /\ out = <<"pending", Identity>>

(* The gadget's one observable step: its output wire, or unsatisfiable. *)
Return ==
    /\ out = <<"pending", Identity>>
    /\ out' \in {<<"ok", ScalarTimes(scalar, base)>>, <<"unsat", Identity>>}
    /\ UNCHANGED <<base, scalar>>

CSpec == CInit /\ [][Return]_cvars

(* The output is pending, k * P, or unsatisfiable: never another point. *)
OutOK ==
    out \in {<<"pending", Identity>>, <<"ok", ScalarTimes(scalar, base)>>,
            <<"unsat", Identity>>}
=============================================================================
