----------------------------- MODULE MulTable -----------------------------
(***************************************************************************)
(* precompute_mul_table (src/prover/libs/plonky2-cosigning-key-validation *)
(* /src/curve/point_mul.rs): the out-of-circuit windowed table of a point *)
(* P.  Row i holds j * WIDTH^i * P for j in 0..WIDTH-1, built by doubling *)
(* and adding; then the blinding point RAND (get_rand) is added to every  *)
(* entry and the table is normalised to affine form.                      *)
(*                                                                         *)
(* Each write of the two building loops is one step; the blinding loop,   *)
(* the batch normalisation and the conversion to plonky2 points transform *)
(* every entry independently and form the single step Blind.              *)
(***************************************************************************)
EXTENDS MulTableParams

VARIABLES
    point,      \* the base point P passed in
    table,      \* table_proj, then the returned affine table
    i,          \* row index of the outer loop
    j,          \* column index of the inner loop
    pc          \* "row", "fill", "blind" or "done"

mtvars == <<point, table, i, j, pc>>

(* vec![vec![IDENTITY; WIDTH]; LIMBS] *)
EmptyTable == [r \in Rows |-> [c \in Cols |-> Identity]]

MTInit ==
    /\ point \in Point \ {Identity}
    /\ table = EmptyTable
    /\ i = 0
    /\ j = 0
    /\ pc = "row"

(* Fault model: the base read from the wrong column of the row above. *)
RowHeadColumnZero ==
    /\ pc = "row"
    /\ table' = [table EXCEPT ![i][1] =
                    IF i = 0 THEN point
                             ELSE Double(table[i - 1][WIDTH % 2])]
    /\ j' = 2
    /\ pc' = "fill"
    /\ UNCHANGED <<point, i>>

(* table_proj[i][1] = P in row 0, else double the middle of the row above *)
RowHead ==
    /\ pc = "row"
    /\ table' = [table EXCEPT ![i][1] =
                    IF i = 0 THEN point
                             ELSE Double(table[i - 1][WIDTH \div 2])]
    /\ j' = 2
    /\ pc' = "fill"
    /\ UNCHANGED <<point, i>>

(* Fault model: the inner loop runs to WIDTH inclusive. *)
FillEvenInclusive ==
    /\ pc = "fill"
    /\ j <= WIDTH
    /\ j % 2 = 0
    /\ table' = [table EXCEPT ![i][j] = Double(table[i][j \div 2])]
    /\ j' = j + 1
    /\ UNCHANGED <<point, i, pc>>

(* even j: double the entry at j / 2 *)
FillEven ==
    /\ pc = "fill"
    /\ j < WIDTH
    /\ j % 2 = 0
    /\ table' = [table EXCEPT ![i][j] = Double(table[i][j \div 2])]
    /\ j' = j + 1
    /\ UNCHANGED <<point, i, pc>>

(* Fault model: odd entries add the input point instead of the row's base. *)
FillOddAddsPoint ==
    /\ pc = "fill"
    /\ j < WIDTH
    /\ j % 2 = 1
    /\ table' = [table EXCEPT ![i][j] = GroupAdd(table[i][j - 1], point)]
    /\ j' = j + 1
    /\ UNCHANGED <<point, i, pc>>

(* odd j: add the row's base to the entry at j - 1 *)
FillOdd ==
    /\ pc = "fill"
    /\ j < WIDTH
    /\ j % 2 = 1
    /\ table' = [table EXCEPT ![i][j] = GroupAdd(table[i][j - 1], table[i][1])]
    /\ j' = j + 1
    /\ UNCHANGED <<point, i, pc>>

(* end of the inner loop: next row, or leave the outer loop *)
NextRow ==
    /\ pc = "fill"
    /\ j = WIDTH
    /\ i' = i + 1
    /\ pc' = IF i + 1 < LIMBS THEN "row" ELSE "blind"
    /\ UNCHANGED <<point, table, j>>

(* element.add(rand) on every entry, batch_normalize, chunk into rows *)
Blind ==
    /\ pc = "blind"
    /\ table' = [r \in Rows |-> [c \in Cols |-> GroupAdd(table[r][c], RAND)]]
    /\ pc' = "done"
    /\ UNCHANGED <<point, i, j>>

MTNext == RowHead \/ FillEven \/ FillOdd \/ NextRow \/ Blind

MTSpec == MTInit /\ [][MTNext]_mtvars

-----------------------------------------------------------------------------
(* Type of every variable. *)
MTTypeOK ==
    /\ point \in Point \ {Identity}
    /\ table \in [Rows -> [Cols -> Point]]
    /\ i \in 0..LIMBS
    /\ j \in 0..WIDTH
    /\ pc \in {"row", "fill", "blind", "done"}

(* An entry with the blinding removed once Blind has run. *)
Unblinded(r, c) == IF pc = "done" THEN GroupAdd(table[r][c], Neg(RAND))
                                  ELSE table[r][c]

(***************************************************************************)
(* The table precompute_mul_table returns is the reference table of the  *)
(* point it was given.                                                    *)
(***************************************************************************)
TableCorrect == pc = "done" => table = ReferenceTable(point)

(***************************************************************************)
(* Within a row no two entries are equal (spec section 3, "Invariants"), *)
(* so that selecting one never hands curve_add the addend it would need  *)
(* to fail on for another digit of the same window.                      *)
(***************************************************************************)
RowEntriesDistinct ==
    pc = "done" =>
        \A r \in Rows, c1, c2 \in Cols : c1 # c2 => table[r][c1] # table[r][c2]
=============================================================================
