-------------------------- MODULE MulTable_proofs --------------------------
(***************************************************************************)
(* Proofs about precompute_mul_table for every group order, number of    *)
(* windows, even window width and blinding point.                         *)
(***************************************************************************)
EXTENDS MulTable, CurveGroup_proofs

(***************************************************************************)
(* The recursive form of TableCorrect, the step of its proof: with RAND  *)
(* taken off, entry j of a row is j times the row's base, row 0's base   *)
(* is P and each later base is WIDTH times the one before.               *)
(***************************************************************************)
TableWellFormed ==
    pc = "done" =>
        /\ \A r \in Rows, c \in Cols :
               Unblinded(r, c) = ScalarTimes(c, Unblinded(r, 1))
        /\ Unblinded(0, 1) = point
        /\ \A r \in Rows \ {0} :
               Unblinded(r, 1) = ScalarTimes(WIDTH, Unblinded(r - 1, 1))

(* The loop counters as the two loops of precompute_mul_table keep them. *)
Control ==
    /\ pc = "row" => i \in Rows
    /\ pc = "fill" => i \in Rows /\ j \in 2..WIDTH
    /\ pc \in {"blind", "done"} => i = LIMBS

(* The entries the building loops have written so far. *)
Filled(r, c) == r < i \/ (r = i /\ pc = "fill" /\ c < j)

(***************************************************************************)
(* The inductive invariant: unwritten entries are still the identity the *)
(* table was allocated with, and the written ones already have the       *)
(* structure of TableWellFormed.  TableWellFormed alone is not inductive: *)
(* it says nothing before the table is done, and the steps that fill it   *)
(* read entries written earlier.                                           *)
(***************************************************************************)
IInv ==
    /\ MTTypeOK
    /\ Control
    /\ \A r \in Rows, c \in Cols : ~Filled(r, c) => table[r][c] = Identity
    /\ \A r \in Rows, c \in Cols :
           Filled(r, c) => Unblinded(r, c) = ScalarTimes(c, Unblinded(r, 1))
    /\ Filled(0, 1) => Unblinded(0, 1) = point
    /\ \A r \in Rows \ {0} :
           Filled(r, 1) => Unblinded(r, 1) = ScalarTimes(WIDTH, Unblinded(r - 1, 1))

USE TableAssumption, NAssumption

LEMMA InitIInv == MTInit => IInv
  BY DEF MTInit, IInv, MTTypeOK, Control, Filled, EmptyTable, Rows, Cols,
         Point, Identity

(* Before Blind has run, an entry is its own unblinded value. *)
LEMMA UnblindedBefore ==
    ASSUME pc # "done", NEW r, NEW c
    PROVE  Unblinded(r, c) = table[r][c]
  BY DEF Unblinded

LEMMA RowHeadIInv == IInv /\ RowHead => IInv'
  <1> SUFFICES ASSUME IInv, RowHead PROVE IInv'
    OBVIOUS
  <1> DEFINE v == IF i = 0 THEN point ELSE Double(table[i - 1][WIDTH \div 2])
  <1>1. i \in Rows /\ pc' = "fill" /\ j' = 2 /\ i' = i /\ point' = point
         /\ 1 \in Cols /\ WIDTH \div 2 \in Cols
    BY DEF IInv, Control, RowHead, Cols
  <1>2. table' = [table EXCEPT ![i][1] = v]
    BY DEF RowHead
  <1>3. v \in Point
    <2>1. CASE i = 0
      BY <2>1 DEF IInv, MTTypeOK
    <2>2. CASE i # 0
      <3>1. table[i - 1][WIDTH \div 2] \in Point
        BY <1>1, <2>2 DEF IInv, MTTypeOK, Rows, Cols
      <3>2. Double(table[i - 1][WIDTH \div 2]) \in Point
        BY <3>1, ModRange DEF Double, Point
      <3> QED
        BY <3>2, <2>2 DEF v
    <2> QED
      BY <2>1, <2>2
  <1>4. \A r \in Rows, c \in Cols : table'[r][c] = IF r = i /\ c = 1 THEN v ELSE table[r][c]
    BY <1>1, <1>2 DEF IInv, MTTypeOK, Rows, Cols
  <1>5. \A r \in Rows, c \in Cols : Filled(r, c)' <=> (r < i \/ (r = i /\ c < 2))
    BY <1>1 DEF Filled
  <1>6. \A r \in Rows, c \in Cols : Filled(r, c) <=> r < i
    BY DEF Filled, RowHead
  <1>7. \A r \in Rows, c \in Cols : Unblinded(r, c)' = table'[r][c] /\ Unblinded(r, c) = table[r][c]
    BY <1>1 DEF Unblinded, RowHead
  <1>8. MTTypeOK'
    BY <1>1, <1>3, <1>4, <1>2 DEF IInv, MTTypeOK, Rows, Cols
  <1>9. Control'
    BY <1>1 DEF Control, MTTypeOK, Rows, Cols
  <1>10. \A r \in Rows, c \in Cols : ~Filled(r, c)' => table'[r][c] = Identity
    BY <1>4, <1>5, <1>6 DEF IInv, Rows, Cols
  <1>11. \A r \in Rows, c \in Cols :
            Filled(r, c)' => Unblinded(r, c)' = ScalarTimes(c, Unblinded(r, 1)')
    <2> SUFFICES ASSUME NEW r \in Rows, NEW c \in Cols, Filled(r, c)'
                 PROVE  table'[r][c] = ScalarTimes(c, table'[r][1])
      BY <1>1, <1>7, Zenon
    <2>1. CASE r < i
      <3>1. table'[r][c] = table[r][c] /\ table'[r][1] = table[r][1]
        BY <2>1, <1>1, <1>4 DEF Rows
      <3>2. table[r][c] = ScalarTimes(c, table[r][1])
        BY <2>1, <1>1, <1>6, <1>7 DEF IInv
      <3> QED
        BY <3>1, <3>2
    <2>2. CASE r = i /\ c = 0
      <3>1. table'[r][c] = Identity /\ table'[r][1] = v
        BY <2>2, <1>4, <1>6 DEF IInv, Rows, Cols
      <3> QED
        BY <3>1, <1>3, <2>2, TimesZeroOne
    <2>3. CASE r = i /\ c = 1
      BY <2>3, <1>3, <1>4, TimesZeroOne DEF Cols
    <2> QED
      BY <2>1, <2>2, <2>3, <1>5 DEF Rows, Cols
  <1>12. Filled(0, 1)' => Unblinded(0, 1)' = point'
    <2>1. CASE i = 0
      BY <2>1, <1>1, <1>4, <1>7 DEF Rows, Cols
    <2>2. CASE i # 0
      BY <2>2, <1>1, <1>4, <1>6, <1>7 DEF IInv, Rows, Cols
    <2> QED
      BY <2>1, <2>2
  <1>13. \A r \in Rows \ {0} :
            Filled(r, 1)' => Unblinded(r, 1)' = ScalarTimes(WIDTH, Unblinded(r - 1, 1)')
    <2> SUFFICES ASSUME NEW r \in Rows \ {0}, Filled(r, 1)'
                 PROVE  table'[r][1] = ScalarTimes(WIDTH, table'[r - 1][1])
      <3>1. \A r \in Rows \ {0} : r - 1 \in Rows
        BY DEF Rows
      <3> QED
        BY <3>1, <1>1, <1>7, Zenon
    <2>1. CASE r < i
      <3>1. r - 1 \in Rows /\ 1 \in Cols
        BY DEF Rows, Cols
      <3>2. table'[r][1] = table[r][1] /\ table'[r - 1][1] = table[r - 1][1]
        BY <2>1, <3>1, <1>1, <1>4 DEF Rows
      <3>3. table[r][1] = ScalarTimes(WIDTH, table[r - 1][1])
        BY <2>1, <3>1, <1>6, <1>7 DEF IInv
      <3> QED
        BY <3>2, <3>3
    <2>2. CASE r = i
      <3>1. table'[r][1] = Double(table[r - 1][WIDTH \div 2])
        BY <2>2, <1>4 DEF Rows, Cols
      <3>2. table'[r - 1][1] = table[r - 1][1] /\ table'[r - 1][WIDTH \div 2] = table[r - 1][WIDTH \div 2]
        BY <2>2, <1>4 DEF Rows, Cols
      <3>3. table[r - 1][WIDTH \div 2] = ScalarTimes(WIDTH \div 2, table[r - 1][1])
        BY <2>2, <1>6, <1>7 DEF IInv, Rows, Cols
      <3>4. table[r - 1][1] \in Int
        BY <2>2 DEF IInv, MTTypeOK, Rows, Cols, Point
      <3> QED
        BY <3>1, <3>2, <3>3, <3>4, DoubleHalf
    <2> QED
      BY <2>1, <2>2, <1>5 DEF Rows, Cols
  <1> QED
    BY <1>8, <1>9, <1>10, <1>11, <1>12, <1>13 DEF IInv
(***************************************************************************)
(* FillEven and FillOdd both write entry j of the current row with j     *)
(* times the row's base and move to the next column.                      *)
(***************************************************************************)
LEMMA FillStepIInv ==
    ASSUME IInv, NEW w,
           pc = "fill", j < WIDTH,
           w = ScalarTimes(j, table[i][1]),
           table' = [table EXCEPT ![i][j] = w],
           j' = j + 1,
           UNCHANGED <<point, i, pc>>
    PROVE  IInv'
  <1>1. /\ i \in Rows /\ j \in Cols /\ j # 1 /\ 1 \in Cols /\ j \in 2..WIDTH
        /\ pc' = "fill" /\ i' = i /\ point' = point
    BY DEF IInv, Control, Cols
  <1>2. \A r \in Rows, c \in Cols : table'[r][c] = IF r = i /\ c = j THEN w ELSE table[r][c]
    BY <1>1 DEF IInv, MTTypeOK
  <1>3. \A r \in Rows, c \in Cols : Filled(r, c)' <=> (Filled(r, c) \/ (r = i /\ c = j))
    BY <1>1 DEF Filled, Rows, Cols
  <1>4. \A r \in Rows, c \in Cols : Unblinded(r, c)' = table'[r][c] /\ Unblinded(r, c) = table[r][c]
    BY <1>1 DEF Unblinded
  <1>5. w \in Point
    <2>1. table[i][1] \in Point
      BY <1>1 DEF IInv, MTTypeOK
    <2> QED
      BY <2>1, <1>1, ModRange DEF ScalarTimes, Point, Cols
  <1>6. MTTypeOK'
    BY <1>1, <1>5 DEF IInv, MTTypeOK, Cols
  <1>7. Control'
    BY <1>1 DEF Control
  <1>8. \A r \in Rows, c \in Cols : ~Filled(r, c)' => table'[r][c] = Identity
    BY <1>2, <1>3 DEF IInv
  <1>9. \A r \in Rows, c \in Cols :
           Filled(r, c)' => Unblinded(r, c)' = ScalarTimes(c, Unblinded(r, 1)')
    <2> SUFFICES ASSUME NEW r \in Rows, NEW c \in Cols, Filled(r, c)'
                 PROVE  table'[r][c] = ScalarTimes(c, table'[r][1])
      BY <1>1, <1>4
    <2>1. table'[r][1] = table[r][1]
      BY <1>1, <1>2
    <2>2. CASE r = i /\ c = j
      BY <2>1, <2>2, <1>2
    <2>3. CASE ~(r = i /\ c = j)
      <3>1. Filled(r, c) /\ table'[r][c] = table[r][c]
        BY <2>3, <1>2, <1>3
      <3> QED
        BY <3>1, <2>1, <1>1, <1>4 DEF IInv
    <2> QED
      BY <2>2, <2>3
  <1>10. Filled(0, 1)' => Unblinded(0, 1)' = point'
    <2>1. 0 \in Rows
      BY DEF Rows
    <2> QED
      BY <2>1, <1>1, <1>2, <1>3, <1>4 DEF IInv
  <1>11. \A r \in Rows \ {0} :
            Filled(r, 1)' => Unblinded(r, 1)' = ScalarTimes(WIDTH, Unblinded(r - 1, 1)')
    <2> SUFFICES ASSUME NEW r \in Rows \ {0}, Filled(r, 1)'
                 PROVE  table'[r][1] = ScalarTimes(WIDTH, table'[r - 1][1])
      <3>1. \A r \in Rows \ {0} : r - 1 \in Rows
        BY DEF Rows
      <3> QED
        BY <3>1, <1>1, <1>4, Zenon
    <2>1. r - 1 \in Rows
      BY DEF Rows
    <2>2. table'[r][1] = table[r][1] /\ table'[r - 1][1] = table[r - 1][1] /\ Filled(r, 1)
      BY <2>1, <1>1, <1>2, <1>3
    <2> QED
      BY <2>1, <2>2, <1>1, <1>4 DEF IInv
  <1> QED
    BY <1>6, <1>7, <1>8, <1>9, <1>10, <1>11 DEF IInv

LEMMA FillEvenIInv == IInv /\ FillEven => IInv'
  <1> SUFFICES ASSUME IInv, FillEven PROVE IInv'
    OBVIOUS
  <1>1. i \in Rows /\ j \in 2..(WIDTH - 1) /\ (j \div 2) \in Cols /\ 1 \in Cols
    BY DEF FillEven, IInv, Control, Cols
  <1>2. table[i][j \div 2] = ScalarTimes(j \div 2, table[i][1])
    <2>1. Filled(i, j \div 2) /\ pc # "done"
      BY <1>1 DEF FillEven, Filled
    <2> QED
      BY <1>1, <2>1 DEF IInv, Unblinded
  <1>3. Double(table[i][j \div 2]) = ScalarTimes(j, table[i][1])
    <2>1. table[i][1] \in Int
      BY <1>1 DEF IInv, MTTypeOK, Point
    <2> QED
      BY <1>1, <1>2, <2>1, DoubleHalf DEF FillEven
  <1> QED
    BY <1>3, FillStepIInv DEF FillEven

LEMMA FillOddIInv == IInv /\ FillOdd => IInv'
  <1> SUFFICES ASSUME IInv, FillOdd PROVE IInv'
    OBVIOUS
  <1>1. i \in Rows /\ j \in 2..(WIDTH - 1) /\ (j - 1) \in Cols /\ 1 \in Cols
    BY DEF FillOdd, IInv, Control, Cols
  <1>2. table[i][j - 1] = ScalarTimes(j - 1, table[i][1])
    <2>1. Filled(i, j - 1) /\ pc # "done"
      BY <1>1 DEF FillOdd, Filled
    <2> QED
      BY <1>1, <2>1 DEF IInv, Unblinded
  <1>3. GroupAdd(table[i][j - 1], table[i][1]) = ScalarTimes(j, table[i][1])
    <2>1. table[i][1] \in Int
      BY <1>1 DEF IInv, MTTypeOK, Point
    <2> QED
      BY <1>1, <1>2, <2>1, AddBase
  <1> QED
    BY <1>3, FillStepIInv DEF FillOdd
LEMMA NextRowIInv == IInv /\ NextRow => IInv'
  <1> SUFFICES ASSUME IInv, NextRow PROVE IInv'
    OBVIOUS
  <1>1. i \in Rows /\ j = WIDTH /\ i' = i + 1 /\ pc' \in {"row", "blind"}
        /\ UNCHANGED <<point, table, j>>
    BY DEF NextRow, IInv, Control
  <1>2. \A r \in Rows, c \in Cols : Filled(r, c)' <=> Filled(r, c)
    BY <1>1 DEF Filled, NextRow, Rows, Cols
  <1>3. \A r \in Rows, c \in Cols : Unblinded(r, c)' = Unblinded(r, c)
    BY <1>1 DEF Unblinded, NextRow
  <1>4. MTTypeOK' /\ Control'
    BY <1>1 DEF IInv, MTTypeOK, Control, NextRow, Rows
  <1>5. \A r \in Rows \ {0} : r - 1 \in Rows
    BY DEF Rows
  <1>6. 0 \in Rows /\ 1 \in Cols
    BY DEF Rows, Cols
  <1> QED
    BY <1>1, <1>2, <1>3, <1>4, <1>5, <1>6 DEF IInv

LEMMA BlindIInv == IInv /\ Blind => IInv'
  <1> SUFFICES ASSUME IInv, Blind PROVE IInv'
    OBVIOUS
  <1>1. i = LIMBS /\ pc' = "done" /\ UNCHANGED <<point, i, j>>
    BY DEF Blind, IInv, Control
  <1>2. \A r \in Rows, c \in Cols : Filled(r, c)' /\ Filled(r, c)
    BY <1>1 DEF Filled, Rows
  <1>3. \A r \in Rows, c \in Cols : table'[r][c] = GroupAdd(table[r][c], RAND)
    BY DEF Blind
  <1>4. \A r \in Rows, c \in Cols : Unblinded(r, c)' = Unblinded(r, c)
    <2> SUFFICES ASSUME NEW r \in Rows, NEW c \in Cols
                 PROVE  Unblinded(r, c)' = Unblinded(r, c)
      OBVIOUS
    <2>1. Unblinded(r, c)' = GroupAdd(GroupAdd(table[r][c], RAND), Neg(RAND))
      BY <1>1, <1>3 DEF Unblinded
    <2>2. Unblinded(r, c) = table[r][c] /\ table[r][c] \in Point
      BY DEF Blind, Unblinded, IInv, MTTypeOK
    <2>3. RAND \in Point
      OBVIOUS
    <2> QED
      BY <2>1, <2>2, <2>3, AddNegCancel
  <1>5. MTTypeOK'
    <2>1. \A r \in Rows, c \in Cols : table'[r][c] \in Point
      <3> SUFFICES ASSUME NEW r \in Rows, NEW c \in Cols
                   PROVE  table'[r][c] \in Point
        OBVIOUS
      <3>1. table[r][c] \in Int
        BY DEF IInv, MTTypeOK, Point
      <3>2. (table[r][c] + RAND) % N \in 0..(N - 1)
        BY <3>1, ModRange DEF Point
      <3> QED
        BY <3>2, <1>3 DEF GroupAdd, Point
    <2> QED
      BY <1>1, <2>1 DEF Blind, IInv, MTTypeOK
  <1>6. Control'
    BY <1>1 DEF Control
  <1>7. \A r \in Rows \ {0} : r - 1 \in Rows
    BY DEF Rows
  <1>8. 0 \in Rows /\ 1 \in Cols
    BY DEF Rows, Cols
  <1> QED
    BY <1>1, <1>2, <1>4, <1>5, <1>6, <1>7, <1>8 DEF IInv

LEMMA StutterIInv == IInv /\ UNCHANGED mtvars => IInv'
  BY DEF IInv, mtvars, MTTypeOK, Control, Filled, Unblinded

LEMMA NextIInv == IInv /\ [MTNext]_mtvars => IInv'
  BY RowHeadIInv, FillEvenIInv, FillOddIInv, NextRowIInv, BlindIInv, StutterIInv
     DEF MTNext

(* Once every row is filled, the invariant is TableWellFormed. *)
LEMMA IInvWellFormed == IInv => TableWellFormed
  <1> SUFFICES ASSUME IInv, pc = "done" PROVE TableWellFormed
    BY DEF TableWellFormed
  <1>1. \A r \in Rows, c \in Cols : Filled(r, c)
    BY DEF IInv, Control, Filled, Rows
  <1> QED
    BY <1>1 DEF IInv, TableWellFormed, Rows, Cols

(* The type invariant, as a corollary of the inductive invariant. *)
THEOREM MTTypeCorrect == MTSpec => []MTTypeOK
  <1>1. MTSpec => []IInv
    BY InitIInv, NextIInv, PTL DEF MTSpec
  <1>2. IInv => MTTypeOK
    BY DEF IInv
  <1> QED
    BY <1>1, <1>2, PTL
-----------------------------------------------------------------------------
(***************************************************************************)
(* Distinct entries per row.  Entry c of a row is c times the row's base  *)
(* plus RAND, so two entries of a row are equal only if two multipliers  *)
(* below WIDTH < N give the same multiple of the base.  That cannot      *)
(* happen when the base is not the identity, because N is prime.  So the *)
(* invariant adds that every written row base is non-zero: P is, and a   *)
(* later base is WIDTH times a non-zero base.                            *)
(***************************************************************************)
BasesNonzero == \A r \in Rows : Filled(r, 1) => Unblinded(r, 1) # Identity

DInv == IInv /\ BasesNonzero

(* An entry's unblinded value is a point. *)
LEMMA UnblindedPoint ==
    ASSUME IInv, NEW r \in Rows, NEW c \in Cols
    PROVE  Unblinded(r, c) \in Point
  <1>1. table[r][c] \in Point /\ RAND \in Int
    BY DEF IInv, MTTypeOK, Point
  <1>2. Neg(RAND) \in Point
    BY <1>1, GroupClosed
  <1>3. table[r][c] \in Int /\ Neg(RAND) \in Int
    BY <1>1, <1>2, NAssumption DEF Point
  <1>4. GroupAdd(table[r][c], Neg(RAND)) \in Point
    BY <1>3, GroupClosed
  <1> QED
    BY <1>1, <1>4 DEF Unblinded

(* A step of the loops never changes an entry written before it: the     *)
(* building steps write unwritten entries and Blind adds RAND to all.    *)
LEMMA FilledStable ==
    ASSUME IInv, MTNext, NEW r \in Rows, NEW c \in Cols, Filled(r, c)
    PROVE  Filled(r, c)' /\ Unblinded(r, c)' = Unblinded(r, c)
  <1>0. table \in [Rows -> [Cols -> Point]] /\ j \in 0..WIDTH /\ r \in Nat
        /\ c \in Nat
    BY DEF IInv, MTTypeOK, Rows, Cols
  <1>1. CASE RowHead
    <2>1. pc = "row" /\ pc' = "fill" /\ i' = i /\ i \in Rows
      BY <1>1 DEF RowHead, IInv, Control
    <2>2. r < i
      BY <2>1 DEF Filled
    <2>3. table'[r][c] = table[r][c]
      BY <1>0, <1>1, <2>1, <2>2 DEF RowHead
    <2>4. Filled(r, c)'
      BY <2>1, <2>2 DEF Filled
    <2> QED
      BY <2>1, <2>3, <2>4 DEF Unblinded
  <1>2. CASE FillEven \/ FillOdd
    <2>1. /\ pc = "fill" /\ pc' = "fill" /\ i' = i /\ j' = j + 1
          /\ i \in Rows /\ j \in Cols
      BY <1>0, <1>2 DEF FillEven, FillOdd, IInv, Control, Cols
    <2>5. \A rr \in Rows, cc \in Cols :
            ~(rr = i /\ cc = j) => table'[rr][cc] = table[rr][cc]
      BY <1>0, <1>2 DEF FillEven, FillOdd
    <2>2. r < i \/ (r = i /\ c < j)
      BY <2>1 DEF Filled
    <2>3. table'[r][c] = table[r][c]
      BY <1>0, <2>1, <2>2, <2>5
    <2>4. Filled(r, c)'
      BY <1>0, <2>1, <2>2 DEF Filled
    <2> QED
      BY <2>1, <2>3, <2>4 DEF Unblinded
  <1>4. CASE NextRow
    <2>1. /\ pc = "fill" /\ pc' # "done" /\ i' = i + 1 /\ i \in Rows
          /\ UNCHANGED table
      BY <1>4 DEF NextRow, IInv, Control
    <2>2. Filled(r, c)'
      BY <1>0, <2>1 DEF Filled, Rows
    <2> QED
      BY <2>1, <2>2 DEF Unblinded
  <1>5. CASE Blind
    <2>1. table[r][c] \in Point /\ RAND \in Point
      BY DEF IInv, MTTypeOK
    <2>2. Unblinded(r, c)' = GroupAdd(GroupAdd(table[r][c], RAND), Neg(RAND))
      BY <1>5 DEF Blind, Unblinded
    <2>3. Unblinded(r, c) = table[r][c]
      BY <1>5 DEF Blind, Unblinded
    <2>. QED
      BY <1>5, <2>1, <2>2, <2>3, AddNegCancel DEF Blind, Filled
  <1>. QED
    BY <1>1, <1>2, <1>4, <1>5 DEF MTNext

(* Only RowHead writes a row's base. *)
LEMMA NewBase ==
    ASSUME IInv, MTNext, NEW r \in Rows, ~Filled(r, 1), Filled(r, 1)'
    PROVE  RowHead /\ r = i
  <1>1. ~FillEven /\ ~FillOdd
    BY DEF FillEven, FillOdd, IInv, Control, Filled
  <1>2. ~NextRow
    <2> SUFFICES ASSUME NextRow PROVE FALSE
      OBVIOUS
    <2>1. /\ pc = "fill" /\ j = WIDTH /\ i' = i + 1 /\ pc' # "fill"
          /\ i \in Rows /\ r \in Nat
      BY DEF NextRow, IInv, Control, Rows
    <2>2. r > i
      BY <2>1 DEF Filled, Rows
    <2> QED
      BY <2>1, <2>2 DEF Filled
  <1>3. ~Blind
    BY DEF Blind, Filled
  <1>4. RowHead
    BY <1>1, <1>2, <1>3 DEF MTNext
  <1>. QED
    BY <1>4 DEF RowHead, Filled

LEMMA InitDInv == MTInit => DInv
  BY InitIInv DEF DInv, BasesNonzero, MTInit, Filled, Rows

LEMMA NextDInv == DInv /\ [MTNext]_mtvars => DInv'
  <1> SUFFICES ASSUME DInv, [MTNext]_mtvars PROVE DInv'
    OBVIOUS
  <1>1. IInv'
    BY NextIInv DEF DInv
  <1>2. CASE UNCHANGED mtvars
    BY <1>1, <1>2 DEF DInv, BasesNonzero, Filled, Unblinded, mtvars
  <1>3. CASE MTNext
    <2> SUFFICES ASSUME NEW r \in Rows, Filled(r, 1)'
                 PROVE  Unblinded(r, 1)' # Identity
      BY <1>1 DEF DInv, BasesNonzero
    <2>0. 1 \in Cols
      BY DEF Cols
    <2>1. CASE Filled(r, 1)
      BY <1>3, <2>0, <2>1, FilledStable DEF DInv, BasesNonzero
    <2>2. CASE ~Filled(r, 1)
      <3>1. RowHead /\ r = i
        BY <1>3, <2>2, NewBase DEF DInv
      <3>2. CASE r = 0
        BY <1>1, <3>2 DEF IInv, MTTypeOK, Identity
      <3>3. CASE r # 0
        <4>1. r - 1 \in Rows /\ Filled(r - 1, 1)
          BY <3>1, <3>3 DEF Rows, Filled
        <4>2. Unblinded(r - 1, 1)' = Unblinded(r - 1, 1)
          BY <1>3, <2>0, <4>1, FilledStable DEF DInv
        <4>3. Unblinded(r - 1, 1) \in Point \ {Identity}
          BY <2>0, <4>1, UnblindedPoint DEF DInv, BasesNonzero
        <4>4. Unblinded(r, 1)' = ScalarTimes(WIDTH, Unblinded(r - 1, 1))
          BY <1>1, <3>3, <4>2 DEF IInv, Rows
        <4>5. WIDTH \in 1..(N - 1) /\ Unblinded(r - 1, 1) \in 1..(N - 1)
          BY <4>3 DEF Point, Identity
        <4>. QED
          BY <4>4, <4>5, NoZeroDivisors DEF ScalarTimes, Identity
      <3>. QED
        BY <3>2, <3>3
    <2>. QED
      BY <2>1, <2>2
  <1>. QED
    BY <1>2, <1>3

LEMMA DInvDistinct == DInv => RowEntriesDistinct
  <1> SUFFICES ASSUME DInv, pc = "done",
                      NEW r \in Rows, NEW c1 \in Cols, NEW c2 \in Cols, c1 # c2,
                      table[r][c1] = table[r][c2]
               PROVE  FALSE
    BY DEF RowEntriesDistinct
  <1>1. \A c \in Cols : Filled(r, c)
    BY DEF DInv, IInv, Control, Filled, Rows
  <1>2. Unblinded(r, c1) = Unblinded(r, c2)
    BY DEF Unblinded
  <1>3. /\ Unblinded(r, c1) = ScalarTimes(c1, Unblinded(r, 1))
        /\ Unblinded(r, c2) = ScalarTimes(c2, Unblinded(r, 1))
    BY <1>1 DEF DInv, IInv
  <1>4. Unblinded(r, 1) \in Point \ {Identity}
    BY <1>1, UnblindedPoint DEF DInv, BasesNonzero, Cols
  <1>5. c1 \in 0..(N - 1) /\ c2 \in 0..(N - 1)
    BY DEF Cols
  <1>. QED
    BY <1>2, <1>3, <1>4, <1>5, ScalarTimesInjective

(***************************************************************************)
(* For every prime group order, number of windows, even width below the  *)
(* order and blinding point, no row of the table precompute_mul_table    *)
(* returns holds the same point twice, so selecting an entry of a window *)
(* determines its digit.                                                 *)
(***************************************************************************)
THEOREM RowEntriesDistinctTheorem == MTSpec => []RowEntriesDistinct
  <1>1. MTSpec => []DInv
    BY InitDInv, NextDInv, PTL DEF MTSpec
  <1> QED
    BY <1>1, DInvDistinct, PTL
-----------------------------------------------------------------------------
(***************************************************************************)
(* Correctness of the table.  The reference table is written with WIDTH^r *)
(* and the provers know nothing of ^ for a symbolic exponent (not even    *)
(* WIDTH^0 = 1).  PowerLaws names the two defining equations of ^ on Nat; *)
(* they hold for every natural WIDTH, so the hypothesis rules out no      *)
(* instance of the constants.  From them and TableWellFormed, induction  *)
(* over the rows shows that row r's base is WIDTH^r * P.                 *)
(***************************************************************************)
(* WIDTH^n, named so that the arithmetic provers see an opaque term. *)
WPow(n) == WIDTH^n

PowerLaws ==
    /\ WPow(0) = 1
    /\ \A n \in Nat : WPow(n) \in Nat /\ WPow(n + 1) = WIDTH * WPow(n)

(* The base of row r of the returned table is WPow(r) * P. *)
LEMMA BasePower ==
    ASSUME PowerLaws, IInv, pc = "done"
    PROVE  \A r \in Rows : Unblinded(r, 1) = (WPow(r) * point) % N
<1> DEFINE Bad == {r \in Rows : Unblinded(r, 1) # (WPow(r) * point) % N}
<1> SUFFICES ASSUME Bad # {} PROVE FALSE
  OBVIOUS
<1>1. Bad \subseteq Nat
  BY DEF Rows
<1>2. PICK m \in Bad : \A y \in Bad : ~(<<y, m>> \in OpToRel(<, Nat))
  BY <1>1, WFMin, NatLessThanWellFounded
<1>3. \A y \in Bad : ~(y < m)
  BY <1>1, <1>2 DEF OpToRel
<1>4. TableWellFormed
  BY IInvWellFormed
<1>5. point \in Point
  BY DEF IInv, MTTypeOK
<1>6. m # 0
  <2>1. WPow(0) * point = point
    BY <1>5 DEF PowerLaws, Point
  <2>2. (WPow(0) * point) % N = point
    BY <1>5, <2>1, PointMod
  <2> QED
    BY <1>4, <2>2 DEF TableWellFormed
<1>7. m - 1 \in Rows /\ m \in Nat /\ m - 1 \in Nat
  BY <1>6 DEF Rows
<1>8. Unblinded(m - 1, 1) = (WPow(m - 1) * point) % N
  BY <1>3, <1>7
<1>9. Unblinded(m, 1) = ScalarTimes(WIDTH, Unblinded(m - 1, 1))
  BY <1>4, <1>6 DEF TableWellFormed
<1>10. WPow(m - 1) \in Nat /\ WPow(m) = WIDTH * WPow(m - 1)
  <2>1. (m - 1) + 1 = m
    BY <1>7
  <2> QED
    BY <1>7, <2>1 DEF PowerLaws
<1>11. WPow(m - 1) * point \in Int
  BY <1>5, <1>10 DEF Point
<1>12. ScalarTimes(WIDTH, (WPow(m - 1) * point) % N)
         = (WIDTH * (WPow(m - 1) * point)) % N
  <2>0. WIDTH \in Int
    OBVIOUS
  <2>1. (WIDTH * ((WPow(m - 1) * point) % N)) % N
           = (WIDTH * (WPow(m - 1) * point)) % N
    BY <1>11, <2>0, ModTimes, Zenon
  <2> QED
    BY <2>1 DEF ScalarTimes
<1>13. WIDTH * (WPow(m - 1) * point) = WPow(m) * point
  BY <1>5, <1>10 DEF Point
<1> QED
  BY <1>8, <1>9, <1>12, <1>13

(* Taking RAND off and adding it back gives the entry. *)
LEMMA Reblind ==
    ASSUME NEW t \in Point, NEW b \in Point
    PROVE  GroupAdd(GroupAdd(t, Neg(b)), b) = t
  BY NAssumption, Z3 DEF GroupAdd, Neg, Point

(* Every state that satisfies the inductive invariant has a correct table. *)
LEMMA CorrectFromIInv ==
    ASSUME PowerLaws, IInv
    PROVE  TableCorrect
<1> SUFFICES ASSUME pc = "done" PROVE table = ReferenceTable(point)
  BY DEF TableCorrect
<1>1. table \in [Rows -> [Cols -> Point]] /\ point \in Point
  BY DEF IInv, MTTypeOK
<1>2. SUFFICES ASSUME NEW r \in Rows, NEW c \in Cols
               PROVE  table[r][c] = ReferenceTable(point)[r][c]
  BY <1>1 DEF ReferenceTable
<1>3. r \in Nat /\ c \in Nat
  BY DEF Rows, Cols
<1>4. WPow(r) \in Nat
  BY <1>3 DEF PowerLaws
<1>5. Unblinded(r, c) = ScalarTimes(c, (WPow(r) * point) % N)
  BY <1>3, IInvWellFormed, BasePower DEF TableWellFormed
<1>6. Unblinded(r, c) = (c * WPow(r) * point) % N
  <2>1. WPow(r) * point \in Int
    BY <1>1, <1>4 DEF Point
  <2>2. ScalarTimes(c, (WPow(r) * point) % N) = (c * (WPow(r) * point)) % N
    BY <1>3, <2>1, ModTimes DEF ScalarTimes
  <2>3. c * (WPow(r) * point) = c * WPow(r) * point
    BY <1>1, <1>3, <1>4 DEF Point
  <2> QED
    BY <1>5, <2>2, <2>3
<1>7. table[r][c] = GroupAdd(Unblinded(r, c), RAND)
  <2>1. table[r][c] \in Point /\ RAND \in Point
    BY <1>1
  <2> QED
    BY <2>1, Reblind DEF Unblinded
<1>8. GroupAdd((c * WPow(r) * point) % N, RAND) = (c * WPow(r) * point + RAND) % N
  <2>1. c * WPow(r) * point \in Int /\ RAND \in Int
    BY <1>1, <1>3, <1>4 DEF Point
  <2> QED
    BY <2>1, ModPlus DEF GroupAdd
<1>9. ReferenceTable(point)[r][c] = (c * WPow(r) * point + RAND) % N
  BY DEF ReferenceTable, WPow
<1> QED
  BY <1>6, <1>7, <1>8, <1>9

(***************************************************************************)
(* precompute_mul_table returns the reference table of its point: entry  *)
(* (r, c) is c * WPow(r) * P + RAND, for every group order, number of    *)
(* windows, even width and blinding point, given the laws of ^.          *)
(***************************************************************************)
THEOREM TableCorrectTheorem == PowerLaws => (MTSpec => []TableCorrect)
<1> SUFFICES ASSUME PowerLaws PROVE MTSpec => []TableCorrect
  OBVIOUS
<1>1. MTSpec => []IInv
  BY InitIInv, NextIInv, PTL DEF MTSpec
<1>2. IInv => TableCorrect
  BY CorrectFromIInv
<1> QED
  BY <1>1, <1>2, PTL
=============================================================================
