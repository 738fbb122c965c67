-------------------------- MODULE ScalarMul_proofs --------------------------
(***************************************************************************)
(* Type correctness of the scalar_mul gadget composed with the table     *)
(* precomputation, for every value of the constants.  The table's half   *)
(* rests on the inductive invariant IInv of MulTable_proofs; the         *)
(* gadget's steps leave the table alone, and the table's steps leave the *)
(* gadget alone.                                                          *)
(***************************************************************************)
EXTENDS ScalarMul, MulTable_proofs

(* The gadget's variables in their types. *)
GadgetTyped ==
    /\ k \in Scalars
    /\ digits \in [Windows -> 0..(WIDTH - 1)]
    /\ addends \in [Windows -> Point]
    /\ w \in 0..LIMBS
    /\ sum \in Point
    /\ gpc \in {"idle", "split", "select", "add", "correct", "done", "unsat",
                "undefined"}

GIInv == IInv /\ GadgetTyped

USE GadgetAssumption, TableAssumption, NAssumption

LEMMA GInitGIInv == GInit => GIInv
<1> SUFFICES ASSUME GInit PROVE GIInv
  OBVIOUS
<1>1. IInv
  BY InitIInv DEF GInit
<1>2. 0 \in 0..(WIDTH - 1) /\ Identity \in Point
  BY DEF Identity, Point
<1>. QED
  BY <1>1, <1>2 DEF GInit, GIInv, GadgetTyped

(* A curve_add keeps the accumulator a point, whichever way it ends. *)
LEMMA CurveAddTyped ==
    ASSUME NEW b \in Int, NEW nxt, sum \in Point, CurveAdd(b, nxt)
    PROVE  sum' \in Point
<1>1. CASE sum' = GroupAdd(sum, b)
  BY <1>1, GroupClosed DEF Point
<1>. QED
  BY <1>1 DEF CurveAdd

(* The table steps leave the gadget's variables alone. *)
LEMMA TableStepGIInv == GIInv /\ [MTNext]_mtvars /\ UNCHANGED gvars => GIInv'
BY NextIInv DEF GIInv, GadgetTyped, gvars

LEMMA SplitGIInv == GIInv /\ Split => GIInv'
<1> SUFFICES ASSUME GIInv, Split PROVE GIInv'
  OBVIOUS
<1>1. PICK d \in [1..SPLIT -> 0..(WIDTH - 1)] : digits' = PadDigits(d)
  BY DEF Split
<1>2. PadDigits(d) \in [Windows -> 0..(WIDTH - 1)]
  BY TableAssumption DEF PadDigits, Windows
<1>. QED
  BY <1>1, <1>2, StutterIInv DEF Split, GIInv, GadgetTyped

LEMMA SelectGIInv == GIInv /\ Select => GIInv'
<1> SUFFICES ASSUME GIInv, Select PROVE GIInv'
  OBVIOUS
<1>1. table \in [Rows -> [Cols -> Point]] /\ digits \in [Windows -> Cols]
  BY DEF GIInv, IInv, MTTypeOK, GadgetTyped, Cols
<1>2. [t \in Windows |-> table[t][digits[t]]] \in [Windows -> Point]
  BY <1>1 DEF Windows, Rows
<1>3. ANOTHER_RAND \in Point /\ 0 \in 0..LIMBS
  BY TableAssumption
<1>. QED
  BY <1>2, <1>3, StutterIInv DEF Select, GIInv, GadgetTyped

LEMMA AddWindowGIInv == GIInv /\ AddWindow => GIInv'
<1> SUFFICES ASSUME GIInv, AddWindow PROVE GIInv'
  OBVIOUS
<1>1. w \in Windows /\ addends \in [Windows -> Point] /\ sum \in Point
  BY DEF AddWindow, GIInv, GadgetTyped, Windows
<1>2. sum' \in Point
  BY <1>1, CurveAddTyped DEF AddWindow, Point
<1>3. gpc' \in {"add", "unsat"}
  BY DEF AddWindow, CurveAdd
<1>. QED
  BY <1>2, <1>3, StutterIInv DEF AddWindow, GIInv, GadgetTyped

LEMMA AddNegRandGIInv == GIInv /\ AddNegRand => GIInv'
<1> SUFFICES ASSUME GIInv, AddNegRand PROVE GIInv'
  OBVIOUS
<1>1. Neg(ANOTHER_RAND) \in Int /\ sum \in Point
  BY DEF Neg, GIInv, GadgetTyped, Point
<1>2. sum' \in Point
  BY <1>1, CurveAddTyped DEF AddNegRand
<1>3. gpc' \in {"correct", "unsat"}
  BY DEF AddNegRand, CurveAdd
<1>. QED
  BY <1>2, <1>3, StutterIInv DEF AddNegRand, GIInv, GadgetTyped

LEMMA AddCorrectionGIInv == GIInv /\ AddCorrection => GIInv'
<1> SUFFICES ASSUME GIInv, AddCorrection PROVE GIInv'
  OBVIOUS
<1>1. Correction \in Int /\ sum \in Point
  BY DEF Correction, ScalarTimes, GIInv, GadgetTyped, Point
<1>2. sum' \in Point
  BY <1>1, CurveAddTyped DEF AddCorrection
<1>3. gpc' \in {"done", "unsat"}
  BY DEF AddCorrection, CurveAdd
<1>. QED
  BY <1>2, <1>3, StutterIInv DEF AddCorrection, GIInv, GadgetTyped

LEMMA GNextGIInv == GIInv /\ [GNext]_vars => GIInv'
<1> SUFFICES ASSUME GIInv, [GNext]_vars PROVE GIInv'
  OBVIOUS
<1>1. CASE MTNext /\ UNCHANGED gvars
  BY <1>1, TableStepGIInv
<1>2. CASE Start
  BY <1>2, StutterIInv DEF Start, GIInv, GadgetTyped
<1>3. CASE UNCHANGED vars
  BY <1>3, StutterIInv DEF vars, gvars, GIInv, GadgetTyped
<1>. QED
  BY <1>1, <1>2, <1>3, SplitGIInv, SelectGIInv, AddWindowGIInv,
     AddNegRandGIInv, AddCorrectionGIInv DEF GNext

(***************************************************************************)
(* For every group order, window shape, blinding points and digit count, *)
(* the gadget run on a precomputed table keeps every wire in its type:   *)
(* the padded digits index the table's columns and the accumulator stays *)
(* a point through every curve_add.                                      *)
(***************************************************************************)
THEOREM GTypeCorrect == GSpec => []GTypeOK
<1>1. GIInv => GTypeOK
  BY DEF GIInv, IInv, GadgetTyped, GTypeOK
<1>. QED
  BY <1>1, GInitGIInv, GNextGIInv, PTL DEF GSpec
-----------------------------------------------------------------------------
(***************************************************************************)
(* The accumulator stays affine, a step of the zero-scalar proof below:  *)
(* from ANOTHER_RAND on, every successful curve_add has operands that    *)
(* are not opposite, so over a prime order the sum is never the point at *)
(* infinity.  Together with the typing invariant this is inductive.      *)
(***************************************************************************)
SumAffine == gpc \in {"add", "correct", "done"} => sum # Identity

AInv == GIInv /\ SumAffine

(* The sum of a non-identity point and a point that is not opposite to  *)
(* it (or equal) is not the identity.                                    *)
LEMMA AffineAdd ==
    ASSUME NEW a \in Point \ {Identity}, NEW b \in Point, ~SameX(a, b)
    PROVE  GroupAdd(a, b) # Identity
<1> SUFFICES ASSUME (a + b) % N = 0 PROVE FALSE
  BY DEF GroupAdd, Identity
<1>1. a + b = N
  BY NAssumption, Z3 DEF Point, Identity
<1>2. a = Neg(b)
  BY <1>1, NAssumption, Z3 DEF Neg, Point, Identity
<1> QED
  BY <1>2 DEF SameX

(* A curve_add from an affine accumulator ends affine, or unsatisfiable. *)
LEMMA CurveAddAffine ==
    ASSUME NEW b \in Point, NEW nxt, sum \in Point \ {Identity}, CurveAdd(b, nxt)
    PROVE  \/ gpc' = nxt /\ sum' \in Point \ {Identity}
           \/ gpc' = "unsat"
<1>1. CASE ~SameX(sum, b) /\ sum' = GroupAdd(sum, b) /\ gpc' = nxt
  <2>1. sum' \in Point
    BY <1>1, GroupClosed DEF Point
  <2>2. sum' # Identity
    BY <1>1, AffineAdd
  <2> QED
    BY <1>1, <2>1, <2>2
<1> QED
  BY <1>1 DEF CurveAdd

LEMMA GInitAInv == GInit => AInv
  BY GInitGIInv DEF GInit, AInv, SumAffine

LEMMA GNextAInv == AInv /\ [GNext]_vars => AInv'
<1> SUFFICES ASSUME AInv, [GNext]_vars PROVE AInv'
  OBVIOUS
<1>0. GIInv'
  BY GNextGIInv DEF AInv
<1> SUFFICES SumAffine'
  BY <1>0 DEF AInv
<1>1. sum \in Point /\ addends \in [Windows -> Point]
  BY DEF AInv, GIInv, GadgetTyped
<1>2. CASE MTNext /\ UNCHANGED gvars
  BY <1>2 DEF AInv, SumAffine, gvars
<1>3. CASE Start \/ Split
  BY <1>3 DEF Start, Split, SumAffine
<1>4. CASE Select
  BY <1>4 DEF Select, SumAffine
<1>5. CASE AddWindow
  <2>1. addends[w] \in Point /\ sum \in Point \ {Identity}
    BY <1>1, <1>5 DEF AddWindow, AInv, GIInv, GadgetTyped, SumAffine, Windows
  <2> QED
    BY <1>5, <2>1, CurveAddAffine DEF AddWindow, SumAffine
<1>6. CASE AddNegRand
  <2>1. Neg(ANOTHER_RAND) \in Point /\ sum \in Point \ {Identity}
    BY <1>1, <1>6, GroupClosed DEF AddNegRand, AInv, SumAffine, Point
  <2> QED
    BY <1>6, <2>1, CurveAddAffine DEF AddNegRand, SumAffine
<1>7. CASE AddCorrection
  <2>1. Correction \in Point /\ sum \in Point \ {Identity}
    BY <1>1, <1>7, GroupClosed DEF Correction, AddCorrection, AInv, SumAffine,
       Point
  <2> QED
    BY <1>7, <2>1, CurveAddAffine DEF AddCorrection, SumAffine
<1>8. CASE UNCHANGED vars
  BY <1>8 DEF AInv, SumAffine, vars, gvars
<1> QED
  BY <1>2, <1>3, <1>4, <1>5, <1>6, <1>7, <1>8 DEF GNext

-----------------------------------------------------------------------------
(***************************************************************************)
(* The zero scalar.  Whatever the gadget's output law, its output is     *)
(* affine (SumAffine), and the contract (ImplementsContract, which TLC   *)
(* checks on the instances of MC_ScalarMul) says that output is k * P.  *)
(* For k = 0 mod q that is the point at infinity, so the two together   *)
(* leave only the unsatisfiable end.                                     *)
(***************************************************************************)

(* Under the refinement mapping, the contract's output is pending, k * P *)
(* or unsatisfiable in every state of a run that implements it.          *)
LEMMA ContractOut == ImplementsContract => []Contract!OutOK
<1>1. Contract!CInit => Contract!OutOK
  BY DEF Contract!CInit, Contract!OutOK
<1>2. Contract!OutOK /\ [Contract!Return]_Contract!cvars => Contract!OutOK'
  BY DEF Contract!OutOK, Contract!Return, Contract!cvars
<1> QED
  BY <1>1, <1>2, PTL DEF ImplementsContract, Contract!CSpec

(* A multiple of q times any point is the identity. *)
LEMMA ZeroTimes ==
    ASSUME NEW x \in Int, NEW p \in Int, x % N = 0
    PROVE  ScalarTimes(x, p) = Identity
<1>1. x \div N \in Int /\ x = N * (x \div N)
  BY ModDecomp
<1>2. (x \div N) * p \in Int /\ x * p = N * ((x \div N) * p)
  BY <1>1, NAssumption, Z3
<1> QED
  BY <1>2, MultipleMod DEF ScalarTimes, Identity

LEMMA ZeroFromOut == AInv /\ Contract!OutOK => ZeroScalarUnsat
<1> SUFFICES ASSUME AInv, Contract!OutOK, k % N = 0, gpc = "done" PROVE FALSE
  BY DEF ZeroScalarUnsat
<1>1. sum = ScalarTimes(k, point)
  BY DEF Contract!OutOK, Contract!ScalarTimes, Contract!Identity, ScalarTimes,
         Identity
<1>2. k \in Int /\ point \in Int
  BY DEF AInv, GIInv, GadgetTyped, Scalars, IInv, MTTypeOK, Point
<1>3. sum # Identity
  BY DEF AInv, SumAffine
<1> QED
  BY <1>1, <1>2, <1>3, ZeroTimes

(***************************************************************************)
(* For every value of the constants: in a run of the gadget on its table *)
(* that implements the scalar_mul contract, a scalar that is 0 mod q     *)
(* never reaches "done" -- the circuit is unsatisfiable, as spec 4.C      *)
(* says.  The contract is the one hypothesis only model-checked.        *)
(***************************************************************************)
THEOREM ZeroScalarUnsatTheorem == GSpec /\ ImplementsContract => []ZeroScalarUnsat
<1>1. GSpec => []AInv
  BY GInitAInv, GNextAInv, PTL DEF GSpec
<1>. QED
  BY <1>1, ContractOut, ZeroFromOut, PTL

=============================================================================
