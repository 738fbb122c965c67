----------------------------- MODULE ScalarMul -----------------------------
(***************************************************************************)
(* The scalar_mul gadget of CircuitBuilderFixed (point_mul.rs) run on the *)
(* table precompute_mul_table builds: the MulTable steps build the table, *)
(* then the gadget splits the scalar into WIDTH-ary digits, pads them to  *)
(* LIMBS windows, selects one blinded entry per window and adds them to   *)
(* ANOTHER_RAND with curve_add, then adds -ANOTHER_RAND and the table's   *)
(* correction -LIMBS * RAND.  Every curve_add either adds, or, when its   *)
(* operands share an x coordinate, leaves the circuit unsatisfiable.      *)
(***************************************************************************)
EXTENDS MulTable

CONSTANTS
    ANOTHER_RAND,   \* the starting point decoded by get_another_rand
    SPLIT           \* digits split_nonnative_to_4_bit_limbs returns (64)

ASSUME GadgetAssumption ==
    /\ ANOTHER_RAND \in Point \ {Identity}
    /\ SPLIT \in 1..LIMBS
    /\ LIMBS % N # 0

VARIABLES
    k,          \* the value of the non-native scalar target
    digits,     \* value_as_4bits_limbs_padded
    addends,    \* the entry random_access_curve_points selects per window
    w,          \* the window the accumulation loop is at
    sum,        \* the accumulator wire
    gpc         \* "idle", "split", "select", "add", "correct", "done",
                \* "unsat" or "undefined"

gvars == <<k, digits, addends, w, sum, gpc>>
vars == <<mtvars, gvars>>

Windows == 0..(LIMBS - 1)

(* A scalar witness is any value of the limbs the split reads. *)
Scalars == 0..(WIDTH^SPLIT - 1)

(* The value of a little-endian vector of digits. *)
DigitsValue(d) ==
    LET val[t \in 0..SPLIT] ==
            IF t = 0 THEN 0 ELSE val[t - 1] + d[t] * WIDTH^(t - 1)
    IN  val[SPLIT]

(* pad_4bits_limbs_to_256bits: append zero digits up to 64 windows. *)
PadDigits(d) == [t \in Windows |-> IF t < SPLIT THEN d[t + 1] ELSE 0]

(* Fault model: a correction for one window fewer. *)
CorrectionOffByOne == ScalarTimes((N - ((LIMBS - 1) % N)) % N, RAND)

(* The correction (-LIMBS mod q) * RAND of add_*_mul_table_target. *)
Correction == ScalarTimes((N - (LIMBS % N)) % N, RAND)

GInit ==
    /\ MTInit
    /\ k \in Scalars
    /\ digits = [t \in Windows |-> 0]
    /\ addends = [t \in Windows |-> Identity]
    /\ w = 0
    /\ sum = Identity
    /\ gpc = "idle"

(***************************************************************************)
(* The table is in the circuit.  An entry that is the point at infinity   *)
(* has no affine coordinates: the spec rules such tables out (section 9), *)
(* and the model stops them in "undefined".                               *)
(***************************************************************************)
Start ==
    /\ pc = "done"
    /\ gpc = "idle"
    /\ gpc' = IF \E r \in Rows, c \in Cols : table[r][c] = Identity
                 THEN "undefined" ELSE "split"
    /\ UNCHANGED <<mtvars, k, digits, addends, w, sum>>

(* Fault model: digits range-checked to WIDTH inclusive. *)
SplitDigitBound ==
    /\ gpc = "split"
    /\ \E d \in [1..SPLIT -> 0..WIDTH] :
           /\ DigitsValue(d) = k
           /\ digits' = PadDigits(d)
    /\ gpc' = "select"
    /\ UNCHANGED <<mtvars, k, addends, w, sum>>

(***************************************************************************)
(* split_nonnative_to_4_bit_limbs constrains SPLIT range-checked digits   *)
(* whose value is the scalar's; pad_4bits_limbs_to_256bits pads them.    *)
(***************************************************************************)
Split ==
    /\ gpc = "split"
    /\ \E d \in [1..SPLIT -> 0..(WIDTH - 1)] :
           /\ DigitsValue(d) = k
           /\ digits' = PadDigits(d)
    /\ gpc' = "select"
    /\ UNCHANGED <<mtvars, k, addends, w, sum>>

(* random_access_curve_points per window; sum = constant ANOTHER_RAND *)
Select ==
    /\ gpc = "select"
    /\ addends' = [t \in Windows |-> table[t][digits[t]]]
    /\ sum' = ANOTHER_RAND
    /\ w' = 0
    /\ gpc' = "add"
    /\ UNCHANGED <<mtvars, k, digits>>

(* One curve_add of the accumulator and b, then go on to step next. *)
CurveAdd(b, next) ==
    \/ /\ ~SameX(sum, b)
       /\ sum' = GroupAdd(sum, b)
       /\ gpc' = next
    \/ /\ SameX(sum, b)
       /\ gpc' = "unsat"
       /\ UNCHANGED sum

(* for addend in addends { sum = curve_add(sum, addend) } *)
AddWindow ==
    /\ gpc = "add"
    /\ w < LIMBS
    /\ CurveAdd(addends[w], "add")
    /\ w' = w + 1
    /\ UNCHANGED <<mtvars, k, digits, addends>>

(* Fault model: ANOTHER_RAND added again instead of its negation. *)
AddNegRandSign ==
    /\ gpc = "add"
    /\ w = LIMBS
    /\ CurveAdd(ANOTHER_RAND, "correct")
    /\ UNCHANGED <<mtvars, k, digits, addends, w>>

(* sum = curve_add(sum, neg_rand) *)
AddNegRand ==
    /\ gpc = "add"
    /\ w = LIMBS
    /\ CurveAdd(Neg(ANOTHER_RAND), "correct")
    /\ UNCHANGED <<mtvars, k, digits, addends, w>>

(* sum = curve_add(sum, table.correction) *)
AddCorrection ==
    /\ gpc = "correct"
    /\ CurveAdd(Correction, "done")
    /\ UNCHANGED <<mtvars, k, digits, addends, w>>

GNext ==
    \/ MTNext /\ UNCHANGED gvars
    \/ Start \/ Split \/ Select \/ AddWindow \/ AddNegRand \/ AddCorrection

GSpec == GInit /\ [][GNext]_vars

-----------------------------------------------------------------------------
(* Type of every variable of the gadget. *)
GTypeOK ==
    /\ MTTypeOK
    /\ k \in Scalars
    /\ digits \in [Windows -> 0..(WIDTH - 1)]
    /\ addends \in [Windows -> Point]
    /\ w \in 0..LIMBS
    /\ sum \in Point
    /\ gpc \in {"idle", "split", "select", "add", "correct", "done", "unsat",
                "undefined"}

(***************************************************************************)
(* The gadget implements its contract: its output wire, once computed, is *)
(* k * P for the point P whose table it read, whatever the scalar witness *)
(* (also one of the values >= q the limbs can hold); the only other end   *)
(* is an unsatisfiable circuit.                                           *)
(***************************************************************************)
Contract == INSTANCE ScalarMulContract WITH
    base <- point,
    scalar <- k,
    out <- CASE gpc = "done" -> <<"ok", sum>>
             [] gpc = "unsat" -> <<"unsat", Identity>>
             [] OTHER -> <<"pending", Identity>>

ImplementsContract == Contract!CSpec

(***************************************************************************)
(* A scalar that is 0 modulo q is never multiplied: the final curve_add   *)
(* meets LIMBS * RAND and its opposite, the correction (spec 4.C, "k = 0 *)
(* ... the gadget does not support this input").                          *)
(***************************************************************************)
ZeroScalarUnsat == (k % N = 0) => gpc # "done"
=============================================================================
