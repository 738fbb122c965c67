--------------------------- MODULE PublicInputs ---------------------------
(***************************************************************************)
(* The two sides of the public-input vector.  The circuit registers the  *)
(* u32 limbs of E, of the pad key and of every entry of the recovery     *)
(* code table (circuit.rs, the register_public functions); the encoder   *)
(* rebuilds the same vector from the three public points (inputs.rs,     *)
(* prepare_public_inputs), recomputing the table with precompute_mul_table.*)
(* A coordinate has U64S native u64 limbs, each split into two HALF-bit  *)
(* halves (4 limbs of 2 x 32 bits in the code).  Each half is written as *)
(* 8 little-endian bytes that the verifier reads back as one field       *)
(* element, so a half stands for the element it becomes.                 *)
(***************************************************************************)
EXTENDS MulTableParams, Sequences, SequencesExt

CONSTANTS
    HALF,       \* bits of a u32 limb (32)
    U64S        \* native u64 limbs of a base field element (4)

ASSUME EncodingAssumption ==
    /\ HALF \in Nat \ {0}
    /\ U64S \in Nat \ {0}
    /\ N <= 2^(2 * HALF * U64S)

(* Row-major (i, j) order of the table entries, as a sequence index. *)
EntryAt(tbl, n) == tbl[(n - 1) \div WIDTH][(n - 1) % WIDTH]

----------------------------------------------------------------------------
(* register_public_nonnative: the u32 limbs of the value, least first. *)
RegisterNonnative(v) == [t \in 1..(2 * U64S) |-> (v \div 2^(HALF * (t - 1))) % 2^HALF]

(* register_public_affine_point: x limbs, then y limbs. *)
RegisterAffinePoint(p) == RegisterNonnative(XCoord(p)) \o RegisterNonnative(YCoord(p))

(* register_public_mul_table: every entry, rows then columns. *)
RegisterMulTable(tbl) ==
    FlattenSeq([n \in 1..(LIMBS * WIDTH) |-> RegisterAffinePoint(EntryAt(tbl, n))])

(* Circuit::build registers E, then the pad key, then the table. *)
RegisterPublicInputs(e, pad, tbl) ==
    RegisterAffinePoint(e) \o RegisterAffinePoint(pad) \o RegisterMulTable(tbl)

----------------------------------------------------------------------------
(* The i-th native u64 limb of a field element (scalar.0[i]). *)
Limb64(v, i) == (v \div 2^(2 * HALF * i)) % 2^(2 * HALF)

(* Fault model: the high half of each u64 limb written first. *)
PrepareScalarSwapped(v) ==
    FlattenSeq([i \in 1..U64S |->
        <<Limb64(v, i - 1) \div 2^HALF, Limb64(v, i - 1) % 2^HALF>>])

(* prepare_scalar: each u64 limb as limb % 2^32, then limb / 2^32. *)
PrepareScalar(v) ==
    FlattenSeq([i \in 1..U64S |->
        <<Limb64(v, i - 1) % 2^HALF, Limb64(v, i - 1) \div 2^HALF>>])

(* prepare_affine_point: x, then y. *)
PrepareAffinePoint(p) == PrepareScalar(XCoord(p)) \o PrepareScalar(YCoord(p))

(* prepare_recovery_code_mul_table: the table of R, rebuilt and emitted. *)
PrepareMulTable(r) ==
    FlattenSeq([n \in 1..(LIMBS * WIDTH) |->
        PrepareAffinePoint(EntryAt(ReferenceTable(r), n))])

(* prepare_public_inputs: E, then the pad key, then the table of R. *)
PreparePublicInputs(e, r, pad) ==
    PrepareAffinePoint(e) \o PrepareAffinePoint(pad) \o PrepareMulTable(r)
=============================================================================
