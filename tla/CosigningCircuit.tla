------------------------- MODULE CosigningCircuit -------------------------
(***************************************************************************)
(* One proof of the cosigning-key circuit (circuit.rs, Circuit::build),   *)
(* from the witness to the verifier's verdict.  The prover's witness is   *)
(* the private key d, the two public-key targets E and Pad and the table *)
(* target of the recovery code key (set_inputs witnesses the table of the *)
(* R it is given; a dishonest prover may witness the table of any point  *)
(* X).  Proving evaluates the circuit's constraints in the order build   *)
(* adds them; every scalar_mul is abstracted by its contract             *)
(* (ScalarMulContract, which ScalarMul is checked to implement): k * P or *)
(* unsatisfiable.  The verifier accepts exactly when the proof's public  *)
(* inputs are the vector the encoder builds from its own E, R and Pad,   *)
(* which is what the soundness of the proof system gives.                *)
(***************************************************************************)
EXTENDS PadHash, PublicInputs

(* The generator G, the point 1 * G. *)
G == 1

(* A point whose table has an entry at infinity has no affine table: the *)
(* spec rules such points out (section 9), and so does the model.        *)
TableBase == {p \in Point \ {Identity} :
                 \A r \in Rows, c \in Cols : ReferenceTable(p)[r][c] # Identity}

VARIABLES
    vin,        \* VerifierInputs: [E, R, Pad]
    wit,        \* the prover's witness: [d, E, Pad, X] (X: point of the table)
    shared,     \* the shared_key wire
    padScalar,  \* the pad_private_as_scalar_field wire
    stage       \* "eph", "shared", "hash", "pad", "proved", "unsat",
                \* "accepted" or "rejected"

cvars == <<vin, wit, shared, padScalar, stage>>

(* prove rejects a private key outside [1, q) and the identity as a point. *)
CInit ==
    /\ vin \in [E : Point \ {Identity}, R : TableBase, Pad : Point \ {Identity}]
    /\ wit \in [d : 1..(N - 1), E : Point \ {Identity}, Pad : Point \ {Identity},
                X : TableBase]
    /\ shared = Identity
    /\ padScalar = 0
    /\ stage = "eph"

(* assert_public_key_matches_with_private_key(G table, d, E) *)
AssertEphemeral ==
    /\ stage = "eph"
    /\ \/ stage' = IF ScalarTimes(wit.d, G) = wit.E THEN "shared" ELSE "unsat"
       \/ stage' = "unsat"
    /\ UNCHANGED <<vin, wit, shared, padScalar>>

(* Fault model: the shared key multiplied on the basepoint table. *)
ComputeSharedBaseTable ==
    /\ stage = "shared"
    /\ \/ /\ shared' = ScalarTimes(wit.d, G)
          /\ stage' = "hash"
       \/ /\ stage' = "unsat"
          /\ UNCHANGED shared
    /\ UNCHANGED <<vin, wit, padScalar>>

(* shared_key = scalar_mul(recovery_code_mul_table, d) *)
ComputeShared ==
    /\ stage = "shared"
    /\ \/ /\ shared' = ScalarTimes(wit.d, wit.X)
          /\ stage' = "hash"
       \/ /\ stage' = "unsat"
          /\ UNCHANGED shared
    /\ UNCHANGED <<vin, wit, padScalar>>

(* x bits, SHA-256, bits_be_to_biguint_target, reduce *)
HashPad ==
    /\ stage = "hash"
    /\ padScalar' = PadScalar(shared)
    /\ stage' = "pad"
    /\ UNCHANGED <<vin, wit, shared>>

(* assert_public_key_matches_with_private_key(G table, pad scalar, Pad) *)
AssertPad ==
    /\ stage = "pad"
    /\ \/ stage' = IF ScalarTimes(padScalar, G) = wit.Pad THEN "proved" ELSE "unsat"
       \/ stage' = "unsat"
    /\ UNCHANGED <<vin, wit, shared, padScalar>>

(* verify: the proof's registered inputs against prepare_public_inputs *)
Verify ==
    /\ stage = "proved"
    /\ stage' = IF RegisterPublicInputs(wit.E, wit.Pad, ReferenceTable(wit.X))
                     = PreparePublicInputs(vin.E, vin.R, vin.Pad)
                THEN "accepted" ELSE "rejected"
    /\ UNCHANGED <<vin, wit, shared, padScalar>>

CNext == AssertEphemeral \/ ComputeShared \/ HashPad \/ AssertPad \/ Verify

CSpec == CInit /\ [][CNext]_cvars

-----------------------------------------------------------------------------
(* Type of every variable. *)
CTypeOK ==
    /\ vin \in [E : Point \ {Identity}, R : TableBase, Pad : Point \ {Identity}]
    /\ wit \in [d : 1..(N - 1), E : Point \ {Identity}, Pad : Point \ {Identity},
                X : TableBase]
    /\ shared \in Point
    /\ padScalar \in Point
    /\ stage \in {"eph", "shared", "hash", "pad", "proved", "unsat",
                  "accepted", "rejected"}

(* The relation the proof attests (spec section 1). *)
Related(v) ==
    \E d \in 1..(N - 1) :
        /\ ScalarTimes(d, G) = v.E
        /\ ScalarTimes(ReferencePadScalar(ScalarTimes(d, v.R)), G) = v.Pad

(***************************************************************************)
(* Soundness: whatever witness the prover chose, a proof the verifier    *)
(* accepts for (E, R, Pad) shows a d with E = d * G and                   *)
(* Pad = H(x(d * R)) * G.  It rests on the circuit binding the table it  *)
(* multiplies by to R through the public inputs, and on the pad hash    *)
(* being the spec's.                                                     *)
(***************************************************************************)
Soundness == stage = "accepted" => Related(vin)

(***************************************************************************)
(* The honest prover's proofs verify: the vector the circuit registers   *)
(* and the one the encoder builds from the same points are equal (spec   *)
(* section 4.D-E, "identical between prover and verifier").             *)
(***************************************************************************)
HonestProofsVerify ==
    (stage = "rejected") => ~(wit.E = vin.E /\ wit.Pad = vin.Pad /\ wit.X = vin.R)

(***************************************************************************)
(* The pad scalar the circuit derives from the shared key is the spec's  *)
(* H(x(S)) mod q, through the bit reversal of the message wiring, the    *)
(* bit order within a limb and the reversal of the limbs.                *)
(***************************************************************************)
PadScalarMatchesReference ==
    stage \in {"pad", "proved", "accepted", "rejected"} =>
        padScalar = ReferencePadScalar(shared)
=============================================================================
