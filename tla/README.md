# Formal model of the cosigning-key validation circuit

This directory holds TLA+ models of the plonky2 circuit in
`src/prover/libs/plonky2-cosigning-key-validation/` and of its encoder. It has
the TLC configurations that check the models on small instances, and TLAPS
proofs for all values of the constants: of the multiplication table's
structure, of the gadget's typing, and of the FFI entry point's verdict and
silence under any interleaving of callers.

## The system

A server proves that it knows a secret scalar `d` with

* `E = d * G` (the ephemeral public key), and
* `Pad = H(x(d * R)) * G`, where `R` is the recovery code key and
  `H(x) = SHA-256(big-endian x) mod q`.

It proves this without revealing `d`. The parts, and how they interact:

| part | source | role |
|---|---|---|
| table precomputation | `curve/point_mul.rs` `precompute_mul_table`, `get_rand` | out of circuit: the table `T[i][j] = j * 16^i * P + RAND` for 64 windows of 16 entries |
| scalar multiplication gadget | `curve/point_mul.rs` `CircuitBuilderFixed` | in circuit: splits `k` into 4-bit digits, picks one table entry per window and adds them with the incomplete `curve_add`, starting from `ANOTHER_RAND`. It then removes `ANOTHER_RAND` and the blinding with the correction `-64 * RAND` |
| relation circuit | `circuit.rs` `Circuit::build` | asserts `d * G = E`, computes `S = d * R` on the witnessed table of R, hashes `x(S)` with SHA-256, reduces the digest mod q and asserts `h * G = Pad`. It registers E, Pad and the table of R as public inputs |
| witness and encoder | `inputs.rs` | `set_inputs` witnesses d, E, Pad and the table of R. `prepare_public_inputs` rebuilds the public-input vector from E, R and Pad |
| FFI | `libwallet/librs/bindings` | C entry point for verify: installs a panic hook, catches panics and returns a string |
| generator | `libwallet/librs/generate` | writes the verifier data and a test proof to files |

There is no concurrency in the core (spec section 5). The FFI entry point
can be called from several threads at once, and it changes process-wide
state: the panic hook. The hard behaviours are
these:

* the exceptional cases of incomplete addition;
* the zero scalar;
* the blinding constants, which must cancel exactly;
* the bit order and limb order between the SHA-256 gadget and the big integers;
* the order and layout of the public inputs, on the two sides that must agree;
* the witnessed table, which nothing in the circuit checks except its
  publication as a public input.

## Modules

* `CurveGroup`: the group abstraction. secp256k1 has prime order q and is
  generated by G, so a point is represented by its discrete logarithm modulo
  `N` (which stands for q), and the identity by 0. `GroupAdd`, `Double`, `Neg`
  and `ScalarTimes` are what the k256 and plonky2_ecdsa operations compute.
  `SameX(a, b)` is the case where `curve_add` is unsatisfiable (equal or
  opposite points). `XCoord` and `YCoord` are affine coordinates: opposite
  points share x.
* `MulTableParams`: the constants LIMBS, WIDTH and RAND, and the
  `ReferenceTable` the code must produce.
* `MulTable`: `precompute_mul_table`. Its state is the table, the loop indices
  `i` and `j`, and `pc`. Its actions are `RowHead` (lines 38-43), `FillEven`
  and `FillOdd` (44-50), `NextRow` (end of the outer loop) and `Blind` (57-100:
  add RAND to every entry, batch-normalise, convert). Blinding, normalisation
  and conversion act on every entry independently, so together they form one
  step.
* `ScalarMulContract`: what `scalar_mul` promises. It either outputs `k * P`
  or is unsatisfiable.
* `ScalarMul`: the gadget, run on a table built by `MulTable`. Its actions:
  * `Start`: the table is in the circuit, or is undefined if an entry is at
    infinity.
  * `Split`: the digit split is the range-checked sum constraint, so any
    witness value of the limbs, including values of at least q.
  * `Select`: `random_access_curve_points` and the initial sum
    `ANOTHER_RAND`.
  * `AddWindow`, `AddNegRand` and `AddCorrection`: each is a `curve_add`
    (`CurveAdd`), which either adds or, on `SameX`, ends in "unsat".

  `ImplementsContract` instantiates `ScalarMulContract` with the refinement
  mapping `base <- point`, `scalar <- k`, and `out` given by the gadget's end
  state.
* `PadHash`: the bit plumbing of `assert_public_pad_is_correct`:
  * `split_nonnative_to_bits` (little-endian bits);
  * the wiring `message[255 - i] = x_bits[i]`;
  * `bits_be_to_biguint_target` (chunks of 32, each read most significant bit
    first, then `.rev()`);
  * `reduce`.

  SHA-256 is library code and is a fixed function `Sha`. The spec's reference
  `ReferencePadScalar` is defined independently: big-endian encoding in,
  big-endian integer out.
* `PublicInputs`: both sides of the public-input vector. `RegisterPublicInputs`
  follows `Circuit::build` and the `register_public_*` functions: the u32
  limbs of a nonnative value, least significant first.
  `PreparePublicInputs` follows `prepare_public_inputs` and `prepare_scalar`:
  each u64 limb as `limb % 2^32`, then `limb / 2^32`. The 8-byte little-endian
  writing of a half, and the verifier reading it back as a field element, are
  outside `src/`. They are taken as the value itself.
* `CosigningCircuit`: one proof from witness to verdict.
  * `CInit` chooses the verifier's inputs and any witness: an honest prover's
    (`E`, `Pad`, the table of `R`), or a dishonest prover's (any `d`, any `E`
    and `Pad`, the table of any point `X`).
  * The actions are the circuit's constraints in the order `build` adds them:
    `AssertEphemeral`, `ComputeShared`, `HashPad` and `AssertPad`. Each
    `scalar_mul` is used through its contract: the result, or "unsat".
  * `Verify` accepts exactly when the proof's registered inputs equal the
    encoder's vector. This is what the proof system's soundness gives; the
    crate's `verify` is not under `src/` and is modelled from the spec.

* `Bindings`: `plonky2_server_key_verify` in `bindings/src/lib.rs`, called by
  a set of threads `Threads`, each making at most `MaxCalls` calls.
  * The arguments are abstracted to the classes that decide the outcome. A
    proof verifies, is rejected, makes the verifier panic, or is null. The
    keys have the SEC1 length, another length, or are null.
  * `feature` is the build: with or without `precomputed_verifier_data`.
    Without it, `verifier_data()` panics.
  * `hook` is the process-wide panic hook. `stderr` records that a panic was
    printed, and `aborted` that the process died.
  * Each thread has a `pc` and takes these steps:
    * `Call` (lines 45-51);
    * `SetHook` (52-53);
    * `Body`: the closure under `catch_unwind` (55-72) and the `match` (74-78).
      `ClosureResult` gives the closure's outcome and `OutputOf` the string.
    * `Return`: `vec_to_dangling_c_arr` (19-28).
  * Undefined behaviour is modelled by its outcomes. A null array breaks
    `slice::from_raw_parts`' precondition: a debug build aborts, and a release
    build reads an empty slice. `Body` allows both. An unchecked NULL from
    `malloc` reaches `memcpy`, so `Return` either hands the string back or
    crashes the process.

  `ImplementsCalls` instantiates `BindingsContract` (`Calls`). Its mapping
  takes `Good` to a verifying proof with SEC1 keys, and marks a thread busy
  while its `pc` is not `idle`.
* `BindingsContract`: what the entry point promises each caller, with no
  hook, no `pc` and no intermediate result.
  * `Enter` starts a call with any arguments.
  * `Answer` ends it with an outcome in `Allowed(args, feature)`: "ok"
    exactly for a good call in a build with verifier data, and otherwise
    "error" or "panic".
  * `Die` ends the process during a call.

The `MC_*` modules give the constants for TLC.

## Runs

| run | checks | instance |
|---|---|---|
| `mul_table` | `MTTypeOK`; `TableCorrect` (equals the reference table); `RowEntriesDistinct` | N = 13, LIMBS = 3, WIDTH = 4, RAND = 5, every base point (168 states) |
| `scalar_mul` | `GTypeOK`; `ZeroScalarUnsat`; `ImplementsContract` (refinement of the contract) | the same table, ANOTHER_RAND = 7, SPLIT = 3, every scalar witness 0..63 (13026 states) |
| `cosigning_circuit` | `CTypeOK`; `Soundness`; `HonestProofsVerify`; `PadScalarMatchesReference` | N = 7, LIMBS = WIDTH = 2, RAND = 2, 4-bit coordinates and digests in 2-bit chunks, 1-bit halves of 2-bit u64 limbs (336384 states) |
| `bindings` | `BTypeOK`; `OkOnlyIfVerified`; `PanicsSilent`; `ImplementsCalls` (refinement of `BindingsContract`) | two threads of two calls each, both builds, every argument class, with symmetry over the threads (24032 states) |

Why these bounds are enough:

* With N = 13 and WIDTH = 4, the table has rows whose base is a non-trivial
  power of WIDTH. With three windows, row 2's base is doubled from row 1,
  which was itself derived. With two windows, deriving every row from row 0
  would go unnoticed. It has the entry 0 (pure RAND), and it has both doublings
  and additions.
* Half of the base points produce a table with an entry at infinity. Both
  ends of `Start` are reached.
* Witnesses 0..63 exceed N, so non-canonical scalars are included. Both the
  adding and the unsatisfiable branch of every `curve_add` are reached.
* In the circuit run, every verifier input is paired with every witness, the
  dishonest ones included. All three outcomes (accepted, rejected, unsat) are
  reached.
* Coordinates of 4 bits in 2-bit chunks make both reversals observable: the
  wiring reversal and the limb reversal.
* Two u64 limbs of two halves each make the order of halves and limbs
  observable.
* Two threads of two calls each reach these cases:
  * one thread's closure running while the other calls `set_hook`;
  * a thread's second call after the other's crash;
  * every argument class in both builds.

  A third thread adds no new ordering of the one shared variable, `hook`.

Every property has a fault model in its module: an operator named for a
plausible bug, defined just before the definition it would replace. Each fault
makes its property fail:

| property | fault |
|---|---|
| `MTTypeOK` | the inner loop bound is inclusive |
| `RowEntriesDistinct` | the row base is read from column `WIDTH % 2` |
| `TableCorrect` | odd entries add `P` instead of the row base |
| `GTypeOK` | the digit range check is inclusive |
| `ZeroScalarUnsat` | `ANOTHER_RAND` is added instead of its negation |
| `ImplementsContract` | the correction is computed for `LIMBS - 1` windows |
| `CTypeOK` | `reduce` is missing |
| `Soundness` | the shared key is computed on the basepoint table |
| `HonestProofsVerify` | the halves are swapped in `prepare_scalar` |
| `PadScalarMatchesReference` | the message wiring is not reversed |
| `BTypeOK` | the result is printed with `{:?}` instead of matched |
| `OkOnlyIfVerified` | `Ok(Err(e))` is reported like `Ok(Ok(()))` |
| `PanicsSilent` | the call does not install the empty hook |
| `ImplementsCalls` | the keys are converted to 32-byte arrays, so SEC1 keys never fit |

No run assumes fairness, and no liveness property is checked. Every core
component is a terminating function with no waiting, and a thread in the FFI
entry point takes no lock and waits for no other thread. So a property such
as "every call ends" would hold under weak fairness by the model's shape
alone, and would say nothing about the code.

The runs set `CHECK_DEADLOCK FALSE` because their final states have no
successor:

* the table is done;
* the gadget is done or unsat;
* the verdict is given;
* every caller has made its calls, or the process has died.

## Findings

None. The unchecked `malloc` in `vec_to_dangling_c_arr` (lib.rs:20-22) is
modelled: `Return` may crash the process, and `BindingsContract` allows a
death. It is listed as a hazard and not as a finding. Spec section 7
promises only that panics of the proof framework come back as a "panic"
string, and the bindings run shows that they do. Neither the spec nor the
code says a call survives a failed allocation.

## Proofs

`CurveGroup_proofs` proves the modular-arithmetic lemmas the group
abstraction needs: range, regrouping, shifting, `Double` of a half multiple,
adding the base, and cancelling a negation. It also proves two facts of the
prime order:

* `NoZeroDivisors`: for `a` and `b` in `1..N-1`, `a * b` is not 0 mod N. Take
  the least `m` with `a * m = 0` mod N (`WFMin` over the naturals). Then
  `a * (N % m)` is also 0 mod N and smaller than `m`, so `N % m = 0`. As N
  is prime, `m = 1`, and so `a = 0` mod N, a contradiction.
* `ScalarTimesInjective`: distinct multipliers in `0..N-1` of a nonzero point
  give distinct points.

`MulTable_proofs` proves, for all N, LIMBS, WIDTH and RAND satisfying
`NAssumption` and `TableAssumption`:

* `MTTypeCorrect`: `MTSpec => []MTTypeOK`;
* `RowEntriesDistinctTheorem`: `MTSpec => []RowEntriesDistinct`;
* `TableCorrectTheorem`: `PowerLaws => (MTSpec => []TableCorrect)`.

`TableAssumption` requires `WIDTH < N`. The code has WIDTH = 16 and
q about 2^256, and the assumption is what makes a row's multipliers
`0..WIDTH-1` distinct mod q.

None of these holds inductively as stated, because the invariants speak only of the
finished table. `TableWellFormed`, the step of the `TableCorrect` proof,
states the finished table's recursive form. The inductive invariant `IInv` tracks the loops. It says:

* where control can be (`i` within the rows, `j` in `2..WIDTH` while filling);
* that unfilled entries are still the identity;
* that every filled entry of a row is `j` times the row's base;
* that row 0's base is `P`;
* that each filled row's base is `WIDTH` times the previous one.

`Unblinded` removes RAND once `Blind` has run.

For `RowEntriesDistinct`, `DInv` adds `BasesNonzero` to `IInv`: every filled
row's base is not the identity. Row 0's base is P, which is not the identity.
Row `i`'s base is `WIDTH` times row `i-1`'s base, and that is nonzero by
`NoZeroDivisors`. `FilledStable` says no step changes an entry written
before it, except that `Blind` adds RAND, which `Unblinded` removes.
`NewBase` says only `RowHead` fills a row's first column. Distinct entries
then follow from `ScalarTimesInjective`, and adding RAND keeps them distinct.

For `TableCorrect`, the reference table is written with `WIDTH^r`, and the
provers know nothing of `^` when the exponent is a variable: even
`WIDTH^0 = 1` and `WIDTH^1 = WIDTH` fail. `PowerLaws` states the two
defining equations of `^` on Nat (`WIDTH^0 = 1`, and
`WIDTH^(n+1) = WIDTH * WIDTH^n`). They hold for every natural `WIDTH`, so
the hypothesis excludes no value of the constants. It only supplies what
the provers lack. `WPow(n)` names `WIDTH^n`, so that Z3 sees an opaque term.
`BasePower` shows that row `r`'s base is `WIDTH^r * P`. It takes the least
row where this fails (`WFMin`). That row is not row 0, because row 0's base
is `P`. Its base is `WIDTH` times the previous row's base, which is correct,
so it is correct too. `CorrectFromIInv` then rebuilds each entry: it is
`c` times the base, with RAND added back (`Reblind`). `ModTimes` and
`ModPlus` move the reductions mod N outward.

The proof has one lemma per
action (`RowHeadIInv`, `FillEvenIInv`, `FillOddIInv`, `NextRowIInv`,
`BlindIInv`) and one for stuttering. `FillStepIInv` is shared by both fill
steps, which write `j * base`: the even step by `DoubleHalf`, the odd one by
`AddBase`.

`ScalarMul_proofs` proves `GTypeCorrect`: `GSpec => []GTypeOK` for every
value of the constants, `GadgetAssumption` included. Its inductive invariant
is `IInv` of `MulTable_proofs` together with the gadget's typing. A table step
leaves the gadget alone (`NextIInv`), and a gadget step leaves the table alone
(`StutterIInv`). The gadget's steps need these facts:

* `SPLIT <= LIMBS`, so the padded digits cover every window;
* `digits` in `Cols` and the table's type, so each selection is an entry;
* `GroupClosed`, so the accumulator is a point after each `curve_add`.

It also proves the zero-scalar edge:

* `ZeroScalarUnsatTheorem`: `GSpec /\ ImplementsContract => []ZeroScalarUnsat`.
  Its inductive invariant `AInv` adds `SumAffine` (the accumulator is never
  the point at infinity) to the typing invariant. `ANOTHER_RAND` is not the
  identity. `AffineAdd` says that the sum of a non-identity point `a` and a
  point `b` that does not share its x coordinate is not the identity: if
  `a + b = 0` mod N, then `a = Neg(b)`. `curve_add` adds only such operands
  (`CurveAddAffine`); on the others the circuit is unsat. The contract's
  output is pending, `k * P`, or unsat (`Contract!OutOK`, `ContractOut`).
  For `k = 0` mod N, `k * P` is the identity (`ZeroTimes`), and `SumAffine`
  rules that out at `done`. The hypothesis `ImplementsContract` is the
  refinement itself, which is only model-checked (see below).

`Bindings_proofs` proves, for any set of threads and any `MaxCalls`:

* `OkOnlyIfVerifiedTheorem`: `BSpec => []OkOnlyIfVerified`;
* `PanicsSilentTheorem`: `BSpec => []PanicsSilent`;
* `BTypeCorrect`: `BSpec => []BTypeOK`;
* `ImplementsCallsTheorem`: `BSpec => ImplementsCalls`. The entry point, in
  every interleaving, implements the per-call contract `BindingsContract`.

Neither main invariant is inductive as stated. The inductive invariant `IInv`
adds three facts:

* a thread at `body` or `return` sees the empty hook, because no step ever
  restores the default;
* the computed outcome (`res`) of a thread at `return` is one the contract
  allows for its arguments and build (`Answered`);
* a returned "ok" (`out`) belongs to a good call.

`Call` is the only step that changes a thread's arguments, and it resets
that thread's `out`. Other threads' steps touch only their own slots, so the
interleaving cannot break these facts. `OutputFacts` states what the closure
and the `match` yield.

The refinement is proved step by step:

* `InitRefines`: `BInit` maps to `KInit`.
* `CallRefines`: `Call` maps to `Enter`.
* `SetHookRefines`: `SetHook` maps to a stutter.
* `BodyRefines`: `Body` maps to `Die` (a debug abort on a null array) or to a
  stutter.
* `ReturnRefines`: `Return` maps to `Answer`, with the outcome allowed by
  `Answered`, or to `Die` when `malloc` fails.

`StepRefines` combines these under `IInv`, and PTL gives the theorem.

## Only model-checked

These properties are checked by TLC and not proved:

* `ImplementsContract` of `ScalarMul` needs the value of the loop's sum and
  of the digits. Both are recursive functions (`DigitsValue`), which the
  provers cannot unfold for every `LIMBS`. The library's fold and induction
  theorems take an operator parameter, which the provers cannot instantiate.
  The digits' value also uses `^`. `ZeroScalarUnsat` is proved only from
  this contract, so for every instance it rests on this model check.
* `CTypeOK`, `Soundness`, `HonestProofsVerify` and
  `PadScalarMatchesReference` of `CosigningCircuit`. Through `PadHash` and
  `PublicInputs`, these modules reach `RECURSIVE` operators of
  `SequencesExt` (`FlattenSeq`, `Reverse`, sums), which take the SMT backend
  away, and they also need `^` for bit and limb values.

These properties are checked only on the instances above.

## Not modelled

* SHA-256, field arithmetic and nonnative range checks: library code.
* SEC1 decoding and the crate's prove/verify glue: not under `src/`. verify
  is modelled from the spec.
* The wording of the FFI strings. The model keeps only which of ok, error and
  panic a call returns.
* The panic hook is never restored. After the first call, panics anywhere in
  the host process are silent. The model shows that `hook` never returns to
  "default", but states no property about code outside this entry point.
* The generator binary. It is straight-line I/O over `precompute` and
  `prove`, with no state of its own, and nothing under `src/` reads its test
  proof back.
* Tables with an entry at infinity (spec section 9). The model stops them in
  `undefined` and keeps them out of the circuit model.

## Plan for further work

1. Prove the scalar multiplication gadget's output law (`ImplementsContract`). The loop invariant is
   that after `w` windows the sum is `ANOTHER_RAND` plus the first `w`
   selected entries. With `TableWellFormed`, this gives `k * P + LIMBS * RAND`
   before the correction. The proof needs an unfolding lemma for the partial
   sum (a recursive function). The installed provers can prove it only for a
   fixed number of windows, not for every `LIMBS`.
2. Prove that the two encoders agree for every value, written without
   `FlattenSeq` (a function over positions), so that `HonestProofsVerify`
   holds for every instance.
3. Widen the dishonest prover in `CosigningCircuit` from tables of any point
   to tables with arbitrary entries. This needs `scalar_mul` run on a table
   that is not a well-formed table.
