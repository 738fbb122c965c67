------------------------------ MODULE PadHash ------------------------------
(***************************************************************************)
(* The bit plumbing of assert_public_pad_is_correct (circuit.rs): the x   *)
(* coordinate of the shared key is split into little-endian bits, wired  *)
(* into the SHA-256 message in reverse (message[255 - i] = x_bits[i]),   *)
(* and the digest is packed by bits_be_to_biguint_target (chunks of 32,  *)
(* each read most significant bit first, chunk order reversed) and       *)
(* reduced modulo q.  XBITS stands for the 256 bits of x, of the message *)
(* and of the digest, CHUNK for the 32 bits of a limb.  SHA-256 itself is *)
(* library code: Sha is a fixed function from message bits to digest bits.*)
(***************************************************************************)
EXTENDS CurveGroup, Sequences, SequencesExt, Functions

CONSTANTS
    XBITS,      \* bits of a coordinate, of the message and of the digest
    CHUNK,      \* bits per u32 limb of the packed digest
    Sha         \* the SHA-256 compression of one XBITS-bit message

Bits == [0..(XBITS - 1) -> {0, 1}]

ASSUME PadHashAssumption ==
    /\ CHUNK \in Nat \ {0}
    /\ XBITS \in Nat \ {0}
    /\ XBITS % CHUNK = 0
    /\ N <= 2^XBITS
    /\ Sha \in [Bits -> Bits]

(* split_nonnative_to_bits: the little-endian bits of x. *)
XBitsLE(v) == [t \in 0..(XBITS - 1) |-> (v \div 2^t) % 2]

(* Fault model: x_bits[i] wired to message[i]. *)
ShaMessageUnreversed(xbits) == [m \in 0..(XBITS - 1) |-> xbits[m]]

(* builder.connect(x_bits[i], message[255 - i]) for i in 0..255 *)
ShaMessage(xbits) == [m \in 0..(XBITS - 1) |-> xbits[XBITS - 1 - m]]

(* bits_to_u32_target: a chunk read most significant bit first. *)
ChunkValue(bits, c) ==
    SumFunction([b \in 0..(CHUNK - 1) |-> bits[c * CHUNK + b] * 2^(CHUNK - 1 - b)])

(* bits_be_to_biguint_target: chunks(32), map bits_to_u32, rev, collect. *)
BitsBEToBigUint(bits) ==
    Reverse([c \in 1..(XBITS \div CHUNK) |-> ChunkValue(bits, c - 1)])

(* The value of a BigUintTarget: little-endian u32 limbs. *)
BigUintValue(limbs) ==
    SumFunction([l \in DOMAIN limbs |-> limbs[l] * 2^(CHUNK * (l - 1))])

(* Fault model: the packed digest used without reduce. *)
PadScalarUnreduced(s) ==
    BigUintValue(BitsBEToBigUint(Sha[ShaMessage(XBitsLE(XCoord(s)))]))

(* pad_private_as_scalar_field computed from the shared key S. *)
PadScalar(s) ==
    BigUintValue(BitsBEToBigUint(Sha[ShaMessage(XBitsLE(XCoord(s)))])) % N

-----------------------------------------------------------------------------
(***************************************************************************)
(* The pad the spec defines (section 4.D): SHA-256 of the big-endian     *)
(* encoding of x, the digest read as a big-endian integer, reduced mod q. *)
(***************************************************************************)
BigEndianBits(v) == [m \in 0..(XBITS - 1) |-> (v \div 2^(XBITS - 1 - m)) % 2]
BigEndianValue(bits) ==
    SumFunction([m \in 0..(XBITS - 1) |-> bits[m] * 2^(XBITS - 1 - m)])
ReferencePadScalar(s) == BigEndianValue(Sha[BigEndianBits(XCoord(s))]) % N
=============================================================================
