CONSTANTS
    N <- MC_N
    LIMBS <- MC_LIMBS
    WIDTH <- MC_WIDTH
    RAND <- MC_RAND
    XBITS <- MC_XBITS
    CHUNK <- MC_CHUNK
    HALF <- MC_HALF
    U64S <- MC_U64S
    Sha <- MC_Sha

INIT CInit
NEXT CNext

\* A proof session ends in a verdict or an unsatisfiable circuit.
CHECK_DEADLOCK FALSE

INVARIANTS
    CTypeOK
    Soundness
    HonestProofsVerify
    PadScalarMatchesReference
