CONSTANTS
    N <- MC_N
    LIMBS <- MC_LIMBS
    WIDTH <- MC_WIDTH
    RAND <- MC_RAND
INIT MTInit
NEXT MTNext
\* precompute_mul_table is a function call that returns: its last state stops.
CHECK_DEADLOCK FALSE
INVARIANTS
    MTTypeOK
    TableCorrect
    RowEntriesDistinct
