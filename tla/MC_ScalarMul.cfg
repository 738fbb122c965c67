CONSTANTS
    N <- MC_N
    LIMBS <- MC_LIMBS
    WIDTH <- MC_WIDTH
    SPLIT <- MC_SPLIT
    RAND <- MC_RAND
    ANOTHER_RAND <- MC_ANOTHER_RAND
INIT GInit
NEXT GNext
\* scalar_mul returns: its "done", "unsat" and "undefined" states stop.
CHECK_DEADLOCK FALSE
INVARIANTS
    GTypeOK
    ZeroScalarUnsat
PROPERTIES
    ImplementsContract
