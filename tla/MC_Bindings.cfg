CONSTANTS
    t1 = t1
    t2 = t2
    Threads <- MC_Threads
    MaxCalls <- MC_MaxCalls

INIT BInit
NEXT BNext

\* The threads are interchangeable.
SYMMETRY BSymmetry

\* Callers stop after MaxCalls calls, and an abort stops every thread.
CHECK_DEADLOCK FALSE

INVARIANTS
    BTypeOK
    OkOnlyIfVerified
    PanicsSilent
PROPERTY
    ImplementsCalls
