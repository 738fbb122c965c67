---------------------------- MODULE MC_Bindings ----------------------------
EXTENDS Bindings, TLC

CONSTANTS t1, t2

MC_Threads == {t1, t2}
MC_MaxCalls == 2

BSymmetry == Permutations(MC_Threads)
=============================================================================
