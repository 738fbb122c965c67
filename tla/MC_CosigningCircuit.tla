------------------------ MODULE MC_CosigningCircuit ------------------------
EXTENDS CosigningCircuit

MC_N == 7
MC_LIMBS == 2
MC_WIDTH == 2
MC_RAND == 2
MC_XBITS == 4
MC_CHUNK == 2
MC_HALF == 1
MC_U64S == 2

(* A fixed stand-in for SHA-256 on 4-bit messages: rotate, flip one bit. *)
MC_Sha == [b \in [0..3 -> {0, 1}] |->
              [t \in 0..3 |-> IF t = 0 THEN (b[3] + b[1] + 1) % 2 ELSE b[t - 1]]]
=============================================================================
