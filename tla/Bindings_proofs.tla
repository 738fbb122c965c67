-------------------------- MODULE Bindings_proofs --------------------------
(***************************************************************************)
(* Proofs that plonky2_server_key_verify reports "ok" only for a verified *)
(* proof, never prints a panic, and implements its atomic contract, for  *)
(* any number of caller threads and any interleaving of their calls.     *)
(***************************************************************************)
EXTENDS Bindings, TLAPS

(* The arguments of a call that may succeed. *)
GoodCall(t) == feature /\ args[t] = [proof |-> "verifies", keys |-> "sec1"]

(* The string a thread computed is one its contract allows. *)
Answered(t) == res[t] \in Calls!Allowed(args[t], feature)

(***************************************************************************)
(* The inductive invariant: a thread past set_hook sees the empty hook    *)
(* (no call ever installs another), a string computed and not yet handed *)
(* back is one the contract allows the call, and a returned "ok" belongs *)
(* to a good call.                                                        *)
(***************************************************************************)
IInv ==
    /\ BTypeOK
    /\ ~stderr
    /\ \A t \in Threads : pc[t] \in {"body", "return"} => hook = "empty"
    /\ \A t \in Threads : pc[t] = "return" => Answered(t)
    /\ \A t \in Threads : out[t] = "ok" => GoodCall(t)

USE BindingsAssumption

LEMMA InitIInv == BInit => IInv
<1> SUFFICES ASSUME BInit PROVE IInv
  OBVIOUS
<1>1. [proof |-> "null", keys |-> "null"] \in Args
  BY DEF Args, ProofArgs, KeyArgs
<1>2. args \in [Threads -> Args]
  BY <1>1 DEF BInit
<1>3. res \in [Threads -> Outputs] /\ out \in [Threads -> Outputs \cup {"none"}]
  BY DEF BInit, Outputs
<1>4. calls \in [Threads -> 0..MaxCalls]
  BY DEF BInit
<1>. QED
  BY <1>2, <1>3, <1>4 DEF BInit, IInv, BTypeOK

(* What the closure yields, and the string it is turned into. *)
LEMMA OutputFacts ==
    ASSUME NEW a \in Args, NEW f \in BOOLEAN
    PROVE  /\ OutputOf(ClosureResult(a, f)) \in Outputs
           /\ OutputOf(ClosureResult(a, f)) \in
                  Calls!Allowed(a, f)
           /\ ClosureResult(a, f) = "Err(panic)" \/ OutputOf(ClosureResult(a, f)) # "panic"
BY DEF OutputOf, ClosureResult, Outputs, Args, ProofArgs, KeyArgs, Calls!Allowed

(* An allowed "ok" is a good call's. *)
LEMMA AnsweredOk ==
    ASSUME NEW t \in Threads, Answered(t), res[t] = "ok"
    PROVE  GoodCall(t)
BY DEF Answered, Calls!Allowed, GoodCall

LEMMA CallIInv == ASSUME IInv, NEW t \in Threads, Call(t) PROVE IInv'
BY DEF IInv, BTypeOK, Call, GoodCall, Answered

LEMMA SetHookIInv == ASSUME IInv, NEW t \in Threads, SetHook(t) PROVE IInv'
BY DEF IInv, BTypeOK, SetHook, GoodCall, Answered

LEMMA BodyIInv == ASSUME IInv, NEW t \in Threads, Body(t) PROVE IInv'
<1>1. args[t] \in Args /\ feature \in BOOLEAN
  BY DEF IInv, BTypeOK
<1>2. hook = "empty"
  BY DEF IInv, Body
<1>3. CASE HasNull(args[t]) /\ aborted' = TRUE /\ UNCHANGED <<stderr, pc, res>>
  BY <1>3 DEF IInv, BTypeOK, Body, GoodCall, Answered
<1>4. CASE LET r == ClosureResult(args[t], feature) IN
          /\ res' = [res EXCEPT ![t] = OutputOf(r)]
          /\ stderr' = (stderr \/ (r = "Err(panic)" /\ hook = "default"))
          /\ pc' = [pc EXCEPT ![t] = "return"]
          /\ UNCHANGED aborted
  <2>1. res' = [res EXCEPT ![t] = OutputOf(ClosureResult(args[t], feature))]
    BY <1>4
  <2>2. ~stderr'
    BY <1>2, <1>4 DEF IInv
  <2>3. OutputOf(ClosureResult(args[t], feature)) \in Calls!Allowed(args[t], feature)
    BY <1>1, OutputFacts
  <2>4. OutputOf(ClosureResult(args[t], feature)) \in Outputs
    BY <1>1, OutputFacts
  <2>5. \A u \in Threads : pc'[u] = "return" => Answered(u)'
    BY <1>4, <2>1, <2>3 DEF IInv, BTypeOK, Body, Answered
  <2>. QED
    BY <1>2, <1>4, <2>1, <2>2, <2>4, <2>5 DEF IInv, BTypeOK, Body, GoodCall
<1>. QED
  BY <1>3, <1>4 DEF Body

LEMMA ReturnIInv == ASSUME IInv, NEW t \in Threads, Return(t) PROVE IInv'
<1>1. res[t] = "ok" => GoodCall(t)
  BY AnsweredOk DEF IInv, Return
<1>. QED
  BY <1>1 DEF IInv, BTypeOK, Return, GoodCall, Answered

LEMMA NextIInv == IInv /\ [BNext]_bvars => IInv'
<1> SUFFICES ASSUME IInv, [BNext]_bvars PROVE IInv'
  OBVIOUS
<1>1. CASE UNCHANGED bvars
  BY <1>1 DEF IInv, BTypeOK, GoodCall, Answered, bvars
<1>. QED
  BY <1>1, CallIInv, SetHookIInv, BodyIInv, ReturnIInv DEF BNext

(***************************************************************************)
(* For every set of threads and every bound on calls, "ok" is reported   *)
(* only for a verified proof with well-formed keys, and no panic is      *)
(* printed.                                                               *)
(***************************************************************************)
THEOREM OkOnlyIfVerifiedTheorem == BSpec => []OkOnlyIfVerified
<1>1. IInv => OkOnlyIfVerified
  BY DEF IInv, OkOnlyIfVerified, GoodCall
<1>. QED
  BY <1>1, InitIInv, NextIInv, PTL DEF BSpec

(* No panic of any call is printed to stderr, in any interleaving. *)
THEOREM PanicsSilentTheorem == BSpec => []PanicsSilent
<1>1. IInv => PanicsSilent
  BY DEF IInv, PanicsSilent
<1>. QED
  BY <1>1, InitIInv, NextIInv, PTL DEF BSpec

(* Type correctness of the bindings model. *)
THEOREM BTypeCorrect == BSpec => []BTypeOK
<1>1. IInv => BTypeOK
  BY DEF IInv
<1>. QED
  BY <1>1, InitIInv, NextIInv, PTL DEF BSpec
-----------------------------------------------------------------------------
(***************************************************************************)
(* Refinement of the contract.  Under the mapping busy = (pc # "idle"),  *)
(* Call is Enter, a Return that hands its string back is Answer, and an  *)
(* abort in Body or a crash in Return is Die; set_hook and the closure   *)
(* are internal steps, stutters of the contract.  Answer needs the      *)
(* conjunct of IInv that a thread at "return" holds an allowed answer.  *)
(***************************************************************************)
LEMMA InitRefines == BInit => Calls!KInit
<1> SUFFICES ASSUME BInit PROVE Calls!KInit
  OBVIOUS
<1>1. args \in [Threads -> Args]
  BY InitIInv DEF IInv, BTypeOK
<1>. QED
  BY <1>1 DEF BInit, Calls!KInit

LEMMA CallRefines ==
    ASSUME IInv, NEW t \in Threads, Call(t) PROVE Calls!Enter(t)
BY DEF IInv, BTypeOK, Call, Calls!Enter

LEMMA SetHookRefines ==
    ASSUME IInv, NEW t \in Threads, SetHook(t) PROVE UNCHANGED Calls!kvars
BY DEF IInv, BTypeOK, SetHook, Calls!kvars

LEMMA BodyRefines ==
    ASSUME IInv, NEW t \in Threads, Body(t)
    PROVE  Calls!Die(t) \/ UNCHANGED Calls!kvars
<1>1. CASE aborted' = TRUE /\ UNCHANGED <<stderr, pc, res>>
  <2>. Calls!Die(t)
    BY <1>1 DEF Body, Calls!Die
  <2>. QED
    OBVIOUS
<1>2. CASE pc' = [pc EXCEPT ![t] = "return"] /\ UNCHANGED aborted
  <2>. UNCHANGED Calls!kvars
    BY <1>2 DEF IInv, BTypeOK, Body, Calls!kvars
  <2>. QED
    OBVIOUS
<1>. QED
  BY <1>1, <1>2 DEF Body

LEMMA ReturnRefines ==
    ASSUME IInv, NEW t \in Threads, Return(t)
    PROVE  Calls!Answer(t) \/ Calls!Die(t)
<1>1. CASE out' = [out EXCEPT ![t] = res[t]] /\ pc' = [pc EXCEPT ![t] = "idle"]
            /\ UNCHANGED aborted
  <2>1. res[t] \in Calls!Allowed(args[t], feature)
    BY DEF IInv, Return, Answered
  <2>2. Calls!Answer(t)
    BY <1>1, <2>1 DEF IInv, BTypeOK, Return, Calls!Answer
  <2>. QED
    BY <2>2
<1>2. CASE aborted' = TRUE /\ UNCHANGED <<out, pc>>
  <2>. Calls!Die(t)
    BY <1>2 DEF Return, Calls!Die
  <2>. QED
    OBVIOUS
<1>. QED
  BY <1>1, <1>2 DEF Return

LEMMA StepRefines == IInv /\ [BNext]_bvars => [Calls!KNext]_Calls!kvars
<1> SUFFICES ASSUME IInv, [BNext]_bvars PROVE [Calls!KNext]_Calls!kvars
  OBVIOUS
<1>1. CASE UNCHANGED bvars
  BY <1>1 DEF bvars, Calls!kvars
<1>2. CASE BNext
  <2>. PICK t \in Threads : Call(t) \/ SetHook(t) \/ Body(t) \/ Return(t)
    BY <1>2 DEF BNext
  <2>. QED
    BY CallRefines, SetHookRefines, BodyRefines, ReturnRefines DEF Calls!KNext
<1>. QED
  BY <1>1, <1>2

(***************************************************************************)
(* For every set of threads and every bound on calls, the entry point    *)
(* implements its contract: however concurrent calls interleave, each   *)
(* call behaves as one atomic step answering "ok" exactly when its own  *)
(* proof verifies with SEC1-length keys in a build with verifier data.  *)
(***************************************************************************)
THEOREM ImplementsCallsTheorem == BSpec => ImplementsCalls
<1>1. BSpec => []IInv
  BY InitIInv, NextIInv, PTL DEF BSpec
<1>. QED
  BY <1>1, InitRefines, StepRefines, PTL DEF BSpec, ImplementsCalls, Calls!KSpec
=============================================================================
