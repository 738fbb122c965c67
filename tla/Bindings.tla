------------------------------ MODULE Bindings ------------------------------
(***************************************************************************)
(* The C entry point plonky2_server_key_verify (libwallet/librs/bindings/ *)
(* src/lib.rs), called by any number of caller threads.  Each call        *)
(* replaces the process-wide panic hook with an empty one, runs the      *)
(* conversion of its C arrays and the verification inside catch_unwind,  *)
(* turns the outcome into "ok", "error: ..." or "panic: ...", and copies *)
(* that string into a malloc'd buffer it hands to the caller.            *)
(*                                                                         *)
(* The arguments are abstracted to what decides the outcome: the proof   *)
(* verifies, is rejected, makes the verifier panic, or is a null array;  *)
(* the three keys have the SEC1 length, another length, or are null.     *)
(* A null array reaches slice::from_raw_parts, whose precondition it     *)
(* breaks: a debug build aborts, a release build reads an empty slice.   *)
(* A null result of malloc reaches memcpy: the process crashes.          *)
(***************************************************************************)
EXTENDS Naturals

CONSTANTS
    Threads,    \* the caller threads
    MaxCalls    \* calls per thread, a bound for the model

ASSUME BindingsAssumption == MaxCalls \in Nat

ProofArgs == {"verifies", "rejected", "panics", "null"}
KeyArgs == {"sec1", "badlen", "null"}
Args == [proof : ProofArgs, keys : KeyArgs]
Outputs == {"ok", "error", "panic"}

VARIABLES
    feature,    \* built with precomputed_verifier_data
    hook,       \* the process's panic hook: "default" or "empty"
    stderr,     \* a panic message has been printed
    aborted,    \* the process has aborted or crashed
    pc,         \* per thread: "idle", "hook", "body", "return"
    args,       \* per thread: the arguments of its current call
    res,        \* per thread: the string its call computed
    out,        \* per thread: the string last handed back, or "none"
    calls       \* per thread: calls made

bvars == <<feature, hook, stderr, aborted, pc, args, res, out, calls>>

BInit ==
    /\ feature \in BOOLEAN
    /\ hook = "default"
    /\ stderr = FALSE
    /\ aborted = FALSE
    /\ pc = [t \in Threads |-> "idle"]
    /\ args = [t \in Threads |-> [proof |-> "null", keys |-> "null"]]
    /\ res = [t \in Threads |-> "error"]
    /\ out = [t \in Threads |-> "none"]
    /\ calls = [t \in Threads |-> 0]

(* The caller enters plonky2_server_key_verify. *)
Call(t) ==
    /\ ~aborted
    /\ pc[t] = "idle"
    /\ calls[t] < MaxCalls
    /\ \E a \in Args : args' = [args EXCEPT ![t] = a]
    /\ pc' = [pc EXCEPT ![t] = "hook"]
    /\ out' = [out EXCEPT ![t] = "none"]
    /\ calls' = [calls EXCEPT ![t] = @ + 1]
    /\ UNCHANGED <<feature, hook, stderr, aborted, res>>

(* Fault model: the call without its set_hook. *)
SetHookMissing(t) ==
    /\ ~aborted
    /\ pc[t] = "hook"
    /\ pc' = [pc EXCEPT ![t] = "body"]
    /\ UNCHANGED <<feature, hook, stderr, aborted, args, res, out, calls>>

(* panic::set_hook(Box::new(|_info| {})) *)
SetHook(t) ==
    /\ ~aborted
    /\ pc[t] = "hook"
    /\ hook' = "empty"
    /\ pc' = [pc EXCEPT ![t] = "body"]
    /\ UNCHANGED <<feature, stderr, aborted, args, res, out, calls>>

(* Fault model: the keys converted to 32-byte arrays, which a SEC1 key   *)
(* (33 bytes) never fits.                                               *)
ClosureResultKeyLength(a, f) == IF ~f THEN "Err(panic)" ELSE "Ok(Err)"

(***************************************************************************)
(* The outcomes of the closure under catch_unwind: c_array_to_vec of the  *)
(* four arrays, verifier_data() (a panic without the feature),           *)
(* to_fixed_size_arr of the keys (an error on another length), verify.  *)
(* A null proof is an empty proof, which verify rejects.                 *)
(***************************************************************************)
ClosureResult(a, f) ==
    IF ~f THEN "Err(panic)"
    ELSE IF a.keys # "sec1" THEN "Ok(Err)"
    ELSE CASE a.proof = "verifies" -> "Ok(Ok)"
           [] a.proof = "panics"   -> "Err(panic)"
           [] OTHER                -> "Ok(Err)"

HasNull(a) == a.proof = "null" \/ a.keys = "null"

(* Fault model: the result printed with {:?} instead of matched. *)
OutputOfDebug(r) == r

(* Fault model: Ok(Err(e)) mapped like Ok(Ok(())) (res.is_ok()). *)
OutputOfIsOk(r) == IF r = "Err(panic)" THEN "panic" ELSE "ok"

(* match res { Ok(Ok(())) => "ok", Ok(Err(e)) => "error: ..", Err(e) => "panic: .." } *)
OutputOf(r) == CASE r = "Ok(Ok)" -> "ok" [] r = "Ok(Err)" -> "error" [] OTHER -> "panic"

(* The closure runs, or a null array aborts a debug build. *)
Body(t) ==
    /\ ~aborted
    /\ pc[t] = "body"
    /\ \/ /\ HasNull(args[t])
          /\ aborted' = TRUE
          /\ UNCHANGED <<stderr, pc, res>>
       \/ LET r == ClosureResult(args[t], feature) IN
          /\ res' = [res EXCEPT ![t] = OutputOf(r)]
          /\ stderr' = (stderr \/ (r = "Err(panic)" /\ hook = "default"))
          /\ pc' = [pc EXCEPT ![t] = "return"]
          /\ UNCHANGED aborted
    /\ UNCHANGED <<feature, hook, args, out, calls>>

(* vec_to_dangling_c_arr: malloc and memcpy, or a crash on a null malloc. *)
Return(t) ==
    /\ ~aborted
    /\ pc[t] = "return"
    /\ \/ /\ out' = [out EXCEPT ![t] = res[t]]
          /\ pc' = [pc EXCEPT ![t] = "idle"]
          /\ UNCHANGED aborted
       \/ /\ aborted' = TRUE
          /\ UNCHANGED <<out, pc>>
    /\ UNCHANGED <<feature, hook, stderr, args, res, calls>>

BNext == \E t \in Threads : Call(t) \/ SetHook(t) \/ Body(t) \/ Return(t)

BSpec == BInit /\ [][BNext]_bvars

-----------------------------------------------------------------------------
(* Type of every variable. *)
BTypeOK ==
    /\ feature \in BOOLEAN
    /\ hook \in {"default", "empty"}
    /\ stderr \in BOOLEAN
    /\ aborted \in BOOLEAN
    /\ pc \in [Threads -> {"idle", "hook", "body", "return"}]
    /\ args \in [Threads -> Args]
    /\ res \in [Threads -> Outputs]
    /\ out \in [Threads -> Outputs \cup {"none"}]
    /\ calls \in [Threads -> 0..MaxCalls]

(***************************************************************************)
(* A caller is told "ok" only for a call whose proof verified against    *)
(* three keys of the SEC1 length, in a build that embeds the verifier    *)
(* data: whatever other threads do meanwhile, an error or a panic of the *)
(* call is never reported as success.                                    *)
(***************************************************************************)
OkOnlyIfVerified ==
    \A t \in Threads :
        out[t] = "ok" => feature /\ args[t] = [proof |-> "verifies", keys |-> "sec1"]

(***************************************************************************)
(* No panic under any call is printed to stderr (the comment at set_hook): *)
(* every call installs the empty hook before its closure can panic, so   *)
(* this holds in every interleaving of the callers.                      *)
(***************************************************************************)
PanicsSilent == ~stderr

(***************************************************************************)
(* The entry point implements its contract: seen from the callers, each  *)
(* call is one atomic step whose answer is "ok" exactly for a verified   *)
(* proof with SEC1-length keys in a build with verifier data, however   *)
(* the steps of concurrent calls interleave; the process may die only   *)
(* during a call.                                                        *)
(***************************************************************************)
Calls == INSTANCE BindingsContract WITH
    Good <- [proof |-> "verifies", keys |-> "sec1"],
    busy <- [t \in Threads |-> pc[t] # "idle"]

ImplementsCalls == Calls!KSpec
=============================================================================
