-------------------------- MODULE BindingsContract --------------------------
(***************************************************************************)
(* What the C entry point plonky2_server_key_verify promises its callers  *)
(* (spec sections 6-7): each call is one atomic step from the caller's   *)
(* view.  It answers "ok" exactly when the build embeds the verifier     *)
(* data and the call's own proof verifies against its own three keys,   *)
(* and "error" or "panic" otherwise, whatever other threads are doing.   *)
(* The process may die while a call is in progress.                      *)
(***************************************************************************)
EXTENDS Naturals

CONSTANTS
    Threads,    \* the caller threads
    MaxCalls,   \* calls per thread, a bound for the model
    Args,       \* the argument classes of a call
    Good        \* the class of a proof that verifies with SEC1 keys

VARIABLES
    feature,    \* the build embeds the verifier data
    aborted,    \* the process has died
    busy,       \* per thread: inside a call
    args,       \* per thread: the arguments of its current call
    out,        \* per thread: the answer last handed back, or "none"
    calls       \* per thread: calls made

kvars == <<feature, aborted, busy, args, out, calls>>

(* The answers a call with arguments a may get in build f. *)
Allowed(a, f) == IF f /\ a = Good THEN {"ok"} ELSE {"error", "panic"}

KInit ==
    /\ feature \in BOOLEAN
    /\ aborted = FALSE
    /\ busy = [t \in Threads |-> FALSE]
    /\ args \in [Threads -> Args]
    /\ out = [t \in Threads |-> "none"]
    /\ calls = [t \in Threads |-> 0]

(* A caller enters the entry point with some arguments. *)
Enter(t) ==
    /\ ~aborted
    /\ ~busy[t]
    /\ calls[t] < MaxCalls
    /\ \E a \in Args : args' = [args EXCEPT ![t] = a]
    /\ busy' = [busy EXCEPT ![t] = TRUE]
    /\ out' = [out EXCEPT ![t] = "none"]
    /\ calls' = [calls EXCEPT ![t] = @ + 1]
    /\ UNCHANGED <<feature, aborted>>

(* The call returns its answer. *)
Answer(t) ==
    /\ ~aborted
    /\ busy[t]
    /\ \E o \in Allowed(args[t], feature) : out' = [out EXCEPT ![t] = o]
    /\ busy' = [busy EXCEPT ![t] = FALSE]
    /\ UNCHANGED <<feature, aborted, args, calls>>

(* The process dies during a call. *)
Die(t) ==
    /\ ~aborted
    /\ busy[t]
    /\ aborted' = TRUE
    /\ UNCHANGED <<feature, busy, args, out, calls>>

KNext == \E t \in Threads : Enter(t) \/ Answer(t) \/ Die(t)

KSpec == KInit /\ [][KNext]_kvars
=============================================================================
