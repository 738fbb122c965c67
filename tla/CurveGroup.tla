---------------------------- MODULE CurveGroup ----------------------------
(***************************************************************************)
(* The secp256k1 group as the circuit code sees it.  secp256k1 has prime  *)
(* order q and is generated by G, so every point is k * G for exactly one *)
(* k in 0..q-1; a point is represented here by that k.  The group law is  *)
(* then addition modulo q, and the point at infinity is 0.  N plays the   *)
(* role of q on a small instance.                                          *)
(*                                                                         *)
(* The k256 and plonky2_ecdsa operations the repository calls (double,    *)
(* add, negation, scalar multiplication, curve_add) are library code: they *)
(* are abstracted here by what they compute on group elements.            *)
(***************************************************************************)
EXTENDS Integers

CONSTANT N          \* the order of the group (q of secp256k1)

IsPrime(n) == n > 1 /\ \A d \in 2..(n - 1) : n % d # 0

ASSUME NAssumption == N \in Nat /\ N > 2 /\ IsPrime(N)

Point == 0..(N - 1)
Identity == 0

GroupAdd(a, b) == (a + b) % N
Double(a) == (2 * a) % N
Neg(a) == (N - a) % N
ScalarTimes(k, a) == (k * a) % N

(***************************************************************************)
(* curve_add of plonky2_ecdsa uses the incomplete affine formula          *)
(* lambda = (y2 - y1) / (x2 - x1): its constraints cannot be satisfied    *)
(* when x1 = x2, that is when the two points are equal or opposite.  The  *)
(* point at infinity has no affine coordinates; an addend equal to it    *)
(* makes the formula compute a point that is not the sum.                *)
(***************************************************************************)
SameX(a, b) == a = b \/ a = Neg(b)

(***************************************************************************)
(* Affine coordinates of a point other than the identity, as values of    *)
(* the base field: opposite points share x and differ in y, and distinct  *)
(* points have distinct (x, y).                                            *)
(***************************************************************************)
XCoord(p) == IF p <= N - p THEN p ELSE N - p
YCoord(p) == p
=============================================================================
