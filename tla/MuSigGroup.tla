----------------------------- MODULE MuSigGroup -----------------------------
(***************************************************************************)
(* The secp256k1 group and its scalars, as the MuSig code uses them.       *)
(*                                                                         *)
(* The group has prime order n with generator G.  A group element is       *)
(* represented by its discrete logarithm d (the point d*G), so that points *)
(* and scalars are both integers modulo Q, the model's stand-in for n, and *)
(* the point at infinity is 0.  The only geometric facts the code relies   *)
(* on are kept: every finite point has a y-coordinate that is odd or even, *)
(* P and -P have the same x-coordinate and opposite y-parities.  OddY is   *)
(* the set of finite points with odd y; the x-only serialisation of P      *)
(* (secp256k1_xonly_ge_serialize, fe_get_b32 of ge.x) is represented by    *)
(* the even-y point with that x-coordinate, XOnly(P).                      *)
(*                                                                         *)
(* Field and scalar arithmetic are collaborators outside this code (spec   *)
(* section 6.2); they are modelled by what they compute, not mapped.       *)
(***************************************************************************)
EXTENDS Integers, Functions

CONSTANTS
    Q,      \* the group order n
    OddY    \* the finite points whose y-coordinate is odd

\* The order is an odd number above 2, so that P # -P for every finite P.
ASSUME QAssumption == Q \in Nat /\ Q > 2 /\ Q % 2 = 1

Scalar == 0 .. Q - 1
Point == Scalar              \* 0 is the point at infinity
FinitePoint == 1 .. Q - 1

\* Exactly one of P and -P has an odd y-coordinate.
ASSUME OddYAssumption ==
    /\ OddY \subseteq FinitePoint
    /\ \A d \in FinitePoint : d \in OddY <=> (Q - d) \notin OddY

Add(a, b) == (a + b) % Q
Mul(a, b) == (a * b) % Q
Neg(a) == (Q - a) % Q
Sub(a, b) == Add(a, Neg(b))

\* The even-y point with the x-coordinate of P: |P| in the spec.
XOnly(p) == IF p \in OddY THEN Neg(p) ELSE p

\* The sum of a family of scalars (or points) indexed by signers, as the
\* code's loops of scalar_add / gej_add compute it.
PointSum(f) == SumFunction(f) % Q

=============================================================================
