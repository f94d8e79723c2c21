-------------------------- MODULE MuSigGroupProofs --------------------------
(***************************************************************************)
(* Lemmas about the scalar arithmetic of MuSigGroup, for every group       *)
(* order Q: scalar_add, scalar_mul and scalar_negate of reduced operands   *)
(* reduce the integer sum, product and negation, so a chain of them        *)
(* computes one polynomial modulo n.  The proofs of completeness of        *)
(* partial_sig_verify and of the adaptor round trip rest on them.          *)
(***************************************************************************)
EXTENDS MuSigGroup, TLAPS

(* Arithmetic modulo the group order.  Every reduction a % Q is the        *)
(* unique r in 0 .. Q - 1 with a = k * Q + r, so reducing an operand of a  *)
(* sum or a product before the operation does not change the result.      *)

\* a is its quotient by Q times Q plus its remainder.
LEMMA ModDecomp ==
    ASSUME NEW a \in Int
    PROVE  a = (a \div Q) * Q + (a % Q)
BY QAssumption

\* The remainder is the only value in range that differs from a by a
\* multiple of Q.
LEMMA ModUnique ==
    ASSUME NEW a \in Int, NEW k \in Int, NEW r \in 0 .. Q - 1, a = k * Q + r
    PROVE  a % Q = r
BY QAssumption, SMTT(60)

\* Adding a multiple of Q does not change the remainder.
LEMMA ModShift ==
    ASSUME NEW a \in Int, NEW m \in Int
    PROVE  (a + m * Q) % Q = a % Q
<1>. DEFINE d == a \div Q
            r == a % Q
<1>1. d \in Int /\ r \in 0 .. Q - 1 /\ a = d * Q + r
  BY ModDecomp, QAssumption
<1>2. a + m * Q = (d + m) * Q + r
  BY <1>1, QAssumption
<1>3. (d + m) \in Int /\ a + m * Q \in Int
  BY <1>1, QAssumption
<1>. QED  BY <1>1, <1>2, <1>3, ModUnique, Zenon

\* Reducing the left operand of a sum first.
LEMMA AddModL ==
    ASSUME NEW a \in Int, NEW b \in Int
    PROVE  ((a % Q) + b) % Q = (a + b) % Q
<1>. DEFINE d == a \div Q
<1>1. d \in Int /\ a = d * Q + (a % Q)
  BY ModDecomp, QAssumption
<1>2. a + b = ((a % Q) + b) + d * Q
  BY <1>1, QAssumption
<1>3. (a % Q) + b \in Int
  BY QAssumption
<1>. QED  BY <1>1, <1>2, <1>3, ModShift

\* Reducing the left operand of a product first.
LEMMA MulModL ==
    ASSUME NEW a \in Int, NEW b \in Int
    PROVE  ((a % Q) * b) % Q = (a * b) % Q
<1>. DEFINE d == a \div Q
<1>1. d \in Int /\ a = d * Q + (a % Q)
  BY ModDecomp, QAssumption
<1>2. a * b = ((a % Q) * b) + (d * b) * Q
  BY <1>1, QAssumption
<1>3. (a % Q) * b \in Int /\ d * b \in Int
  BY <1>1, QAssumption
<1>. QED  BY <1>1, <1>2, <1>3, ModShift

-----------------------------------------------------------------------------
(* The group operations of MuSigGroup on reduced operands.                 *)

\* A scalar is its own reduction.
LEMMA ScalarMod ==
    ASSUME NEW a \in Scalar
    PROVE  a % Q = a
BY QAssumption DEF Scalar

\* scalar_add of two reductions reduces the sum.
LEMMA AddRed ==
    ASSUME NEW a \in Int, NEW b \in Int
    PROVE  Add(a % Q, b % Q) = (a + b) % Q
<1>0. b % Q \in Int
  BY QAssumption
<1>1. ((a % Q) + (b % Q)) % Q = (a + (b % Q)) % Q
  BY <1>0, AddModL, Zenon
<1>2. ((b % Q) + a) % Q = (b + a) % Q
  BY AddModL
<1>. QED  BY <1>1, <1>2, QAssumption DEF Add

\* scalar_mul of two reductions reduces the product.
LEMMA MulRed ==
    ASSUME NEW a \in Int, NEW b \in Int
    PROVE  Mul(a % Q, b % Q) = (a * b) % Q
<1>0. b % Q \in Int
  BY QAssumption
<1>1. ((a % Q) * (b % Q)) % Q = (a * (b % Q)) % Q
  BY <1>0, MulModL, Zenon
<1>2. ((b % Q) * a) % Q = (b * a) % Q
  BY MulModL
<1>. QED  BY <1>1, <1>2, QAssumption DEF Mul

\* scalar_negate of a reduction reduces the negation.
LEMMA NegRed ==
    ASSUME NEW a \in Int
    PROVE  Neg(a % Q) = (-a) % Q
<1>1. (Q - (a % Q)) % Q = (-(a % Q)) % Q
  <2>1. Q - (a % Q) = (-(a % Q)) + 1 * Q
    BY QAssumption
  <2>2. -(a % Q) \in Int /\ 1 \in Int
    BY QAssumption
  <2>3. ((-(a % Q)) + 1 * Q) % Q = (-(a % Q)) % Q
    BY <2>2, ModShift, Zenon
  <2>. QED  BY <2>1, <2>3
<1>2. ((a % Q) * (-1)) % Q = (a * (-1)) % Q
  BY MulModL
<1>. QED  BY <1>1, <1>2, QAssumption DEF Neg

\* The sign a conditional negation multiplies by.
Sgn(b) == IF b THEN -1 ELSE 1

\* A conditional scalar_negate of a reduction multiplies by the sign.
LEMMA CondNegRed ==
    ASSUME NEW a \in Int, NEW b \in BOOLEAN
    PROVE  (IF b THEN Neg(a % Q) ELSE a % Q) = (Sgn(b) * a) % Q
BY NegRed DEF Sgn

=============================================================================
