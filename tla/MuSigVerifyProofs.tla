-------------------------- MODULE MuSigVerifyProofs --------------------------
(***************************************************************************)
(* Completeness of partial-signature verification (spec 8.2), for every    *)
(* group order Q, number of cosigners N and choice of the hash functions:  *)
(* a partial signature partial_sign wrote passes partial_sig_verify under  *)
(* the nonce, cache and session it was made from.  The argument is         *)
(* arithmetic modulo n: both sides reduce to one polynomial in the secret  *)
(* key, the nonces and the session's coefficients, and the parity flips of *)
(* partial_sign and partial_sig_verify cancel.                             *)
(***************************************************************************)
EXTENDS MuSigSessionProofs, MuSigGroupProofs

(* The inductive strengthening of HonestPartialSigVerifies: a partial      *)
(* signature that was written holds what partial_sign computed from the    *)
(* secret nonce, cache and session recorded in sign_src, and that cache    *)
(* and session had loaded.  No other call writes partial_sig, and          *)
(* partial_sign records its inputs in the same step.                       *)
SigFromSrc ==
    \A i \in Signers : partial_sig[i].magic =>
        /\ sign_src[i].cache.magic
        /\ sign_src[i].session.magic
        /\ partial_sig[i].s = PartialSigValue(keypair[i], sign_src[i].k,
                                              sign_src[i].cache,
                                              sign_src[i].session)

SignInv == TypeOK /\ SigFromSrc

-----------------------------------------------------------------------------
(* The verification equation.                                              *)

(* -s*G + e'*P_i + R_i of partial_sig_verify for the scalar s, the public  *)
(* nonce r, the x-only key pk, the cache and the session (the last         *)
(* conjunct of PartialSigVerifyWith).                                      *)
VerifyResidual(s, r, pk, c, sess) ==
    LET e0 == Mul(sess.e, KeyAggCoef(c, pk))
        e == IF VerifyNegatesChallenge(c) THEN Neg(e0) ELSE e0
        rj0 == FinalNonce(r[1], r[2], sess.b)
        rj == IF sess.fin_nonce_parity THEN Neg(rj0) ELSE rj0
    IN  Add(Add(Neg(s), Mul(e, pk)), rj)

(* partial_sign negates the secret key exactly when the key's own point    *)
(* has odd y differs from partial_sig_verify's negation of e: the two      *)
(* flips that remain agree with the negation XOnly applies to P_i.         *)
LEMMA ParityAgree ==
    ASSUME NEW sk, NEW c \in CacheRec
    PROVE  Sgn(SignNegatesKey(sk, c))
             = Sgn(sk \in OddY) * Sgn(VerifyNegatesChallenge(c))
<1>. DEFINE po == sk \in OddY
            pc == c.pk \in OddY
            ti == c.is_tweaked /\ c.internal_key_parity
<1>1. po \in BOOLEAN /\ pc \in BOOLEAN /\ ti \in BOOLEAN
  BY DEF CacheRec
<1>. QED
  BY <1>1 DEF SignNegatesKey, VerifyNegatesChallenge, Sgn, po, pc, ti

(* Completeness of the verification equation: for every secret key, pair  *)
(* of secret nonces, cache and session, the partial signature partial_sign *)
(* computes leaves residual zero under the public nonce of the same pair   *)
(* and the signer's x-only key.                                            *)
LEMMA VerifyComplete ==
    ASSUME NEW sk \in FinitePoint, NEW k \in Scalar \X Scalar,
           NEW c \in CacheRec, NEW sess \in SessionRec
    PROVE  VerifyResidual(PartialSigValue(sk, k, c, sess), k, XOnly(sk), c, sess) = 0
<1>. DEFINE E == sess.e
            B == sess.b
            k1 == k[1]
            k2 == k[2]
            pk == XOnly(sk)
            mu == KeyAggCoef(c, pk)
            nk == SignNegatesKey(sk, c)
            np == sk \in OddY
            nv == VerifyNegatesChallenge(c)
            nn == sess.fin_nonce_parity
            x == IF nk THEN Neg(sk) ELSE sk
            kk == SignNonces(k, sess)
            s == PartialSigValue(sk, k, c, sess)
            e0 == Mul(E, mu)
            e == IF nv THEN Neg(e0) ELSE e0
            rj0 == FinalNonce(k1, k2, B)
            rj == IF nn THEN Neg(rj0) ELSE rj0
<1>0. /\ sk \in Int /\ k1 \in Int /\ k2 \in Int /\ E \in Int /\ B \in Int
      /\ sk % Q = sk /\ k1 % Q = k1 /\ k2 % Q = k2 /\ E % Q = E /\ B % Q = B
  <2>1. sk \in Scalar /\ k1 \in Scalar /\ k2 \in Scalar /\ E \in Scalar /\ B \in Scalar
    BY QAssumption DEF FinitePoint, Scalar, SessionRec, k1, k2, E, B
  <2>. QED  BY <2>1, ScalarMod, ScalarInt
<1>1. mu \in Int /\ mu % Q = mu
  <2>1. pk \in Point /\ c.pk_hash \in Scalar
    BY QAssumption, XOnlyType DEF Point, Scalar, FinitePoint, CacheRec, pk
  <2>2. KeyAggCoefHash(c.pk_hash, pk) \in Scalar
    BY <2>1, KeyAggHashAssumption
  <2>3. mu \in Scalar
    BY <2>2, QAssumption DEF KeyAggCoef, Scalar, mu
  <2>. QED  BY <2>3, ScalarMod, ScalarInt
<1>2. /\ nk \in BOOLEAN /\ np \in BOOLEAN /\ nv \in BOOLEAN /\ nn \in BOOLEAN
      /\ Sgn(nk) = Sgn(np) * Sgn(nv)
      /\ Sgn(nk) \in Int /\ Sgn(np) \in Int /\ Sgn(nv) \in Int /\ Sgn(nn) \in Int
  BY ParityAgree DEF nk, np, nv, nn, SignNegatesKey, VerifyNegatesChallenge,
                     SessionRec, Sgn
<1>3. x = (Sgn(nk) * sk) % Q
  <2>1. (IF nk THEN Neg(sk % Q) ELSE sk % Q) = (Sgn(nk) * sk) % Q
    BY <1>0, <1>2, CondNegRed
  <2>. QED  BY <1>0, <2>1 DEF x
<1>4. pk = (Sgn(np) * sk) % Q
  <2>1. (IF np THEN Neg(sk % Q) ELSE sk % Q) = (Sgn(np) * sk) % Q
    BY <1>0, <1>2, CondNegRed
  <2>. QED  BY <1>0, <2>1 DEF pk, XOnly, np
<1>5. kk[1] = (Sgn(nn) * k1) % Q /\ kk[2] = (Sgn(nn) * k2) % Q
  <2>1. (IF nn THEN Neg(k1 % Q) ELSE k1 % Q) = (Sgn(nn) * k1) % Q
    BY <1>0, <1>2, CondNegRed
  <2>2. (IF nn THEN Neg(k2 % Q) ELSE k2 % Q) = (Sgn(nn) * k2) % Q
    BY <1>0, <1>2, CondNegRed
  <2>. QED  BY <1>0, <2>1, <2>2 DEF kk, SignNonces, k1, k2, nn
<1>6. s = (E * (Sgn(nk) * sk * mu) + (Sgn(nn) * k1 + B * (Sgn(nn) * k2))) % Q
  <2>0. Sgn(nk) * sk \in Int /\ Sgn(nk) * sk * mu \in Int
        /\ Sgn(nn) * k1 \in Int /\ Sgn(nn) * k2 \in Int /\ B * (Sgn(nn) * k2) \in Int
    BY <1>0, <1>1, <1>2
  <2>1. Mul(x, mu) = (Sgn(nk) * sk * mu) % Q
    <3>1. Mul((Sgn(nk) * sk) % Q, mu % Q) = ((Sgn(nk) * sk) * mu) % Q
      BY <1>1, <2>0, MulRed
    <3>. QED  BY <1>1, <1>3, <3>1
  <2>2. Mul(E, Mul(x, mu)) = (E * (Sgn(nk) * sk * mu)) % Q
    <3>1. Mul(E % Q, (Sgn(nk) * sk * mu) % Q) = (E * (Sgn(nk) * sk * mu)) % Q
      BY <1>0, <2>0, MulRed
    <3>. QED  BY <1>0, <2>1, <3>1
  <2>3. Mul(B, kk[2]) = (B * (Sgn(nn) * k2)) % Q
    <3>1. Mul(B % Q, (Sgn(nn) * k2) % Q) = (B * (Sgn(nn) * k2)) % Q
      BY <1>0, <2>0, MulRed
    <3>. QED  BY <1>0, <1>5, <3>1
  <2>4. Add(kk[1], Mul(B, kk[2])) = (Sgn(nn) * k1 + B * (Sgn(nn) * k2)) % Q
    <3>1. Add((Sgn(nn) * k1) % Q, (B * (Sgn(nn) * k2)) % Q)
            = (Sgn(nn) * k1 + B * (Sgn(nn) * k2)) % Q
      BY <2>0, AddRed
    <3>. QED  BY <1>5, <2>3, <3>1
  <2>5. s = Add(Mul(E, Mul(x, mu)), Add(kk[1], Mul(B, kk[2])))
    BY DEF s, PartialSigValue, x, mu, pk, kk, E, B, nk
  <2>6. Add((E * (Sgn(nk) * sk * mu)) % Q, (Sgn(nn) * k1 + B * (Sgn(nn) * k2)) % Q)
          = (E * (Sgn(nk) * sk * mu) + (Sgn(nn) * k1 + B * (Sgn(nn) * k2))) % Q
    <3>1. E * (Sgn(nk) * sk * mu) \in Int /\ Sgn(nn) * k1 + B * (Sgn(nn) * k2) \in Int
      BY <1>0, <2>0
    <3>. QED  BY <3>1, AddRed
  <2>. QED  BY <2>2, <2>4, <2>5, <2>6
<1>7. e = (Sgn(nv) * (E * mu)) % Q
  <2>1. e0 = (E * mu) % Q
    BY DEF e0, Mul
  <2>2. (IF nv THEN Neg((E * mu) % Q) ELSE (E * mu) % Q) = (Sgn(nv) * (E * mu)) % Q
    BY <1>0, <1>1, <1>2, CondNegRed
  <2>. QED  BY <2>1, <2>2 DEF e
<1>8. rj = (Sgn(nn) * (B * k2 + k1)) % Q
  <2>1. Mul(B, k2) = (B * k2) % Q
    BY DEF Mul
  <2>2. rj0 = (B * k2 + k1) % Q
    <3>1. Add((B * k2) % Q, k1 % Q) = (B * k2 + k1) % Q
      <4>. B * k2 \in Int  BY <1>0
      <4>. QED  BY <1>0, AddRed
    <3>. QED  BY <1>0, <2>1, <3>1 DEF rj0, FinalNonce
  <2>3. (IF nn THEN Neg((B * k2 + k1) % Q) ELSE (B * k2 + k1) % Q)
          = (Sgn(nn) * (B * k2 + k1)) % Q
    BY <1>0, <1>2, CondNegRed
  <2>. QED  BY <2>2, <2>3 DEF rj
<1>. DEFINE S == E * (Sgn(nk) * sk * mu) + (Sgn(nn) * k1 + B * (Sgn(nn) * k2))
            T == (Sgn(nv) * (E * mu)) * (Sgn(np) * sk)
            U == Sgn(nn) * (B * k2 + k1)
<1>9. S \in Int /\ T \in Int /\ U \in Int
  BY <1>0, <1>1, <1>2 DEF S, T, U
<1>10. VerifyResidual(s, k, pk, c, sess) = ((-S) + T + U) % Q
  <2>1. Neg(s) = (-S) % Q
    BY <1>6, <1>9, NegRed DEF S
  <2>2. Mul(e, pk) = T % Q
    <3>1. Sgn(nv) * (E * mu) \in Int /\ Sgn(np) * sk \in Int
      BY <1>0, <1>1, <1>2
    <3>2. Mul((Sgn(nv) * (E * mu)) % Q, (Sgn(np) * sk) % Q)
            = ((Sgn(nv) * (E * mu)) * (Sgn(np) * sk)) % Q
      BY <3>1, MulRed
    <3>. QED  BY <1>4, <1>7, <3>2 DEF T
  <2>3. Add(Neg(s), Mul(e, pk)) = ((-S) + T) % Q
    BY <1>9, <2>1, <2>2, AddRed
  <2>4. Add(Add(Neg(s), Mul(e, pk)), rj) = ((-S) + T + U) % Q
    BY <1>8, <1>9, <2>3, AddRed DEF U
  <2>. QED  BY <2>4 DEF VerifyResidual, e, e0, rj, rj0, mu, nv, nn, E, B, k1, k2
<1>11. (-S) + T + U = 0
  BY <1>0, <1>1, <1>2 DEF S, T, U
<1>. QED  BY <1>10, <1>11, QAssumption DEF s, pk

-----------------------------------------------------------------------------
(* The invariant.                                                          *)

\* No partial signature is written initially.
LEMMA SignInvInit == Init => SignInv
<1>. SUFFICES ASSUME Init PROVE SignInv  OBVIOUS
<1>1. \A i \in Signers : ~partial_sig[i].magic
  BY DEF Init, ZeroPartialSig
<1>. QED  BY <1>1, TypeOKInit DEF SignInv, SigFromSrc

(* partial_sign writes a partial signature and records its inputs in one   *)
(* step; every other call leaves the partial signatures, their records and *)
(* the keys alone.                                                         *)
LEMMA SignInvStep == SignInv /\ [Next]_vars => SignInv'
<1>. SUFFICES ASSUME SignInv, [Next]_vars PROVE SignInv'  OBVIOUS
<1>. TypeOK'  BY TypeOKStep DEF SignInv
<1>1. ASSUME NEW i \in Signers, PartialSign(i) PROVE SigFromSrc'
  <2>1. CASE SignInputsLoad(secnonce[i], keyagg_cache, session)
    <3>1. /\ partial_sig' = [partial_sig EXCEPT ![i] =
               [magic |-> TRUE,
                s |-> PartialSigValue(keypair[i], secnonce[i].k,
                                      keyagg_cache, session)]]
          /\ sign_src' = [sign_src EXCEPT ![i] =
               [k |-> secnonce[i].k, session |-> session, cache |-> keyagg_cache]]
          /\ UNCHANGED keypair
      BY <1>1, <2>1 DEF PartialSign
    <3>2. keyagg_cache.magic /\ session.magic
      BY <2>1 DEF SignInputsLoad
    <3>. QED  BY <3>1, <3>2 DEF SignInv, SigFromSrc, TypeOK
  <2>2. CASE ~SignInputsLoad(secnonce[i], keyagg_cache, session)
    <3>1. UNCHANGED <<partial_sig, sign_src, keypair>>
      BY <1>1, <2>2 DEF PartialSign
    <3>. QED  BY <3>1 DEF SignInv, SigFromSrc
  <2>. QED  BY <2>1, <2>2
<1>2. ASSUME UNCHANGED <<partial_sig, sign_src, keypair>> PROVE SigFromSrc'
  BY <1>2 DEF SignInv, SigFromSrc
<1>. QED
  BY <1>1, <1>2
  DEF SignInv, Next, KeyAggNext, PubkeyAgg, PubkeyTweakAdd, session_vars,
      NonceGen, NonceAgg, NonceProcess, PartialSigAgg, vars

(* In every reachable state, for every group order and hash function, a    *)
(* partial signature that loads is the value partial_sign computed from    *)
(* the keypair and the secnonce, cache and session it loaded, even after   *)
(* later nonce_gen, nonce_process or failed partial_sign calls.            *)
LEMMA SignInvariant == Spec => []SignInv
BY SignInvInit, SignInvStep, PTL DEF Spec

-----------------------------------------------------------------------------
(* Partial-verify completeness (spec 8.2), for every group order, number   *)
(* of cosigners and hash functions: whenever cosigner i's partial          *)
(* signature, its current public nonce, the cache and the session are the  *)
(* ones partial_sign used, partial_sig_verify accepts it; the parity flips *)
(* of partial_sign (signer key, aggregate key, internal key, final nonce)  *)
(* and those of partial_sig_verify agree in every combination.             *)
THEOREM HonestVerifies == Spec => []HonestPartialSigVerifies
<1>1. SignInv => HonestPartialSigVerifies
  <2>. SUFFICES ASSUME SignInv, NEW i \in Signers,
                       partial_sig[i].magic,
                       sign_src[i].session = session,
                       sign_src[i].cache = keyagg_cache,
                       pubnonce[i] = [magic |-> TRUE, r |-> sign_src[i].k]
                PROVE  PartialSigVerify(i)
    BY DEF HonestPartialSigVerifies
  <2>1. /\ keypair[i] \in FinitePoint
        /\ sign_src[i].k \in Scalar \X Scalar
        /\ keyagg_cache \in CacheRec
        /\ session \in SessionRec
    BY KeyPairsAssumption DEF SignInv, TypeOK, SignSrcRec
  <2>2. /\ keyagg_cache.magic /\ session.magic
        /\ partial_sig[i].s = PartialSigValue(keypair[i], sign_src[i].k,
                                              keyagg_cache, session)
    BY DEF SignInv, SigFromSrc
  <2>3. VerifyResidual(partial_sig[i].s, sign_src[i].k, XOnly(keypair[i]),
                       keyagg_cache, session) = 0
    BY <2>1, <2>2, VerifyComplete
  <2>. QED  BY <2>2, <2>3 DEF PartialSigVerify, PartialSigVerifyWith, VerifyResidual
<1>. QED  BY <1>1, SignInvariant, PTL

=============================================================================
