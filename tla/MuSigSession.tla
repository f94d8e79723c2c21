----------------------------- MODULE MuSigSession -----------------------------
(***************************************************************************)
(* The MuSig2 signing session of session_impl.h: nonce generation and      *)
(* aggregation, session processing, partial signing, partial-signature     *)
(* verification and partial-signature aggregation, over the KeyAggCache of *)
(* MuSigKeyAgg.                                                            *)
(*                                                                         *)
(* Each opaque object of the API is a variable holding its internal form   *)
(* and a magic flag: the *_load functions fail (ARG_CHECK) when the magic  *)
(* does not match, which is the case for an object that was zeroed or     *)
(* never written.  The caller is free to call any function at any time:    *)
(* the protocol order of spec section 4.8 is not assumed, only the         *)
(* contract that a session id is never repeated (it is drawn from a        *)
(* counter, nonce_gen_count).  Every cosigner's objects are distinct; the  *)
(* coordinator's copy of a cosigner's pubnonce and partial signature is    *)
(* the cosigner's own (transport is out of scope).                         *)
(*                                                                         *)
(* Hash functions are constants: the properties hold for every choice.     *)
(***************************************************************************)
EXTENDS MuSigKeyAgg, Sequences

CONSTANTS
    Msgs,               \* 32-byte messages a caller may sign
    AdaptorSecrets,     \* adaptor secrets t (the adaptor point is t*G)
    MaxNonceGen,        \* nonce_gen calls per cosigner (fresh session ids)
    NonceGenArgs,       \* which optional inputs a nonce_gen call passes
    NoArg,              \* an optional argument passed as NULL
    NonceHash(_, _, _, _, _, _),  \* k_j of secp256k1_nonce_function_musig
    NonceCoefHash(_, _, _, _),    \* b of secp256k1_musig_compute_noncehash
    ChallengeHash(_, _, _)        \* e of secp256k1_schnorrsig_challenge

ASSUME ConstantsAssumption ==
    /\ Msgs \subseteq Scalar
    /\ AdaptorSecrets \subseteq FinitePoint
    /\ MaxNonceGen \in Nat
    /\ NoArg \notin Int
    /\ NonceGenArgs \subseteq [key : BOOLEAN, cache : BOOLEAN, msg : Msgs \cup {NoArg}]

\* Session ids: the c-th call of cosigner i uses c * N + (i - 1).
Sids == 0 .. MaxNonceGen * N - 1

(* The two nonces derived from the seed; secp256k1_musig_nonce_gen         *)
(* VERIFY_CHECKs that neither is zero.                                     *)
ASSUME NonceHashAssumption ==
    \A sid \in Sids, key \in FinitePoint \cup {NoArg},
       pk \in Point \cup {NoArg}, m \in Msgs \cup {NoArg}, j \in {0, 1} :
        NonceHash(sid, key, pk, m, NoArg, j) \in FinitePoint

ASSUME SessionHashAssumption ==
    /\ \A r1, r2, pk \in Point, m \in Msgs : NonceCoefHash(r1, r2, pk, m) \in Scalar
    /\ \A r, pk \in Point, m \in Msgs : ChallengeHash(r, pk, m) \in Scalar

VARIABLES
    secnonce,       \* cosigner -> its secp256k1_musig_secnonce
    pubnonce,       \* cosigner -> its secp256k1_musig_pubnonce
    aggnonce,       \* the coordinator's secp256k1_musig_aggnonce
    session,        \* the secp256k1_musig_session all parties process
    partial_sig,    \* cosigner -> its secp256k1_musig_partial_sig
    sig64,          \* the 64-byte output of partial_sig_agg
    \* history, read only by the properties:
    nonce_gen_count,  \* cosigner -> session ids it has used
    secnonce_sid,     \* cosigner -> session id its secnonce was made from
    sign_log,         \* successful partial_sign calls: [signer, sid]
    call_log,         \* partial_sign calls whose secnonce loaded: [signer, sid]
    sign_src,         \* cosigner -> nonce, session, cache of its last signature
    session_src,      \* aggnonce, cache, msg, adaptor the session came from
    sig64_src         \* what partial_sig_agg aggregated

session_vars == <<secnonce, pubnonce, aggnonce, session, partial_sig, sig64,
                  nonce_gen_count, secnonce_sid, sign_log, call_log, sign_src,
                  session_src, sig64_src>>
vars == <<keypair, keyagg_cache, session_vars>>

SecNonceRec == [magic : BOOLEAN, k : Scalar \X Scalar]
PubNonceRec == [magic : BOOLEAN, r : Point \X Point]
SessionRec == [magic : BOOLEAN, fin_nonce_parity : BOOLEAN, fin_nonce : Point,
               b : Scalar, e : Scalar, s_part : Scalar]
PartialSigRec == [magic : BOOLEAN, s : Scalar]
Sig64Rec == [written : BOOLEAN, rx : Point, s : Scalar]

ZeroSecNonce == [magic |-> FALSE, k |-> <<0, 0>>]
ZeroPubNonce == [magic |-> FALSE, r |-> <<0, 0>>]
ZeroSession == [magic |-> FALSE, fin_nonce_parity |-> FALSE, fin_nonce |-> 0,
                b |-> 0, e |-> 0, s_part |-> 0]
ZeroPartialSig == [magic |-> FALSE, s |-> 0]
NoSig64 == [written |-> FALSE, rx |-> 0, s |-> 0]

SessionSrcRec == [aggnonce : Point \X Point, cache : CacheRec,
                  msg : Msgs \cup {NoArg}, adaptor : Point]
NoSessionSrc == [aggnonce |-> <<0, 0>>, cache |-> ZeroCache, msg |-> NoArg,
                 adaptor |-> 0]
SignSrcRec == [k : Scalar \X Scalar, session : SessionRec, cache : CacheRec]
NoSignSrc == [k |-> <<0, 0>>, session |-> ZeroSession, cache |-> ZeroCache]
Sig64SrcRec == [session : SessionSrcRec, parity : BOOLEAN, verified : BOOLEAN,
                nonces : [Signers -> Point \X Point], cache : CacheRec]
NoSig64Src == [session |-> NoSessionSrc, parity |-> FALSE, verified |-> FALSE,
               nonces |-> [i \in Signers |-> <<0, 0>>], cache |-> ZeroCache]

-----------------------------------------------------------------------------
(* Nonce generation and aggregation.                                       *)

\* secp256k1_nonce_function_musig: both nonces of one nonce_gen call.
NonceFunction(sid, key, pk, msg) ==
    <<NonceHash(sid, key, pk, msg, NoArg, 0), NonceHash(sid, key, pk, msg, NoArg, 1)>>

\* The coordinate-wise sum of the cosigners' public nonces.
SumNonces(r) == <<PointSum([i \in Signers |-> r[i][1]]),
                  PointSum([i \in Signers |-> r[i][2]])>>

(* nonce_gen for cosigner i with a fresh session id, optionally its secret *)
(* key, the cache and a message.  Both outputs are zeroed first; loading   *)
(* a cache that was never written then fails and leaves them zeroed.       *)
NonceGen(i, with_key, with_cache, msg) ==
    LET sid == nonce_gen_count[i] * N + (i - 1)
        key == IF with_key THEN keypair[i] ELSE NoArg
        pk == IF with_cache THEN XOnly(keyagg_cache.pk) ELSE NoArg
        k == NonceFunction(sid, key, pk, msg)
    IN  /\ nonce_gen_count[i] < MaxNonceGen
        /\ nonce_gen_count' = [nonce_gen_count EXCEPT ![i] = @ + 1]
        /\ \/ /\ with_cache /\ ~keyagg_cache.magic
              /\ secnonce' = [secnonce EXCEPT ![i] = ZeroSecNonce]
              /\ pubnonce' = [pubnonce EXCEPT ![i] = ZeroPubNonce]
              /\ UNCHANGED secnonce_sid
           \/ /\ with_cache => keyagg_cache.magic
              /\ secnonce' = [secnonce EXCEPT ![i] = [magic |-> TRUE, k |-> k]]
              /\ pubnonce' = [pubnonce EXCEPT ![i] = [magic |-> TRUE, r |-> k]]
              /\ secnonce_sid' = [secnonce_sid EXCEPT ![i] = sid]
        /\ UNCHANGED <<keypair, keyagg_cache, aggnonce, session, partial_sig,
                       sig64, sign_log, call_log, sign_src, session_src, sig64_src>>

(* nonce_agg over the N cosigners' public nonces: fails on a nonce that    *)
(* does not load and on a sum at infinity, leaving aggnonce as it was.     *)
NonceAgg ==
    LET sum == SumNonces([i \in Signers |-> pubnonce[i].r])
    IN  /\ \A i \in Signers : pubnonce[i].magic
        /\ sum[1] # 0 /\ sum[2] # 0
        /\ aggnonce' = [magic |-> TRUE, r |-> sum]
        /\ UNCHANGED <<keypair, keyagg_cache, secnonce, pubnonce, session,
                       partial_sig, sig64, nonce_gen_count, secnonce_sid,
                       sign_log, call_log, sign_src, session_src, sig64_src>>

-----------------------------------------------------------------------------
(* Session processing.                                                     *)

\* R_final = R_1 + b * R_2 (nonce_process_internal).
FinalNonce(r1, r2, b) == Add(Mul(b, r2), r1)

\* Mutant: e * tweak is never negated.
SPartNoParity(cache, e) ==
    IF ~cache.is_tweaked THEN 0 ELSE Mul(e, cache.tweak)

\* s_part: e * tweak, negated when the tweaked key has odd y; 0 untweaked.
SPart(cache, e) ==
    LET et == Mul(e, cache.tweak)
    IN  IF ~cache.is_tweaked THEN 0
        ELSE IF cache.pk \in OddY THEN Neg(et) ELSE et

(* nonce_process(aggnonce, msg, cache, adaptor): T is the adaptor point,   *)
(* 0 when the adaptor is NULL.  Fails, leaving the session as it was, when *)
(* the cache or the aggnonce do not load, when R_1 + T or R_final is       *)
(* infinity (pubkey serialisation fails), or when a tweaked cache holds a  *)
(* zero tweak (eckey_privkey_tweak_mul).                                   *)
NonceProcess(msg, T) ==
    LET c == keyagg_cache
        agg_pk32 == XOnly(c.pk)
        r1 == Add(aggnonce.r[1], T)
        r2 == aggnonce.r[2]
        b == NonceCoefHash(r1, r2, agg_pk32, msg)
        fin == FinalNonce(r1, r2, b)
        e == ChallengeHash(XOnly(fin), agg_pk32, msg)
    IN  /\ c.magic
        /\ aggnonce.magic
        /\ r1 # 0
        /\ fin # 0
        /\ c.is_tweaked => c.tweak # 0
        /\ session' = [magic |-> TRUE, fin_nonce_parity |-> fin \in OddY,
                       fin_nonce |-> XOnly(fin), b |-> b, e |-> e,
                       s_part |-> SPart(c, e)]
        /\ session_src' = [aggnonce |-> aggnonce.r, cache |-> c, msg |-> msg,
                           adaptor |-> T]
        /\ UNCHANGED <<keypair, keyagg_cache, secnonce, pubnonce, aggnonce,
                       partial_sig, sig64, nonce_gen_count, secnonce_sid,
                       sign_log, call_log, sign_src, sig64_src>>

-----------------------------------------------------------------------------
(* Partial signing.                                                        *)

\* Mutant: the internal-key term of the parity sum is left out.
SignNegatesKeyUntweaked(sk, cache) ==
    LET bit(p) == IF p THEN 1 ELSE 0
    IN  (bit(sk \in OddY) + bit(cache.pk \in OddY)) % 2 = 1

(* Whether partial_sign negates the secret key sk: the signer's point has  *)
(* odd y, plus the aggregate key has odd y, plus (if tweaked) the internal *)
(* key had odd y, is odd.                                                  *)
SignNegatesKey(sk, cache) ==
    LET bit(p) == IF p THEN 1 ELSE 0
    IN  (bit(sk \in OddY) + bit(cache.pk \in OddY)
           + bit(cache.is_tweaked /\ cache.internal_key_parity)) % 2 = 1

\* The secret nonces, negated when the final nonce has odd y.
SignNonces(k, sess) ==
    IF sess.fin_nonce_parity THEN <<Neg(k[1]), Neg(k[2])>> ELSE k

\* s_i = e * mu * (+-sk) + k_1 + b * k_2.
PartialSigValue(sk, k, cache, sess) ==
    LET x == IF SignNegatesKey(sk, cache) THEN Neg(sk) ELSE sk
        mu == KeyAggCoef(cache, XOnly(sk))
        kk == SignNonces(k, sess)
    IN  Add(Mul(sess.e, Mul(x, mu)), Add(kk[1], Mul(sess.b, kk[2])))

\* Mutant: the result of session_load is ignored.
SignInputsLoadNoSession(sn, cache, sess) == sn.magic /\ cache.magic

(* What partial_sign loads before it signs, in order: the secnonce (whose  *)
(* failure still zeroes it), the keypair (always loads here), the cache    *)
(* and the session; any failing load returns 0.                            *)
SignInputsLoad(sn, cache, sess) == sn.magic /\ cache.magic /\ sess.magic

\* Mutant: the memset of the secnonce is left out.
ConsumedSecNonceKept(sn, ok) == sn

(* Mutant: the memset is moved below the checks, next to the other        *)
(* clears, so a call that fails after loading the secnonce keeps it.      *)
ConsumedSecNonceLate(sn, ok) == IF ok THEN ZeroSecNonce ELSE sn

(* The memset of the secnonce right after loading it in partial_sign,     *)
(* whether or not the call goes on to sign (ok).                          *)
ConsumedSecNonce(sn, ok) == ZeroSecNonce

(* partial_sign for cosigner i.  The secnonce is zeroed right after it is  *)
(* loaded, before any check can return, so a second call fails; the       *)
(* signature is written only when the secnonce, the cache and the session *)
(* all load.                                                               *)
PartialSign(i) ==
    LET ok == SignInputsLoad(secnonce[i], keyagg_cache, session)
    IN  /\ secnonce' = [secnonce EXCEPT ![i] = ConsumedSecNonce(secnonce[i], ok)]
        /\ call_log' = IF secnonce[i].magic
                          THEN Append(call_log, [signer |-> i, sid |-> secnonce_sid[i]])
                          ELSE call_log
        /\ \/ /\ ok
              /\ partial_sig' = [partial_sig EXCEPT ![i] =
                   [magic |-> TRUE,
                    s |-> PartialSigValue(keypair[i], secnonce[i].k,
                                          keyagg_cache, session)]]
              /\ sign_log' = Append(sign_log, [signer |-> i, sid |-> secnonce_sid[i]])
              /\ sign_src' = [sign_src EXCEPT ![i] =
                   [k |-> secnonce[i].k, session |-> session, cache |-> keyagg_cache]]
           \/ /\ ~ok
              /\ UNCHANGED <<partial_sig, sign_log, sign_src>>
        /\ UNCHANGED <<keypair, keyagg_cache, pubnonce, aggnonce, session, sig64,
                       nonce_gen_count, secnonce_sid, session_src, sig64_src>>

-----------------------------------------------------------------------------
(* Partial-signature verification and aggregation.                         *)

(* partial_sig_verify negates e * mu when the aggregate key has odd y      *)
(* differs from (tweaked and the internal key had odd y).                  *)
VerifyNegatesChallenge(cache) ==
    (cache.pk \in OddY) # (cache.is_tweaked /\ cache.internal_key_parity)

(* partial_sig_verify of cosigner i's partial signature ps against the    *)
(* public nonce pn and its x-only key, the cache and the session: every    *)
(* load must succeed and -s*G + e'*P_i + R_i must be infinity.             *)
PartialSigVerifyWith(ps, pn, i) ==
    LET c == keyagg_cache
        pk == XOnly(keypair[i])
        e0 == Mul(session.e, KeyAggCoef(c, pk))
        e == IF VerifyNegatesChallenge(c) THEN Neg(e0) ELSE e0
        rj0 == FinalNonce(pn.r[1], pn.r[2], session.b)
        rj == IF session.fin_nonce_parity THEN Neg(rj0) ELSE rj0
    IN  /\ session.magic
        /\ pn.magic
        /\ c.magic
        /\ ps.magic
        /\ Add(Add(Neg(ps.s), Mul(e, pk)), rj) = 0

\* partial_sig_verify called with cosigner i's own objects.
PartialSigVerify(i) == PartialSigVerifyWith(partial_sig[i], pubnonce[i], i)

\* Mutant: the sum is not reduced modulo n.
PartialSigSumUnreduced(sess, ps) ==
    sess.s_part + SumFunction([i \in Signers |-> ps[i].s])

\* s_part plus the sum of the partial signatures.
PartialSigSum(sess, ps) == Add(sess.s_part, PointSum([i \in Signers |-> ps[i].s]))

(* partial_sig_agg(session, all N partial signatures): fails without      *)
(* writing sig64 when the session or a partial signature does not load.   *)
PartialSigAgg ==
    /\ session.magic
    /\ \A i \in Signers : partial_sig[i].magic
    /\ sig64' = [written |-> TRUE, rx |-> session.fin_nonce,
                 s |-> PartialSigSum(session, partial_sig)]
    /\ sig64_src' = [session |-> session_src,
                     parity |-> session.fin_nonce_parity,
                     verified |-> \A i \in Signers : PartialSigVerify(i),
                     nonces |-> [i \in Signers |-> pubnonce[i].r],
                     cache |-> keyagg_cache]
    /\ UNCHANGED <<keypair, keyagg_cache, secnonce, pubnonce, aggnonce, session,
                   partial_sig, nonce_gen_count, secnonce_sid, sign_log, call_log,
                   sign_src, session_src>>

-----------------------------------------------------------------------------
Init ==
    /\ KeyAggInit
    /\ secnonce = [i \in Signers |-> ZeroSecNonce]
    /\ pubnonce = [i \in Signers |-> ZeroPubNonce]
    /\ aggnonce = ZeroPubNonce
    /\ session = ZeroSession
    /\ partial_sig = [i \in Signers |-> ZeroPartialSig]
    /\ sig64 = NoSig64
    /\ nonce_gen_count = [i \in Signers |-> 0]
    /\ secnonce_sid = [i \in Signers |-> 0]
    /\ sign_log = <<>>
    /\ call_log = <<>>
    /\ sign_src = [i \in Signers |-> NoSignSrc]
    /\ session_src = NoSessionSrc
    /\ sig64_src = NoSig64Src

Next ==
    \/ KeyAggNext /\ UNCHANGED session_vars
    \/ \E i \in Signers, a \in NonceGenArgs : NonceGen(i, a.key, a.cache, a.msg)
    \/ NonceAgg
    \/ \E m \in Msgs, T \in AdaptorSecrets \cup {0} : NonceProcess(m, T)
    \/ \E i \in Signers : PartialSign(i)
    \/ PartialSigAgg

Spec == Init /\ [][Next]_vars

-----------------------------------------------------------------------------
(* Properties.                                                             *)

TypeOK ==
    /\ keypair \in KeyPairs
    /\ keyagg_cache \in CacheRec
    /\ secnonce \in [Signers -> SecNonceRec]
    /\ pubnonce \in [Signers -> PubNonceRec]
    /\ aggnonce \in PubNonceRec
    /\ session \in SessionRec
    /\ partial_sig \in [Signers -> PartialSigRec]
    /\ sig64 \in Sig64Rec
    /\ nonce_gen_count \in [Signers -> 0 .. MaxNonceGen]
    /\ secnonce_sid \in [Signers -> Sids \cup {0}]
    /\ sign_log \in Seq([signer : Signers, sid : Sids \cup {0}])
    /\ call_log \in Seq([signer : Signers, sid : Sids \cup {0}])
    /\ sign_src \in [Signers -> SignSrcRec]
    /\ session_src \in SessionSrcRec
    /\ sig64_src \in Sig64SrcRec

(* BIP-340 verification of (rx, s) under the x-only key pkx: R = s*G - e*P *)
(* must be finite, have even y and x-coordinate rx.                        *)
Bip340Valid(rx, s, pkx, msg) ==
    LET r == Sub(s, Mul(ChallengeHash(rx, pkx, msg), pkx))
    IN  r # 0 /\ r \notin OddY /\ XOnly(r) = rx

(* Nonce reuse (spec 3, 8.7): no two successful partial_sign calls of a    *)
(* cosigner consume the secnonce of one nonce_gen call.  Two signatures    *)
(* with one nonce and different challenges reveal the secret key; the     *)
(* code prevents it by zeroing the secnonce in partial_sign.              *)
NonceUsedOnce ==
    \A a, b \in DOMAIN sign_log : a # b => sign_log[a] # sign_log[b]

(* One call per secnonce (spec 3 step 1 and the zeroization rule of spec  *)
(* 5; the header of partial_sign, secp256k1_musig.h:347-352): a secnonce   *)
(* that one partial_sign call has loaded is never loaded by another,       *)
(* whether the first call signed or failed on the keypair, the cache or    *)
(* the session.  The code keeps it by zeroing the secnonce at              *)
(* session_impl.h:460, before any check that can return.                  *)
NonceCalledOnce ==
    \A a, b \in DOMAIN call_log : a # b => call_log[a] # call_log[b]

(* Partial-verify completeness (spec 8.2): a partial signature verifies    *)
(* when it was made from the nonce behind the cosigner's current public    *)
(* nonce, under the session and cache it is verified with; the parity     *)
(* flips of partial_sign and of partial_sig_verify must agree on every    *)
(* combination of signer-key, aggregate-key, internal-key and nonce parity.*)
HonestPartialSigVerifies ==
    \A i \in Signers :
        /\ partial_sig[i].magic
        /\ sign_src[i].session = session
        /\ sign_src[i].cache = keyagg_cache
        /\ pubnonce[i] = [magic |-> TRUE, r |-> sign_src[i].k]
        => PartialSigVerify(i)

(* Signature validity (spec 8.1, 8.6, S3): when partial_sig_agg combines   *)
(* partial signatures that all passed partial_sig_verify, under a session *)
(* processed from the sum of the public nonces they were verified with    *)
(* and from the cache they were verified with, the 64-byte result is a    *)
(* valid BIP-340 signature under the (tweaked) aggregate x-only key if    *)
(* and only if the session had no adaptor.                                *)
VerifiedPreSigValid ==
    LET src == sig64_src.session
    IN  /\ sig64.written
        /\ sig64_src.verified
        /\ src.cache = sig64_src.cache
        /\ src.aggnonce = SumNonces(sig64_src.nonces)
        => (Bip340Valid(sig64.rx, sig64.s, XOnly(src.cache.pk), src.msg)
              <=> src.adaptor = 0)

=============================================================================
