-------------------------- MODULE MuSigSessionProofs --------------------------
(***************************************************************************)
(* Proofs about the signing session of MuSigSession, for every group       *)
(* order Q, every number of cosigners N and every choice of the hash       *)
(* functions allowed by the assumptions of the modules it extends.         *)
(***************************************************************************)
EXTENDS MuSigSession, SequenceTheorems, TLAPS

-----------------------------------------------------------------------------
(* The group operations of MuSigGroup stay in the group.                   *)

\* Reduction modulo the group order lands in the scalars.
LEMMA ModScalar ==
    ASSUME NEW a \in Int
    PROVE  a % Q \in Scalar
BY QAssumption DEF Scalar

\* Scalars, points and finite points are integers.
LEMMA ScalarInt == Scalar \subseteq Int /\ FinitePoint \subseteq Scalar
BY QAssumption DEF Scalar, FinitePoint

\* scalar_add, scalar_mul and scalar_negate return scalars.
LEMMA AddType ==
    ASSUME NEW a \in Int, NEW b \in Int
    PROVE  Add(a, b) \in Scalar
BY QAssumption DEF Add, Scalar

LEMMA MulType ==
    ASSUME NEW a \in Int, NEW b \in Int
    PROVE  Mul(a, b) \in Scalar
BY QAssumption DEF Mul, Scalar

LEMMA NegType ==
    ASSUME NEW a \in Int
    PROVE  Neg(a) \in Scalar
BY QAssumption DEF Neg, Scalar

\* The x-only form of a point is a point.
LEMMA XOnlyType ==
    ASSUME NEW p \in Point
    PROVE  XOnly(p) \in Point
BY NegType, ScalarInt DEF XOnly, Point

\* A sum over the cosigners is a scalar.
LEMMA PointSumType ==
    ASSUME NEW f \in [Signers -> Scalar]
    PROVE  PointSum(f) \in Scalar
BY SumFunctionAssumption, ModScalar DEF PointSum

\* The second distinct key of a key list is a point.
LEMMA SecondPkXType ==
    ASSUME NEW keys \in [Signers -> Point]
    PROVE  SecondPkX(keys) \in Point
<1> DEFINE differ == {j \in Signers : keys[j] # keys[1]}
<1>1. CASE differ = {}
  BY <1>1, QAssumption DEF SecondPkX, Point, Scalar
<1>2. CASE differ # {}
  <2>1. \E j \in differ : \A l \in differ : j <= l
    BY <1>2, FirstSignerAssumption
  <2>2. (CHOOSE j \in differ : \A l \in differ : j <= l) \in Signers
    BY <2>1
  <2>. QED  BY <1>2, <2>2 DEF SecondPkX
<1>. QED  BY <1>1, <1>2

\* Session ids drawn from the counter are session ids.
LEMMA SidType ==
    ASSUME NEW c \in 0 .. MaxNonceGen - 1, NEW i \in Signers
    PROVE  c * N + (i - 1) \in Sids
<1>1. c * N <= (MaxNonceGen - 1) * N
  BY NAssumption, ConstantsAssumption
<1>. QED  BY <1>1, NAssumption, ConstantsAssumption DEF Sids, Signers

-----------------------------------------------------------------------------
(* Type correctness.                                                       *)

\* The objects start zeroed, which is well typed.
LEMMA TypeOKInit == Init => TypeOK
<1>. SUFFICES ASSUME Init PROVE TypeOK  OBVIOUS
<1>1. ZeroCache \in CacheRec
  BY QAssumption DEF ZeroCache, CacheRec, Point, Scalar
<1>2. ZeroSession \in SessionRec
  BY QAssumption DEF ZeroSession, SessionRec, Point, Scalar
<1>3. /\ ZeroSecNonce \in SecNonceRec /\ ZeroPubNonce \in PubNonceRec
      /\ ZeroPartialSig \in PartialSigRec /\ NoSig64 \in Sig64Rec
  BY QAssumption DEF ZeroSecNonce, SecNonceRec, ZeroPubNonce, PubNonceRec,
                     ZeroPartialSig, PartialSigRec, NoSig64, Sig64Rec,
                     Point, Scalar
<1>4. NoSessionSrc \in SessionSrcRec
  BY <1>1, QAssumption DEF NoSessionSrc, SessionSrcRec, Point, Scalar
<1>5. NoSignSrc \in SignSrcRec
  BY <1>1, <1>2, QAssumption DEF NoSignSrc, SignSrcRec, Scalar
<1>6. NoSig64Src \in Sig64SrcRec
  BY <1>1, <1>4, QAssumption DEF NoSig64Src, Sig64SrcRec, Point, Scalar
<1>7. 0 \in Sids \cup {0}
  OBVIOUS
<1>. QED
  BY <1>1, <1>2, <1>3, <1>5, <1>4, <1>6, <1>7, ConstantsAssumption
  DEF Init, KeyAggInit, TypeOK

\* Every API call keeps the objects well typed.
LEMMA TypeOKStep == TypeOK /\ [Next]_vars => TypeOK'
<1>. SUFFICES ASSUME TypeOK, [Next]_vars PROVE TypeOK'  OBVIOUS
<1>. USE ScalarInt
<1>1. ASSUME KeyAggNext, UNCHANGED session_vars PROVE TypeOK'
  <2>1. CASE PubkeyAgg
    <3>1. Keys \in [Signers -> Point]
      <4>. \A j \in Signers : keypair[j] \in Point
        BY KeyPairsAssumption DEF TypeOK, Point
      <4>. QED  BY XOnlyType DEF Keys
    <3>2. AggregatePoint(Keys) \in Point
      <4>. DEFINE h == KeyAggListHash(Keys)
                  second == SecondPkX(Keys)
                  f == [i \in Signers |->
                          Mul(KeyAggCoefIndexed(h, second, Keys, i), Keys[i])]
      <4>0. h \in Scalar
        BY <3>1, KeyAggHashAssumption
      <4>1. ASSUME NEW i \in Signers
            PROVE  KeyAggCoefIndexed(h, second, Keys, i) \in Int
        <5>1. KeyAggCoefHash(h, Keys[i]) \in Scalar
          BY <3>1, <4>0, KeyAggHashAssumption
        <5>. QED  BY <5>1, QAssumption DEF KeyAggCoefIndexed, Scalar
      <4>2. f \in [Signers -> Scalar]
        BY <3>1, <4>1, MulType DEF Point
      <4>. QED  BY <4>2, PointSumType DEF AggregatePoint, Point
    <3>3. /\ KeyAggListHash(Keys) \in Scalar
          /\ SecondPkX(Keys) \in Point
          /\ 0 \in Scalar
      BY <3>1, SecondPkXType, KeyAggHashAssumption, QAssumption DEF Scalar
    <3>4. keyagg_cache' \in CacheRec
      BY <2>1, <3>2, <3>3 DEF PubkeyAgg, CacheRec, Point
    <3>. QED  BY <2>1, <3>4, <1>1 DEF PubkeyAgg, TypeOK, session_vars
  <2>2. ASSUME NEW t \in TweakInputs, PubkeyTweakAdd(t) PROVE TypeOK'
    <3>1. keyagg_cache' \in CacheRec
      BY <2>2, XOnlyType, AddType DEF PubkeyTweakAdd, TypeOK, CacheRec, Point
    <3>. QED  BY <2>2, <3>1, <1>1 DEF PubkeyTweakAdd, TypeOK, session_vars
  <2>. QED  BY <1>1, <2>1, <2>2 DEF KeyAggNext
<1>2. ASSUME NEW i \in Signers, NEW a \in NonceGenArgs,
             NonceGen(i, a.key, a.cache, a.msg)
      PROVE  TypeOK'
  <2>. DEFINE sid == nonce_gen_count[i] * N + (i - 1)
              key == IF a.key THEN keypair[i] ELSE NoArg
              pk == IF a.cache THEN XOnly(keyagg_cache.pk) ELSE NoArg
              k == NonceFunction(sid, key, pk, a.msg)
  <2>1. nonce_gen_count[i] \in 0 .. MaxNonceGen - 1
    BY <1>2, ConstantsAssumption DEF NonceGen, TypeOK
  <2>2. sid \in Sids
    BY <2>1, SidType
  <2>3. /\ key \in FinitePoint \cup {NoArg}
        /\ pk \in Point \cup {NoArg}
        /\ a.msg \in Msgs \cup {NoArg}
    BY KeyPairsAssumption, XOnlyType, ConstantsAssumption DEF TypeOK, CacheRec
  <2>4. k \in Scalar \X Scalar
    BY <2>2, <2>3, NonceHashAssumption DEF NonceFunction
  <2>5. nonce_gen_count' \in [Signers -> 0 .. MaxNonceGen]
    BY <1>2, <2>1, ConstantsAssumption DEF NonceGen, TypeOK
  <2>6. /\ ZeroSecNonce \in SecNonceRec /\ ZeroPubNonce \in PubNonceRec
        /\ [magic |-> TRUE, k |-> k] \in SecNonceRec
        /\ [magic |-> TRUE, r |-> k] \in PubNonceRec
    BY <2>4, QAssumption
    DEF SecNonceRec, PubNonceRec, ZeroSecNonce, ZeroPubNonce, Point, Scalar
  <2>7. /\ secnonce' \in [Signers -> SecNonceRec]
        /\ pubnonce' \in [Signers -> PubNonceRec]
        /\ secnonce_sid' \in [Signers -> Sids \cup {0}]
    <3>1. CASE a.cache /\ ~keyagg_cache.magic
      <4>. /\ secnonce' = [secnonce EXCEPT ![i] = ZeroSecNonce]
           /\ pubnonce' = [pubnonce EXCEPT ![i] = ZeroPubNonce]
           /\ UNCHANGED secnonce_sid
        BY <1>2, <3>1 DEF NonceGen
      <4>. QED  BY <2>6 DEF TypeOK
    <3>2. CASE ~(a.cache /\ ~keyagg_cache.magic)
      <4>. /\ secnonce' = [secnonce EXCEPT ![i] = [magic |-> TRUE, k |-> k]]
           /\ pubnonce' = [pubnonce EXCEPT ![i] = [magic |-> TRUE, r |-> k]]
           /\ secnonce_sid' = [secnonce_sid EXCEPT ![i] = sid]
        BY <1>2, <3>2 DEF NonceGen
      <4>. QED  BY <2>2, <2>6 DEF TypeOK
    <3>. QED  BY <3>1, <3>2
  <2>. QED  BY <1>2, <2>5, <2>7 DEF NonceGen, TypeOK
<1>3. ASSUME NonceAgg PROVE TypeOK'
  <2>1. \A j \in {1, 2} : [i \in Signers |-> pubnonce[i].r[j]] \in [Signers -> Scalar]
    BY DEF TypeOK, PubNonceRec, Point
  <2>2. SumNonces([i \in Signers |-> pubnonce[i].r]) \in Point \X Point
    BY <2>1, PointSumType DEF SumNonces, Point
  <2>. QED  BY <1>3, <2>2 DEF NonceAgg, TypeOK, PubNonceRec
<1>4. ASSUME NEW m \in Msgs, NEW T \in AdaptorSecrets \cup {0},
             NonceProcess(m, T)
      PROVE  TypeOK'
  <2>. DEFINE c == keyagg_cache
              agg_pk32 == XOnly(c.pk)
              r1 == Add(aggnonce.r[1], T)
              r2 == aggnonce.r[2]
              b == NonceCoefHash(r1, r2, agg_pk32, m)
              fin == FinalNonce(r1, r2, b)
              e == ChallengeHash(XOnly(fin), agg_pk32, m)
  <2>1. /\ T \in Point /\ m \in Scalar
        /\ c \in CacheRec /\ aggnonce.r \in Point \X Point
    BY ConstantsAssumption, QAssumption DEF TypeOK, PubNonceRec, Point, Scalar
  <2>2. /\ agg_pk32 \in Point /\ r1 \in Point /\ r2 \in Point
    BY <2>1, XOnlyType, AddType, MulType, NegType DEF CacheRec, Point
  <2>3. b \in Scalar
    BY <2>2, SessionHashAssumption
  <2>4. fin \in Point /\ XOnly(fin) \in Point
    BY <2>2, <2>3, AddType, MulType, NegType, XOnlyType DEF FinalNonce, Point
  <2>5. e \in Scalar
    BY <2>2, <2>4, SessionHashAssumption
  <2>6. SPart(c, e) \in Scalar
    <3>1. Mul(e, c.tweak) \in Scalar
      BY <2>1, <2>5, MulType DEF CacheRec
    <3>2. Neg(Mul(e, c.tweak)) \in Scalar
      BY <3>1, NegType
    <3>. QED  BY <3>1, <3>2, QAssumption DEF SPart, Scalar
  <2>7. session' \in SessionRec
    BY <1>4, <2>3, <2>4, <2>5, <2>6 DEF NonceProcess, SessionRec
  <2>8. session_src' \in SessionSrcRec
    BY <1>4, <2>1 DEF NonceProcess, SessionSrcRec
  <2>. QED  BY <1>4, <2>7, <2>8 DEF NonceProcess, TypeOK
<1>5. ASSUME NEW i \in Signers, PartialSign(i) PROVE TypeOK'
  <2>1. secnonce' \in [Signers -> SecNonceRec]
    BY <1>5, QAssumption
    DEF PartialSign, SignInputsLoad, ConsumedSecNonce, ZeroSecNonce, TypeOK, SecNonceRec, Scalar
  <2>2. PartialSigValue(keypair[i], secnonce[i].k, keyagg_cache, session) \in Scalar
    <3>. DEFINE sk == keypair[i]
                x == IF SignNegatesKey(sk, keyagg_cache) THEN Neg(sk) ELSE sk
                mu == KeyAggCoef(keyagg_cache, XOnly(sk))
                kk == SignNonces(secnonce[i].k, session)
    <3>1. sk \in Point /\ secnonce[i].k \in Scalar \X Scalar
      BY KeyPairsAssumption DEF TypeOK, SecNonceRec, Point
    <3>2. x \in Int
      BY <3>1, NegType DEF Point
    <3>3. mu \in Int
      <4>1. XOnly(sk) \in Point /\ keyagg_cache.pk_hash \in Scalar
        BY <3>1, XOnlyType DEF TypeOK, CacheRec
      <4>2. KeyAggCoefHash(keyagg_cache.pk_hash, XOnly(sk)) \in Scalar
        BY <4>1, KeyAggHashAssumption
      <4>. QED  BY <4>2, QAssumption DEF mu, KeyAggCoef, Scalar
    <3>4. kk \in Int \X Int
      BY <3>1, NegType DEF SignNonces
    <3>5. session.e \in Int /\ session.b \in Int
      BY DEF TypeOK, SessionRec
    <3>. QED  BY <3>2, <3>3, <3>4, <3>5, AddType, MulType DEF PartialSigValue
  <2>3. [signer |-> i, sid |-> secnonce_sid[i]] \in [signer : Signers, sid : Sids \cup {0}]
    BY DEF TypeOK
  <2>4. [k |-> secnonce[i].k, session |-> session, cache |-> keyagg_cache] \in SignSrcRec
    BY DEF TypeOK, SecNonceRec, SignSrcRec
  <2>7. call_log' \in Seq([signer : Signers, sid : Sids \cup {0}])
    <3>1. Append(call_log, [signer |-> i, sid |-> secnonce_sid[i]])
            \in Seq([signer : Signers, sid : Sids \cup {0}])
      BY <2>3, AppendProperties DEF TypeOK
    <3>. QED  BY <1>5, <3>1 DEF PartialSign, TypeOK
  <2>5. CASE secnonce[i].magic /\ keyagg_cache.magic /\ session.magic
    <3>1. Append(sign_log, [signer |-> i, sid |-> secnonce_sid[i]])
            \in Seq([signer : Signers, sid : Sids \cup {0}])
      BY <2>3, AppendProperties DEF TypeOK
    <3>2. /\ partial_sig' = [partial_sig EXCEPT ![i] =
               [magic |-> TRUE,
                s |-> PartialSigValue(keypair[i], secnonce[i].k,
                                      keyagg_cache, session)]]
          /\ sign_log' = Append(sign_log, [signer |-> i, sid |-> secnonce_sid[i]])
          /\ sign_src' = [sign_src EXCEPT ![i] =
               [k |-> secnonce[i].k, session |-> session, cache |-> keyagg_cache]]
          /\ UNCHANGED <<keypair, keyagg_cache, pubnonce, aggnonce, session, sig64,
                         nonce_gen_count, secnonce_sid, session_src, sig64_src>>
      BY <1>5, <2>5 DEF PartialSign, SignInputsLoad
    <3>3. partial_sig' \in [Signers -> PartialSigRec]
      BY <2>2, <3>2 DEF TypeOK, PartialSigRec
    <3>. QED  BY <2>1, <2>4, <2>7, <3>1, <3>2, <3>3 DEF TypeOK
  <2>6. CASE ~(secnonce[i].magic /\ keyagg_cache.magic /\ session.magic)
    BY <1>5, <2>1, <2>6, <2>7 DEF PartialSign, SignInputsLoad, TypeOK
  <2>. QED  BY <2>5, <2>6
<1>6. ASSUME PartialSigAgg PROVE TypeOK'
  <2>1. [i \in Signers |-> partial_sig[i].s] \in [Signers -> Scalar]
    BY DEF TypeOK, PartialSigRec
  <2>2. PartialSigSum(session, partial_sig) \in Scalar
    BY <2>1, PointSumType, AddType, MulType, NegType DEF PartialSigSum, TypeOK, SessionRec
  <2>3. sig64' \in Sig64Rec
    BY <1>6, <2>2 DEF PartialSigAgg, Sig64Rec, TypeOK, SessionRec
  <2>4. sig64_src' \in Sig64SrcRec
    BY <1>6 DEF PartialSigAgg, Sig64SrcRec, TypeOK, PubNonceRec, SessionRec
  <2>. QED  BY <1>6, <2>3, <2>4 DEF PartialSigAgg, TypeOK
<1>7. CASE UNCHANGED vars
  BY <1>7 DEF vars, session_vars, TypeOK
<1>. QED  BY <1>1, <1>2, <1>3, <1>4, <1>5, <1>6, <1>7 DEF Next

(* Every object the caller holds keeps the shape of its internal struct,   *)
(* and every scalar and point stays reduced modulo n, whatever order the   *)
(* caller calls the API functions in.                                      *)
THEOREM TypeCorrect == Spec => []TypeOK
BY TypeOKInit, TypeOKStep, PTL DEF Spec

-----------------------------------------------------------------------------
(* Nonce reuse.                                                            *)

(* The inductive strengthening of NonceUsedOnce.  Session ids of cosigner  *)
(* i grow with nonce_gen_count[i]: every id it has signed with, and the id *)
(* of a secnonce it still holds, lies below nonce_gen_count[i] * N, which  *)
(* the next nonce_gen passes; and the id of a secnonce it still holds has  *)
(* not been signed with, since partial_sign zeroes the secnonce it uses.  *)
LogBelowCount ==
    \A k \in DOMAIN sign_log :
        sign_log[k].sid < nonce_gen_count[sign_log[k].signer] * N

LiveNonceFresh ==
    \A i \in Signers : secnonce[i].magic =>
        /\ secnonce_sid[i] < nonce_gen_count[i] * N
        /\ \A k \in DOMAIN sign_log :
               sign_log[k].signer = i => sign_log[k].sid # secnonce_sid[i]

SignPart == TypeOK /\ LogBelowCount /\ LiveNonceFresh /\ NonceUsedOnce

(* The same for every partial_sign call that loaded its secnonce, failed   *)
(* or not: every such id lies below the bound, and the id of a secnonce a  *)
(* cosigner still holds has not been loaded by a call.                     *)
CallsBelowCount ==
    \A k \in DOMAIN call_log :
        call_log[k].sid < nonce_gen_count[call_log[k].signer] * N

LiveNonceUncalled ==
    \A i \in Signers : secnonce[i].magic =>
        \A k \in DOMAIN call_log :
            call_log[k].signer = i => call_log[k].sid # secnonce_sid[i]

CallPart == CallsBelowCount /\ LiveNonceUncalled /\ NonceCalledOnce

NonceInv == SignPart /\ CallPart

\* Nothing is signed and no secnonce is live initially.
LEMMA NonceInvInit == Init => NonceInv
<1>. SUFFICES ASSUME Init PROVE NonceInv  OBVIOUS
<1>1. \A i \in Signers : ~secnonce[i].magic
  BY DEF Init, ZeroSecNonce
<1>. QED
  BY <1>1, TypeOKInit DEF Init, NonceInv, SignPart, LogBelowCount, LiveNonceFresh,
                          NonceUsedOnce, CallPart, CallsBelowCount,
                          LiveNonceUncalled, NonceCalledOnce

\* The id nonce_gen draws is below the next bound and not below the current.
LEMMA FreshSid ==
    ASSUME NEW c \in Nat, NEW i \in Signers
    PROVE  /\ c * N <= c * N + (i - 1)
           /\ c * N + (i - 1) < (c + 1) * N
           /\ c * N <= (c + 1) * N
BY NAssumption DEF Signers

\* Transitivity of < through <=, for the provers that do no arithmetic.
LEMMA LessTrans ==
    ASSUME NEW x \in Nat, NEW y \in Nat, NEW z \in Nat, x < y, y <= z
    PROVE  x < z
OBVIOUS

\* partial_sign, nonce_gen and the calls that touch neither the secnonces
\* nor the log keep the part of NonceInv about successful calls.
LEMMA SignPartStep == NonceInv /\ [Next]_vars => SignPart'
<1>. SUFFICES ASSUME NonceInv, [Next]_vars PROVE SignPart'  OBVIOUS
<1>. TypeOK'  BY TypeOKStep DEF NonceInv, SignPart
<1>. DEFINE Entry == [signer : Signers, sid : Sids \cup {0}]
<1>0. /\ sign_log \in Seq(Entry)
      /\ Sids \cup {0} \subseteq Nat
      /\ nonce_gen_count \in [Signers -> Nat]
      /\ N \in Nat
  BY NAssumption, ConstantsAssumption DEF NonceInv, SignPart, TypeOK, Sids
<1>00. \A k \in DOMAIN sign_log :
          sign_log[k].signer \in Signers /\ sign_log[k].sid \in Nat
  <2>. SUFFICES ASSUME NEW k \in DOMAIN sign_log
                PROVE  sign_log[k].signer \in Signers /\ sign_log[k].sid \in Nat
    OBVIOUS
  <2>1. k \in 1 .. Len(sign_log)
    BY <1>0, LenProperties
  <2>2. sign_log[k] \in Entry
    BY <1>0, <2>1, ElementOfSeq
  <2>3. sign_log[k].signer \in Signers /\ sign_log[k].sid \in Sids \cup {0}
    BY <2>2 DEF Entry
  <2>. QED  BY <1>0, <2>3, Zenon
<1>1. ASSUME NEW i \in Signers, NEW a \in NonceGenArgs,
             NonceGen(i, a.key, a.cache, a.msg)
      PROVE  SignPart'
  <2>. DEFINE c == nonce_gen_count[i]
              new_sid == c * N + (i - 1)
  <2>1. /\ c \in Nat
        /\ nonce_gen_count' = [nonce_gen_count EXCEPT ![i] = c + 1]
        /\ UNCHANGED sign_log
    BY <1>0, <1>1 DEF NonceGen
  <2>2. /\ c * N <= new_sid /\ new_sid < (c + 1) * N /\ c * N <= (c + 1) * N
    BY <2>1, FreshSid
  <2>3. LogBelowCount'
    <3>. SUFFICES ASSUME NEW k \in DOMAIN sign_log
                  PROVE  sign_log[k].sid < nonce_gen_count'[sign_log[k].signer] * N
      BY <2>1 DEF LogBelowCount
    <3>1. sign_log[k].sid < nonce_gen_count[sign_log[k].signer] * N
      BY DEF NonceInv, SignPart, LogBelowCount
    <3>2. CASE sign_log[k].signer = i
      <4>1. nonce_gen_count'[i] = c + 1
        BY <1>0, <2>1
      <4>. QED  BY <2>2, <3>1, <3>2, <4>1, <1>0, <1>00 DEF c, new_sid
    <3>3. CASE sign_log[k].signer # i
      BY <1>0, <1>00, <2>1, <3>1, <3>3
    <3>. QED  BY <3>2, <3>3
  <2>4. NonceUsedOnce'
    BY <2>1 DEF NonceInv, SignPart, NonceUsedOnce
  <2>5. LiveNonceFresh'
    <3>. SUFFICES ASSUME NEW j \in Signers, secnonce'[j].magic
                  PROVE  /\ secnonce_sid'[j] < nonce_gen_count'[j] * N
                         /\ \A k \in DOMAIN sign_log' :
                               sign_log'[k].signer = j
                                 => sign_log'[k].sid # secnonce_sid'[j]
      BY DEF LiveNonceFresh
    <3>1. CASE j # i
      <4>. /\ secnonce'[j] = secnonce[j] /\ secnonce_sid'[j] = secnonce_sid[j]
        BY <1>1, <3>1 DEF NonceGen, NonceInv, TypeOK
      <4>. QED  BY <2>1, <3>1 DEF NonceInv, SignPart, LiveNonceFresh
    <3>2. CASE j = i /\ a.cache /\ ~keyagg_cache.magic
      BY <1>1, <3>2 DEF NonceGen, NonceInv, TypeOK, ZeroSecNonce
    <3>3. CASE j = i /\ ~(a.cache /\ ~keyagg_cache.magic)
      <4>1. secnonce_sid'[i] = new_sid
        BY <1>1, <3>3 DEF NonceGen, NonceInv, TypeOK
      <4>2. ASSUME NEW k \in DOMAIN sign_log, sign_log[k].signer = i
            PROVE  sign_log[k].sid < new_sid
        <5>1. sign_log[k].sid < c * N
          BY <4>2 DEF NonceInv, SignPart, LogBelowCount, c
        <5>2. c * N <= new_sid
          BY <2>2
        <5>3. sign_log[k].sid \in Nat
          BY <1>00
        <5>4. c * N \in Nat /\ new_sid \in Nat
          <6>1. c \in Nat
            BY <1>0 DEF c
          <6>. QED  BY <6>1, NAssumption DEF new_sid, Signers
        <5>. QED  BY <5>1, <5>2, <5>3, <5>4, LessTrans, Zenon
      <4>3. new_sid < nonce_gen_count'[i] * N
        BY <1>0, <2>1, <2>2
      <4>4. \A k \in DOMAIN sign_log : sign_log[k].signer = i => sign_log[k].sid # new_sid
        BY <1>0, <1>00, <4>2
      <4>. QED  BY <2>1, <3>3, <4>1, <4>3, <4>4
    <3>. QED  BY <3>1, <3>2, <3>3
  <2>. QED  BY <2>3, <2>4, <2>5 DEF NonceInv, SignPart
<1>2. ASSUME NEW i \in Signers, PartialSign(i) PROVE SignPart'
  <2>. DEFINE entry == [signer |-> i, sid |-> secnonce_sid[i]]
  <2>1. /\ secnonce'[i] = ZeroSecNonce
        /\ \A j \in Signers \ {i} : secnonce'[j] = secnonce[j]
        /\ UNCHANGED <<nonce_gen_count, secnonce_sid>>
    BY <1>2 DEF PartialSign, SignInputsLoad, ConsumedSecNonce, NonceInv, TypeOK
  <2>3. CASE secnonce[i].magic /\ keyagg_cache.magic /\ session.magic
    <3>1. sign_log' = Append(sign_log, entry)
      BY <1>2, <2>3 DEF PartialSign, SignInputsLoad
    <3>2. /\ entry \in Entry
          /\ secnonce_sid[i] < nonce_gen_count[i] * N
          /\ \A k \in DOMAIN sign_log :
                 sign_log[k].signer = i => sign_log[k].sid # secnonce_sid[i]
      BY <2>3 DEF NonceInv, SignPart, TypeOK, LiveNonceFresh
    <3>3. /\ DOMAIN sign_log' = 1 .. Len(sign_log) + 1
          /\ \A k \in 1 .. Len(sign_log) : sign_log'[k] = sign_log[k]
          /\ sign_log'[Len(sign_log) + 1] = entry
      BY <1>0, <3>1, <3>2, AppendProperties
    <3>4. DOMAIN sign_log = 1 .. Len(sign_log)
      BY <1>0
    <3>5. LogBelowCount'
      BY <2>1, <3>2, <3>3, <3>4 DEF NonceInv, SignPart, LogBelowCount
    <3>6. NonceUsedOnce'
      BY <3>2, <3>3, <3>4 DEF NonceInv, SignPart, NonceUsedOnce
    <3>7. LiveNonceFresh'
      BY <2>1, <3>3, <3>4 DEF NonceInv, SignPart, LiveNonceFresh, ZeroSecNonce
    <3>. QED  BY <3>5, <3>6, <3>7 DEF NonceInv, SignPart
  <2>4. CASE ~(secnonce[i].magic /\ keyagg_cache.magic /\ session.magic)
    <3>1. UNCHANGED sign_log
      BY <1>2, <2>4 DEF PartialSign, SignInputsLoad
    <3>. QED  BY <2>1, <3>1 DEF NonceInv, SignPart, LogBelowCount, LiveNonceFresh,
                                NonceUsedOnce, ZeroSecNonce
  <2>. QED  BY <2>3, <2>4
<1>3. ASSUME UNCHANGED <<secnonce, sign_log, nonce_gen_count, secnonce_sid>>
      PROVE  SignPart'
  BY <1>3 DEF NonceInv, SignPart, LogBelowCount, LiveNonceFresh, NonceUsedOnce
<1>. QED
  BY <1>1, <1>2, <1>3
  DEF Next, KeyAggNext, PubkeyAgg, PubkeyTweakAdd, session_vars, NonceAgg,
      NonceProcess, PartialSigAgg, vars

\* The same steps keep the part of NonceInv about every call.
LEMMA CallPartStep == NonceInv /\ [Next]_vars => CallPart'
<1>. SUFFICES ASSUME NonceInv, [Next]_vars PROVE CallPart'  OBVIOUS
<1>. DEFINE Entry == [signer : Signers, sid : Sids \cup {0}]
<1>0. /\ call_log \in Seq(Entry)
      /\ Sids \cup {0} \subseteq Nat
      /\ nonce_gen_count \in [Signers -> Nat]
      /\ N \in Nat
  BY NAssumption, ConstantsAssumption DEF NonceInv, SignPart, TypeOK, Sids
<1>00. \A k \in DOMAIN call_log :
          call_log[k].signer \in Signers /\ call_log[k].sid \in Nat
  <2>. SUFFICES ASSUME NEW k \in DOMAIN call_log
                PROVE  call_log[k].signer \in Signers /\ call_log[k].sid \in Nat
    OBVIOUS
  <2>1. k \in 1 .. Len(call_log)
    BY <1>0, LenProperties
  <2>2. call_log[k] \in Entry
    BY <1>0, <2>1, ElementOfSeq
  <2>3. call_log[k].signer \in Signers /\ call_log[k].sid \in Sids \cup {0}
    BY <2>2 DEF Entry
  <2>. QED  BY <1>0, <2>3, Zenon
<1>1. ASSUME NEW i \in Signers, NEW a \in NonceGenArgs,
             NonceGen(i, a.key, a.cache, a.msg)
      PROVE  CallPart'
  <2>. DEFINE c == nonce_gen_count[i]
              new_sid == c * N + (i - 1)
  <2>1. /\ c \in Nat
        /\ nonce_gen_count' = [nonce_gen_count EXCEPT ![i] = c + 1]
        /\ UNCHANGED call_log
    BY <1>0, <1>1 DEF NonceGen
  <2>2. /\ c * N <= new_sid /\ new_sid < (c + 1) * N /\ c * N <= (c + 1) * N
    BY <2>1, FreshSid
  <2>3. CallsBelowCount'
    <3>. SUFFICES ASSUME NEW k \in DOMAIN call_log
                  PROVE  call_log[k].sid < nonce_gen_count'[call_log[k].signer] * N
      BY <2>1 DEF CallsBelowCount
    <3>1. call_log[k].sid < nonce_gen_count[call_log[k].signer] * N
      BY DEF NonceInv, CallPart, CallsBelowCount
    <3>2. CASE call_log[k].signer = i
      <4>1. nonce_gen_count'[i] = c + 1
        BY <1>0, <2>1
      <4>. QED  BY <2>2, <3>1, <3>2, <4>1, <1>0, <1>00 DEF c, new_sid
    <3>3. CASE call_log[k].signer # i
      BY <1>0, <1>00, <2>1, <3>1, <3>3
    <3>. QED  BY <3>2, <3>3
  <2>4. NonceCalledOnce'
    BY <2>1 DEF NonceInv, CallPart, NonceCalledOnce
  <2>5. LiveNonceUncalled'
    <3>. SUFFICES ASSUME NEW j \in Signers, secnonce'[j].magic
                  PROVE  \A k \in DOMAIN call_log' :
                            call_log'[k].signer = j
                              => call_log'[k].sid # secnonce_sid'[j]
      BY DEF LiveNonceUncalled
    <3>1. CASE j # i
      <4>. /\ secnonce'[j] = secnonce[j] /\ secnonce_sid'[j] = secnonce_sid[j]
        BY <1>1, <3>1 DEF NonceGen, NonceInv, SignPart, TypeOK
      <4>. QED  BY <2>1, <3>1 DEF NonceInv, CallPart, LiveNonceUncalled
    <3>2. CASE j = i /\ a.cache /\ ~keyagg_cache.magic
      <4>1. secnonce' = [secnonce EXCEPT ![i] = ZeroSecNonce]
        BY <1>1, <3>2 DEF NonceGen
      <4>2. secnonce'[i] = ZeroSecNonce
        BY <4>1 DEF NonceInv, SignPart, TypeOK
      <4>3. ~secnonce'[i].magic
        BY <4>2 DEF ZeroSecNonce
      <4>. QED  BY <3>2, <4>3
    <3>3. CASE j = i /\ ~(a.cache /\ ~keyagg_cache.magic)
      <4>1. secnonce_sid'[i] = new_sid
        BY <1>1, <3>3 DEF NonceGen, NonceInv, SignPart, TypeOK
      <4>2. ASSUME NEW k \in DOMAIN call_log, call_log[k].signer = i
            PROVE  call_log[k].sid < new_sid
        <5>1. call_log[k].sid < c * N
          BY <4>2 DEF NonceInv, CallPart, CallsBelowCount, c
        <5>2. c * N <= new_sid
          BY <2>2
        <5>3. call_log[k].sid \in Nat
          BY <1>00
        <5>4. c * N \in Nat /\ new_sid \in Nat
          <6>1. c \in Nat
            BY <1>0 DEF c
          <6>. QED  BY <6>1, NAssumption DEF new_sid, Signers
        <5>. QED  BY <5>1, <5>2, <5>3, <5>4, LessTrans, Zenon
      <4>3. \A k \in DOMAIN call_log : call_log[k].signer = i => call_log[k].sid # new_sid
        BY <1>0, <1>00, <4>2
      <4>. QED  BY <2>1, <3>3, <4>1, <4>3
    <3>. QED  BY <3>1, <3>2, <3>3
  <2>. QED  BY <2>3, <2>4, <2>5 DEF CallPart
<1>2. ASSUME NEW i \in Signers, PartialSign(i) PROVE CallPart'
  <2>. DEFINE entry == [signer |-> i, sid |-> secnonce_sid[i]]
  <2>1. /\ secnonce'[i] = ZeroSecNonce
        /\ \A j \in Signers \ {i} : secnonce'[j] = secnonce[j]
        /\ UNCHANGED <<nonce_gen_count, secnonce_sid>>
    BY <1>2 DEF PartialSign, SignInputsLoad, ConsumedSecNonce, NonceInv, SignPart,
                TypeOK
  <2>3. CASE secnonce[i].magic
    <3>1. call_log' = Append(call_log, entry)
      BY <1>2, <2>3 DEF PartialSign
    <3>2. /\ entry \in Entry
          /\ secnonce_sid[i] < nonce_gen_count[i] * N
          /\ \A k \in DOMAIN call_log :
                 call_log[k].signer = i => call_log[k].sid # secnonce_sid[i]
      BY <2>3 DEF NonceInv, SignPart, CallPart, TypeOK, LiveNonceFresh,
                  LiveNonceUncalled
    <3>3. /\ DOMAIN call_log' = 1 .. Len(call_log) + 1
          /\ \A k \in 1 .. Len(call_log) : call_log'[k] = call_log[k]
          /\ call_log'[Len(call_log) + 1] = entry
      BY <1>0, <3>1, <3>2, AppendProperties
    <3>4. DOMAIN call_log = 1 .. Len(call_log)
      BY <1>0
    <3>5. CallsBelowCount'
      BY <2>1, <3>2, <3>3, <3>4 DEF NonceInv, CallPart, CallsBelowCount
    <3>6. NonceCalledOnce'
      BY <3>2, <3>3, <3>4 DEF NonceInv, CallPart, NonceCalledOnce
    <3>7. LiveNonceUncalled'
      BY <2>1, <3>3, <3>4 DEF NonceInv, CallPart, LiveNonceUncalled, ZeroSecNonce
    <3>. QED  BY <3>5, <3>6, <3>7 DEF CallPart
  <2>4. CASE ~secnonce[i].magic
    <3>1. UNCHANGED call_log
      BY <1>2, <2>4 DEF PartialSign
    <3>. QED  BY <2>1, <3>1 DEF NonceInv, CallPart, CallsBelowCount,
                                LiveNonceUncalled, NonceCalledOnce, ZeroSecNonce
  <2>. QED  BY <2>3, <2>4
<1>3. ASSUME UNCHANGED <<secnonce, call_log, nonce_gen_count, secnonce_sid>>
      PROVE  CallPart'
  BY <1>3 DEF NonceInv, CallPart, CallsBelowCount, LiveNonceUncalled,
              NonceCalledOnce
<1>. QED
  BY <1>1, <1>2, <1>3
  DEF Next, KeyAggNext, PubkeyAgg, PubkeyTweakAdd, session_vars, NonceAgg,
      NonceProcess, PartialSigAgg, vars

\* Together they keep NonceInv.
LEMMA NonceInvStep == NonceInv /\ [Next]_vars => NonceInv'
BY SignPartStep, CallPartStep DEF NonceInv

(* The nonce bookkeeping of every reachable state, for every number of    *)
(* cosigners and of nonce_gen calls: every id a cosigner signed with, or   *)
(* handed to a partial_sign call that loaded it, lies below its nonce_gen  *)
(* bound, and a live secnonce holds an id below that bound that no call of *)
(* the cosigner has loaded (partial_sign's memset and nonce_gen's id rule  *)
(* together).                                                              *)
THEOREM NonceInvariant == Spec => []NonceInv
BY NonceInvInit, NonceInvStep, PTL DEF Spec

(* Nonce reuse (spec 3, 8.7), for every number of cosigners and of         *)
(* nonce_gen calls: no two successful partial_sign calls use the secnonce  *)
(* of one nonce_gen call, because partial_sign zeroes the secnonce before  *)
(* any check and nonce_gen never repeats a session id.                     *)
THEOREM NonceReuseSafe == Spec => []NonceUsedOnce
BY NonceInvariant, PTL DEF NonceInv, SignPart

(* One call per secnonce (spec 3, 5; the partial_sign header), for every   *)
(* number of cosigners and of nonce_gen calls: no two partial_sign calls   *)
(* load the secnonce of one nonce_gen call, even when the first failed on  *)
(* the keypair, the cache or the session, because the memset at            *)
(* session_impl.h:460 precedes every check that can return.               *)
THEOREM NonceCalledOnceSafe == Spec => []NonceCalledOnce
BY NonceInvariant, PTL DEF NonceInv, CallPart

=============================================================================
