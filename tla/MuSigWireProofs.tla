--------------------------- MODULE MuSigWireProofs ---------------------------
(***************************************************************************)
(* Proofs about the wire formats of MuSigWire, for every group order Q,    *)
(* number of cosigners N, choice of the hash functions and set of byte     *)
(* strings a receiver may be handed: every object stays well typed, every  *)
(* object parse writes holds what its load function assumes, and parsing   *)
(* the bytes serialized from a loaded object gives that object back.       *)
(***************************************************************************)
EXTENDS MuSigWire, MuSigSessionProofs

(* The public nonces a cosigner holds are finite points: nonce_gen writes  *)
(* the nonces secp256k1_nonce_function_musig derives, which it             *)
(* VERIFY_CHECKs to be non-zero.                                           *)
PubnonceFinite ==
    \A i \in Signers :
        pubnonce[i].magic => pubnonce[i].r \in FinitePoint \X FinitePoint

(* What a cosigner sent is what it serialized from the object it recorded: *)
(* the 66 nonce bytes are Ser66 of that object, which held finite points   *)
(* when it loaded, and the 32 signature bytes are the scalar of a partial  *)
(* signature that loaded.                                                  *)
SentFromSrc ==
    \A i \in Signers :
        /\ wire_pubnonce[i] # NoArg => wire_pubnonce[i] = Ser66(wire_pubnonce_src[i])
        /\ wire_pubnonce_src[i].magic
               => wire_pubnonce_src[i].r \in FinitePoint \X FinitePoint
        /\ wire_sig[i] # NoArg /\ wire_sig_src[i].magic
               => wire_sig[i] = wire_sig_src[i].s

\* The nonces the session holds and processes are finite points.
NoncesFinite ==
    /\ PubnonceFinite
    /\ aggnonce.magic => aggnonce.r \in FinitePoint \X FinitePoint

WireInv == /\ WireTypeOK /\ NoncesFinite /\ SentFromSrc
           /\ ParsedObjectsLoad /\ WireRoundTrip

-----------------------------------------------------------------------------
(* The refinement mapping onto MuSigChannel: the object on the wire is the *)
(* one serialized, while bytes were sent; a parsed signature came from no  *)
(* sent object once its last parse failed.                                 *)

MappedSentNonce == [i \in Signers |->
                      IF wire_pubnonce[i] = NoArg THEN NoArg ELSE wire_pubnonce_src[i]]
MappedSentSig == [i \in Signers |->
                    IF wire_sig[i] = NoArg THEN NoArg ELSE wire_sig_src[i]]
MappedSigFrom == [i \in Signers |->
                    IF sig_parse_failed[i] THEN NoArg ELSE recv_sig_src[i]]

CH == INSTANCE MuSigChannel WITH
        sent_nonce <- MappedSentNonce, sent_sig <- MappedSentSig,
        nonce_from <- recv_pubnonce_src, sig_from <- MappedSigFrom

(* The byte-level serialize and parse functions implement the object-level *)
(* promise of secp256k1_musig.h: what a receiver parses is the object that *)
(* was serialized when it loaded, or a foreign object that loads; a failed *)
(* parse of a partial signature marks it failed.                           *)
ChannelRefinement == CH!ChanSpec

-----------------------------------------------------------------------------
(* The encodings.                                                          *)

\* Negation maps the finite points onto themselves and undoes itself.
LEMMA NegFinite ==
    ASSUME NEW p \in FinitePoint
    PROVE  Neg(p) \in FinitePoint /\ Neg(Neg(p)) = p /\ Neg(p) = Q - p
BY QAssumption DEF Neg, FinitePoint

(* A compressed point parses back to the point it was serialized from:    *)
(* the x-only form of a finite point is an x on the curve, and the prefix  *)
(* restores the parity XOnly dropped.                                      *)
LEMMA Ser33RoundTrip ==
    ASSUME NEW p \in FinitePoint
    PROVE  Parses33(Ser33(p)) /\ Point33(Ser33(p)) = p
<1>1. CASE p \in OddY
  <2>1. Neg(p) \in FinitePoint /\ Neg(p) \notin OddY /\ Neg(Neg(p)) = p
    BY <1>1, NegFinite, OddYAssumption
  <2>. QED  BY <1>1, <2>1 DEF Ser33, XOnly, Parses33, Point33
<1>2. CASE p \notin OddY
  BY <1>2 DEF Ser33, XOnly, Parses33, Point33
<1>. QED  BY <1>1, <1>2

\* The point a compressed string that parses encodes is finite.
LEMMA Point33Finite ==
    ASSUME NEW b, Parses33(b)
    PROVE  Point33(b) \in FinitePoint
BY NegFinite DEF Parses33, Point33

\* Every serialized point is a string of the model.
LEMMA Ser33Type ==
    ASSUME NEW p \in Point
    PROVE  Ser33(p) \in Bytes33
<1>1. XOnly(p) \in 0 .. Q
  BY XOnlyType, QAssumption DEF Point, Scalar
<1>. QED  BY <1>1 DEF Ser33, Bytes33

\* pubnonce_serialize writes a string of the model.
LEMMA Ser66Type ==
    ASSUME NEW n \in PubNonceRec
    PROVE  Ser66(n) \in Bytes66
<1>1. n.r[1] \in Point /\ n.r[2] \in Point
  BY DEF PubNonceRec
<1>2. <<0, 0>> \in Bytes33
  BY QAssumption DEF Bytes33
<1>. QED  BY <1>1, <1>2, Ser33Type DEF Ser66, Bytes66

\* A string that parses gives a public nonce of finite points.
LEMMA Parse66Finite ==
    ASSUME NEW b, Parses66(b)
    PROVE  /\ Parse66(b) \in PubNonceRec
           /\ Parse66(b).magic
           /\ Parse66(b).r \in FinitePoint \X FinitePoint
<1>1. Point33(b[1]) \in FinitePoint /\ Point33(b[2]) \in FinitePoint
  BY Point33Finite DEF Parses66
<1>2. FinitePoint \subseteq Point
  BY DEF FinitePoint, Point, Scalar
<1>. QED  BY <1>1, <1>2 DEF Parse66, PubNonceRec

(* Round trip of the 66-byte nonce (spec 8.8): a loaded public nonce of    *)
(* finite points parses back from its serialization to itself.             *)
LEMMA Ser66RoundTrip ==
    ASSUME NEW n \in PubNonceRec, n.magic, n.r \in FinitePoint \X FinitePoint
    PROVE  Parses66(Ser66(n)) /\ Parse66(Ser66(n)) = n
<1>1. /\ Parses33(Ser33(n.r[1])) /\ Point33(Ser33(n.r[1])) = n.r[1]
      /\ Parses33(Ser33(n.r[2])) /\ Point33(Ser33(n.r[2])) = n.r[2]
  BY Ser33RoundTrip
<1>2. Ser66(n) = <<Ser33(n.r[1]), Ser33(n.r[2])>>
  BY DEF Ser66
<1>3. n = [magic |-> TRUE, r |-> <<n.r[1], n.r[2]>>]
  BY DEF PubNonceRec
<1>. QED  BY <1>1, <1>2, <1>3 DEF Parses66, Parse66

-----------------------------------------------------------------------------
(* The session's nonces.                                                   *)

\* Every call of the session keeps its nonces finite.
LEMMA NoncesFiniteStep == TypeOK /\ NoncesFinite /\ [Next]_vars => NoncesFinite'
<1>. SUFFICES ASSUME TypeOK, NoncesFinite, [Next]_vars PROVE NoncesFinite'
  OBVIOUS
<1>1. ASSUME NEW i \in Signers, NEW a \in NonceGenArgs,
             NonceGen(i, a.key, a.cache, a.msg)
      PROVE  NoncesFinite'
  <2>. DEFINE sid == nonce_gen_count[i] * N + (i - 1)
              key == IF a.key THEN keypair[i] ELSE NoArg
              pk == IF a.cache THEN XOnly(keyagg_cache.pk) ELSE NoArg
              k == NonceFunction(sid, key, pk, a.msg)
  <2>1. nonce_gen_count[i] \in 0 .. MaxNonceGen - 1
    BY <1>1, ConstantsAssumption DEF NonceGen, TypeOK
  <2>2. /\ sid \in Sids
        /\ key \in FinitePoint \cup {NoArg}
        /\ pk \in Point \cup {NoArg}
        /\ a.msg \in Msgs \cup {NoArg}
    BY <2>1, SidType, KeyPairsAssumption, XOnlyType, ConstantsAssumption
    DEF TypeOK, CacheRec
  <2>3. k \in FinitePoint \X FinitePoint
    BY <2>2, NonceHashAssumption DEF NonceFunction
  <2>4. CASE a.cache /\ ~keyagg_cache.magic
    <3>1. pubnonce' = [pubnonce EXCEPT ![i] = ZeroPubNonce] /\ UNCHANGED aggnonce
      BY <1>1, <2>4 DEF NonceGen
    <3>. QED  BY <3>1 DEF NoncesFinite, PubnonceFinite, ZeroPubNonce, TypeOK
  <2>5. CASE ~(a.cache /\ ~keyagg_cache.magic)
    <3>1. pubnonce' = [pubnonce EXCEPT ![i] = [magic |-> TRUE, r |-> k]]
          /\ UNCHANGED aggnonce
      BY <1>1, <2>5 DEF NonceGen
    <3>. QED  BY <2>3, <3>1 DEF NoncesFinite, PubnonceFinite, TypeOK
  <2>. QED  BY <2>4, <2>5
<1>2. ASSUME NonceAgg PROVE NoncesFinite'
  <2>. DEFINE sum == SumNonces([i \in Signers |-> pubnonce[i].r])
  <2>1. \A j \in {1, 2} : [i \in Signers |-> pubnonce[i].r[j]] \in [Signers -> Scalar]
    BY DEF TypeOK, PubNonceRec, Point
  <2>2. sum \in Point \X Point
    BY <2>1, PointSumType DEF SumNonces, Point
  <2>3. aggnonce' = [magic |-> TRUE, r |-> sum] /\ sum[1] # 0 /\ sum[2] # 0
        /\ UNCHANGED pubnonce
    BY <1>2 DEF NonceAgg
  <2>. QED  BY <2>2, <2>3 DEF NoncesFinite, PubnonceFinite, Point, Scalar, FinitePoint
<1>3. ASSUME UNCHANGED <<pubnonce, aggnonce>> PROVE NoncesFinite'
  BY <1>3 DEF NoncesFinite, PubnonceFinite
<1>. QED
  BY <1>1, <1>2, <1>3
  DEF Next, KeyAggNext, PubkeyAgg, PubkeyTweakAdd, session_vars, NonceProcess,
      PartialSign, PartialSigAgg, vars

-----------------------------------------------------------------------------
(* The invariant.                                                          *)

\* Nothing has been sent or parsed initially.
LEMMA WireInvInit == WireInit => WireInv
<1>. SUFFICES ASSUME WireInit PROVE WireInv  OBVIOUS
<1>1. TypeOK
  BY TypeOKInit DEF WireInit
<1>2. /\ ZeroPubNonce \in PubNonceRec /\ ~ZeroPubNonce.magic
      /\ ZeroPartialSig \in PartialSigRec /\ ~ZeroPartialSig.magic
      /\ ZeroPartialSig \in [magic : BOOLEAN, s : SigBytes]
  BY QAssumption DEF ZeroPubNonce, PubNonceRec, ZeroPartialSig, PartialSigRec,
                     SigBytes, Point, Scalar
<1>3. (\A i \in Signers : ~pubnonce[i].magic) /\ ~aggnonce.magic
  BY DEF WireInit, Init, ZeroPubNonce
<1>. QED  BY <1>1, <1>2, <1>3
          DEF WireInit, WireInv, WireTypeOK, NoncesFinite, PubnonceFinite, SentFromSrc,
              ParsedObjectsLoad, WireRoundTrip

\* Every step of the session or of the wire keeps WireInv.
LEMMA WireInvStep == WireInv /\ [WireNext]_all_vars => WireInv'
<1>. SUFFICES ASSUME WireInv, [WireNext]_all_vars PROVE WireInv'  OBVIOUS
<1>0. /\ TypeOK /\ NoncesFinite
      /\ wire_pubnonce \in [Signers -> Bytes66 \cup {NoArg}]
      /\ wire_sig \in [Signers -> SigBytes \cup {NoArg}]
      /\ recv_pubnonce \in [Signers -> PubNonceRec]
      /\ recv_sig \in [Signers -> [magic : BOOLEAN, s : SigBytes]]
      /\ wire_pubnonce_src \in [Signers -> PubNonceRec]
      /\ wire_sig_src \in [Signers -> PartialSigRec]
      /\ recv_pubnonce_src \in [Signers -> PubNonceRec \cup {NoArg}]
      /\ recv_sig_src \in [Signers -> PartialSigRec \cup {NoArg}]
      /\ sig_parse_failed \in [Signers -> BOOLEAN]
  BY DEF WireInv, WireTypeOK
<1>00. /\ Scalar \subseteq SigBytes
       /\ \A b \in SigBytes : ~SigOverflows(b) => b \in Scalar
  BY QAssumption DEF Scalar, SigBytes, SigOverflows
<1>1. ASSUME Next, UNCHANGED wire_vars PROVE WireInv'
  <2>1. TypeOK' /\ NoncesFinite'
    BY <1>0, <1>1, TypeOKStep, NoncesFiniteStep
  <2>2. ParsedObjectsLoad'
    BY <1>1, <2>1 DEF WireInv, NoncesFinite, ParsedObjectsLoad, wire_vars
  <2>. QED  BY <1>1, <2>1, <2>2
            DEF WireInv, WireTypeOK, SentFromSrc, WireRoundTrip, wire_vars
<1>2. ASSUME NEW i \in Signers, PubnonceSerialize(i) PROVE WireInv'
  <2>1. Ser66(pubnonce[i]) \in Bytes66 /\ pubnonce[i] \in PubNonceRec
    BY <1>0, Ser66Type DEF TypeOK
  <2>2. UNCHANGED vars
    BY <1>2 DEF PubnonceSerialize
  <2>3. TypeOK'
    BY <1>0, <2>2, Zenon DEF vars, session_vars, TypeOK
  <2>4. NoncesFinite' /\ ParsedObjectsLoad'
    BY <1>2, <2>2 DEF PubnonceSerialize, vars, session_vars, WireInv,
                      NoncesFinite, PubnonceFinite, ParsedObjectsLoad
  <2>5. SentFromSrc'
    BY <1>0, <1>2 DEF PubnonceSerialize, SentFromSrc, WireInv, NoncesFinite,
                      PubnonceFinite
  <2>. QED  BY <1>0, <1>2, <2>1, <2>3, <2>4, <2>5
            DEF PubnonceSerialize, WireInv, WireTypeOK, WireRoundTrip
<1>3. ASSUME NEW i \in Signers, NEW in \in NonceInputs(i),
             PubnonceParse(i, in[1], in[2])
      PROVE  WireInv'
  <2>. DEFINE b == in[1]
  <2>1. /\ Parses66(b)
        /\ recv_pubnonce' = [recv_pubnonce EXCEPT ![i] = Parse66(b)]
        /\ recv_pubnonce_src' = [recv_pubnonce_src EXCEPT ![i] =
                                   IF in[2] THEN wire_pubnonce_src[i] ELSE NoArg]
        /\ UNCHANGED <<vars, wire_pubnonce, wire_sig, recv_sig, wire_pubnonce_src,
                       wire_sig_src, recv_sig_src, sig_parse_failed>>
    BY <1>3 DEF PubnonceParse
  <2>2. /\ Parse66(b) \in PubNonceRec /\ Parse66(b).magic
        /\ Parse66(b).r \in FinitePoint \X FinitePoint
    BY <2>1, Parse66Finite
  <2>3. in[2] => b = Ser66(wire_pubnonce_src[i])
    <3>1. in[2] => b = wire_pubnonce[i] /\ wire_pubnonce[i] # NoArg
      <4>1. CASE in \in {<<c, TRUE>> : c \in {wire_pubnonce[i]} \ {NoArg}}
        <5>1. PICK c \in {wire_pubnonce[i]} \ {NoArg} : in = <<c, TRUE>>
          BY <4>1
        <5>. QED  BY <5>1
      <4>2. CASE in \in WireNonceBytes \X {FALSE}
        <5>1. in[2] = FALSE
          BY <4>2
        <5>. QED  BY <5>1
      <4>. QED  BY <4>1, <4>2 DEF NonceInputs
    <3>. QED  BY <3>1 DEF WireInv, SentFromSrc
  <2>4. in[2] /\ wire_pubnonce_src[i].magic => Parse66(b) = wire_pubnonce_src[i]
    <3>. SUFFICES ASSUME in[2], wire_pubnonce_src[i].magic
                  PROVE  Parse66(b) = wire_pubnonce_src[i]
      OBVIOUS
    <3>1. wire_pubnonce_src[i] \in PubNonceRec
          /\ wire_pubnonce_src[i].r \in FinitePoint \X FinitePoint
      BY <1>0 DEF WireInv, SentFromSrc
    <3>. QED  BY <2>3, <3>1, Ser66RoundTrip
  <2>5. TypeOK'
    BY <1>0, <2>1, Zenon DEF vars, session_vars, TypeOK
  <2>6. WireTypeOK'
    <3>1. wire_pubnonce_src[i] \in PubNonceRec \cup {NoArg}
      BY <1>0
    <3>2. recv_pubnonce_src' \in [Signers -> PubNonceRec \cup {NoArg}]
      BY <1>0, <2>1, <3>1
    <3>3. recv_pubnonce' \in [Signers -> PubNonceRec]
      BY <1>0, <2>1, <2>2
    <3>. QED  BY <1>0, <2>1, <2>5, <3>2, <3>3, Zenon DEF WireTypeOK
  <2>7. WireRoundTrip'
    <3>. SUFFICES ASSUME NEW j \in Signers
                  PROVE  /\ recv_pubnonce_src'[j] # NoArg /\ recv_pubnonce_src'[j].magic
                                => recv_pubnonce'[j] = recv_pubnonce_src'[j]
                         /\ recv_sig_src'[j] # NoArg /\ recv_sig_src'[j].magic
                                => recv_sig'[j] = recv_sig_src'[j]
      BY DEF WireRoundTrip
    <3>1. CASE j = i
      BY <1>0, <2>1, <2>4, <3>1 DEF WireInv, WireRoundTrip
    <3>2. CASE j # i
      BY <1>0, <2>1, <3>2 DEF WireInv, WireRoundTrip
    <3>. QED  BY <3>1, <3>2
  <2>8. ParsedObjectsLoad'
    BY <1>0, <2>1, <2>2 DEF vars, session_vars, WireInv, ParsedObjectsLoad
  <2>9. NoncesFinite' /\ SentFromSrc'
    BY <2>1 DEF vars, session_vars, WireInv, NoncesFinite, PubnonceFinite,
                SentFromSrc
  <2>. QED  BY <2>6, <2>7, <2>8, <2>9 DEF WireInv
<1>4. ASSUME NEW b \in {Ser66(aggnonce)} \cup WireNonceBytes, AggnonceParse(b)
      PROVE  WireInv'
  <2>1. /\ Parses66(b) /\ aggnonce' = Parse66(b)
        /\ UNCHANGED <<keypair, keyagg_cache, secnonce, pubnonce, session,
                       partial_sig, sig64, nonce_gen_count, secnonce_sid,
                       sign_log, call_log, sign_src, session_src, sig64_src, wire_vars>>
    BY <1>4 DEF AggnonceParse
  <2>2. /\ Parse66(b) \in PubNonceRec /\ Parse66(b).magic
        /\ Parse66(b).r \in FinitePoint \X FinitePoint
    BY <2>1, Parse66Finite
  <2>3. TypeOK'
    BY <1>0, <2>1, <2>2, Zenon DEF TypeOK
  <2>. QED  BY <1>0, <2>1, <2>2, <2>3
            DEF WireInv, WireTypeOK, NoncesFinite, PubnonceFinite, SentFromSrc,
                ParsedObjectsLoad, WireRoundTrip, wire_vars
<1>5. ASSUME NEW i \in Signers, PartialSigSerialize(i) PROVE WireInv'
  <2>0. partial_sig[i] \in PartialSigRec
    BY <1>0, Zenon DEF TypeOK
  <2>01. partial_sig[i].s \in Scalar
    BY <2>0, Zenon DEF PartialSigRec
  <2>1. /\ wire_sig'[i] \in SigBytes
        /\ partial_sig[i].magic => wire_sig'[i] = partial_sig[i].s
        /\ wire_sig' = [wire_sig EXCEPT ![i] = wire_sig'[i]]
    BY <1>0, <1>00, <1>5, <2>01, WireAssumption DEF PartialSigSerialize
  <2>2. UNCHANGED vars
    BY <1>5 DEF PartialSigSerialize
  <2>3. TypeOK'
    BY <1>0, <2>2, Zenon DEF vars, session_vars, TypeOK
  <2>4. wire_sig_src' = [wire_sig_src EXCEPT ![i] = partial_sig[i]]
    BY <1>5 DEF PartialSigSerialize
  <2>5. SentFromSrc'
    <3>. SUFFICES ASSUME NEW j \in Signers
                  PROVE  /\ wire_pubnonce'[j] # NoArg
                              => wire_pubnonce'[j] = Ser66(wire_pubnonce_src'[j])
                         /\ wire_pubnonce_src'[j].magic
                              => wire_pubnonce_src'[j].r \in FinitePoint \X FinitePoint
                         /\ wire_sig'[j] # NoArg /\ wire_sig_src'[j].magic
                              => wire_sig'[j] = wire_sig_src'[j].s
      BY DEF SentFromSrc
    <3>1. UNCHANGED <<wire_pubnonce, wire_pubnonce_src>>
      BY <1>5 DEF PartialSigSerialize
    <3>2. CASE j = i
      BY <1>0, <2>1, <2>4, <3>1, <3>2 DEF WireInv, SentFromSrc
    <3>3. CASE j # i
      BY <1>0, <2>1, <2>4, <3>1, <3>3 DEF WireInv, SentFromSrc
    <3>. QED  BY <3>2, <3>3
  <2>6. wire_sig_src' \in [Signers -> PartialSigRec]
    BY <1>0, <2>0, <2>4
  <2>. QED  BY <1>0, <1>5, <2>1, <2>2, <2>3, <2>5, <2>6
            DEF PartialSigSerialize, vars, session_vars, WireInv, WireTypeOK,
                NoncesFinite, PubnonceFinite, ParsedObjectsLoad, WireRoundTrip
<1>6. ASSUME NEW i \in Signers, NEW in \in SigInputs(i),
             PartialSigParse(i, in[1], in[2])
      PROVE  WireInv'
  <2>. DEFINE b == in[1]
  <2>0. /\ b \in SigBytes
        /\ in[2] => b = wire_sig[i] /\ wire_sig[i] # NoArg
    <3>1. CASE in \in {<<c, TRUE>> : c \in {wire_sig[i]} \ {NoArg}}
      <4>1. PICK c \in {wire_sig[i]} \ {NoArg} : in = <<c, TRUE>>
        BY <3>1
      <4>2. wire_sig[i] \in SigBytes \cup {NoArg}
        BY <1>0
      <4>. QED  BY <4>1, <4>2
    <3>2. CASE in \in WireSigBytes \X {FALSE}
      <4>1. in[1] \in WireSigBytes /\ in[2] = FALSE
        BY <3>2
      <4>. QED  BY <4>1, WireAssumption
    <3>. QED  BY <3>1, <3>2 DEF SigInputs
  <2>1. UNCHANGED <<vars, wire_pubnonce, wire_sig, recv_pubnonce,
                    wire_pubnonce_src, wire_sig_src, recv_pubnonce_src>>
    BY <1>6 DEF PartialSigParse
  <2>2. TypeOK'
    BY <1>0, <2>1, Zenon DEF vars, session_vars, TypeOK
  <2>3. CASE SigOverflows(b)
    <3>1. /\ sig_parse_failed' = [sig_parse_failed EXCEPT ![i] = TRUE]
          /\ UNCHANGED <<recv_sig, recv_sig_src>>
      BY <1>6, <2>3 DEF PartialSigParse
    <3>. QED  BY <1>0, <2>1, <2>2, <3>1
              DEF vars, session_vars, WireInv, WireTypeOK, NoncesFinite,
                  PubnonceFinite, SentFromSrc, ParsedObjectsLoad, WireRoundTrip
  <2>4. CASE ~SigOverflows(b)
    <3>1. /\ recv_sig' = [recv_sig EXCEPT ![i] = [magic |-> TRUE, s |-> b]]
          /\ recv_sig_src' = [recv_sig_src EXCEPT ![i] =
                                IF in[2] THEN wire_sig_src[i] ELSE NoArg]
          /\ sig_parse_failed' = [sig_parse_failed EXCEPT ![i] = FALSE]
      BY <1>6, <2>4 DEF PartialSigParse
    <3>2. b \in Scalar
      BY <1>00, <2>0, <2>4
    <3>3. in[2] /\ wire_sig_src[i].magic => [magic |-> TRUE, s |-> b] = wire_sig_src[i]
      <4>. SUFFICES ASSUME in[2], wire_sig_src[i].magic
                    PROVE  [magic |-> TRUE, s |-> b] = wire_sig_src[i]
        OBVIOUS
      <4>1. b = wire_sig_src[i].s
        BY <2>0 DEF WireInv, SentFromSrc
      <4>2. wire_sig_src[i] = [magic |-> TRUE, s |-> wire_sig_src[i].s]
        BY <1>0 DEF PartialSigRec
      <4>. QED  BY <4>1, <4>2
    <3>4. WireTypeOK'
      <4>1. [magic |-> TRUE, s |-> b] \in [magic : BOOLEAN, s : SigBytes]
        BY <2>0
      <4>2. recv_sig' \in [Signers -> [magic : BOOLEAN, s : SigBytes]]
        BY <1>0, <3>1, <4>1
      <4>3. wire_sig_src[i] \in PartialSigRec \cup {NoArg}
        BY <1>0
      <4>4. recv_sig_src' \in [Signers -> PartialSigRec \cup {NoArg}]
        BY <1>0, <3>1, <4>3
      <4>5. sig_parse_failed' \in [Signers -> BOOLEAN]
        BY <1>0, <3>1
      <4>. QED  BY <1>0, <2>1, <2>2, <4>2, <4>4, <4>5, Zenon DEF WireTypeOK
    <3>5. WireRoundTrip'
      <4>. SUFFICES ASSUME NEW j \in Signers
                    PROVE  /\ recv_pubnonce_src'[j] # NoArg /\ recv_pubnonce_src'[j].magic
                                  => recv_pubnonce'[j] = recv_pubnonce_src'[j]
                           /\ recv_sig_src'[j] # NoArg /\ recv_sig_src'[j].magic
                                  => recv_sig'[j] = recv_sig_src'[j]
        BY DEF WireRoundTrip
      <4>1. CASE j = i
        BY <1>0, <2>1, <3>1, <3>3, <4>1 DEF WireInv, WireRoundTrip
      <4>2. CASE j # i
        BY <1>0, <2>1, <3>1, <4>2 DEF WireInv, WireRoundTrip
      <4>. QED  BY <4>1, <4>2
    <3>6. ParsedObjectsLoad'
      BY <1>0, <2>1, <3>1, <3>2 DEF vars, session_vars, WireInv, ParsedObjectsLoad
    <3>7. NoncesFinite' /\ SentFromSrc'
      BY <2>1 DEF vars, session_vars, WireInv, NoncesFinite, PubnonceFinite,
                  SentFromSrc
    <3>. QED  BY <3>4, <3>5, <3>6, <3>7 DEF WireInv
  <2>. QED  BY <2>3, <2>4
<1>7. CASE UNCHANGED all_vars
  BY <1>7 DEF all_vars, vars, session_vars, wire_vars, WireInv, WireTypeOK,
              TypeOK, NoncesFinite, PubnonceFinite, SentFromSrc, ParsedObjectsLoad,
              WireRoundTrip
<1>. QED  BY <1>1, <1>2, <1>3, <1>4, <1>5, <1>6, <1>7 DEF WireNext

(* In every reachable state, whatever bytes receivers are handed: the bytes *)
(* a cosigner sent are the encoding of the object it serialized, which     *)
(* held finite points or a reduced scalar when it loaded, the session's   *)
(* nonces are finite, and parsed objects load and round-trip.              *)
LEMMA WireInvariant == WireSpec => []WireInv
BY WireInvInit, WireInvStep, PTL DEF WireSpec

(* The coordinator's and the cosigners' objects keep their types whatever  *)
(* bytes they are handed, and whatever bytes are sent are strings of the   *)
(* wire formats.                                                           *)
THEOREM WireTypeCorrect == WireSpec => []WireTypeOK
BY WireInvariant, PTL DEF WireInv

(* Round trip (spec 8.8), for every group order and every set of strings a *)
(* receiver may be handed: a pubnonce or partial signature parsed from the *)
(* bytes a cosigner serialized from a loaded object equals that object.    *)
THEOREM WireRoundTripHolds == WireSpec => []WireRoundTrip
BY WireInvariant, PTL DEF WireInv

(* Parsed objects load (partial_sig_load's VERIFY_CHECK, the non-infinity  *)
(* pubnonce_save requires), whatever bytes the receiver was handed.        *)
THEOREM ParsedObjectsLoadHolds == WireSpec => []ParsedObjectsLoad
BY WireInvariant, PTL DEF WireInv

-----------------------------------------------------------------------------
(* The refinement of MuSigChannel.                                         *)

\* The zeroed output of serializing a nonce that does not load never parses.
LEMMA Ser66Unloaded ==
    ASSUME NEW n, ~n.magic
    PROVE  ~Parses66(Ser66(n))
BY DEF Ser66, Parses66, Parses33

\* The session inside the channel is the session itself.
LEMMA ChannelSession ==
    /\ CH!Signers = Signers /\ CH!vars = vars /\ CH!vars' = vars'
    /\ CH!PubNonceRec = PubNonceRec /\ CH!PartialSigRec = PartialSigRec
    /\ CH!FinitePoint = FinitePoint
    /\ CH!ZeroPubNonce = ZeroPubNonce /\ CH!ZeroPartialSig = ZeroPartialSig
    /\ CH!Init <=> Init
    /\ CH!Next <=> Next
<1>. USE DEF
    Scalar, CH!Scalar, Point, CH!Point, FinitePoint, CH!FinitePoint, Add, 
    CH!Add, Mul, CH!Mul, Neg, CH!Neg, Sub, CH!Sub, XOnly, CH!XOnly, 
    PointSum, CH!PointSum, Signers, CH!Signers, CacheRec, CH!CacheRec, 
    ZeroCache, CH!ZeroCache, Keys, CH!Keys, SecondPkX, CH!SecondPkX, 
    KeyAggCoefIndexed, CH!KeyAggCoefIndexed, KeyAggCoef, CH!KeyAggCoef, 
    AggregatePoint, CH!AggregatePoint, PubkeyAgg, CH!PubkeyAgg, 
    PubkeyTweakAdd, CH!PubkeyTweakAdd, KeyAggInit, CH!KeyAggInit, 
    KeyAggNext, CH!KeyAggNext, Sids, CH!Sids, session_vars, 
    CH!session_vars, vars, CH!vars, SecNonceRec, CH!SecNonceRec, 
    PubNonceRec, CH!PubNonceRec, SessionRec, CH!SessionRec, 
    PartialSigRec, CH!PartialSigRec, Sig64Rec, CH!Sig64Rec, ZeroSecNonce, 
    CH!ZeroSecNonce, ZeroPubNonce, CH!ZeroPubNonce, ZeroSession, 
    CH!ZeroSession, ZeroPartialSig, CH!ZeroPartialSig, NoSig64, 
    CH!NoSig64, SessionSrcRec, CH!SessionSrcRec, NoSessionSrc, 
    CH!NoSessionSrc, SignSrcRec, CH!SignSrcRec, NoSignSrc, CH!NoSignSrc, 
    Sig64SrcRec, CH!Sig64SrcRec, NoSig64Src, CH!NoSig64Src, 
    NonceFunction, CH!NonceFunction, SumNonces, CH!SumNonces, NonceGen, 
    CH!NonceGen, NonceAgg, CH!NonceAgg, FinalNonce, CH!FinalNonce, 
    SPartNoParity, CH!SPartNoParity, SPart, CH!SPart, NonceProcess, 
    CH!NonceProcess, SignNegatesKeyUntweaked, CH!SignNegatesKeyUntweaked, 
    SignNegatesKey, CH!SignNegatesKey, SignNonces, CH!SignNonces, 
    PartialSigValue, CH!PartialSigValue, SignInputsLoadNoSession, 
    CH!SignInputsLoadNoSession, SignInputsLoad, CH!SignInputsLoad, 
    ConsumedSecNonceKept, CH!ConsumedSecNonceKept, ConsumedSecNonce, 
    CH!ConsumedSecNonce, PartialSign, CH!PartialSign, 
    VerifyNegatesChallenge, CH!VerifyNegatesChallenge, 
    PartialSigVerifyWith, CH!PartialSigVerifyWith, PartialSigVerify, 
    CH!PartialSigVerify, PartialSigSumUnreduced, 
    CH!PartialSigSumUnreduced, PartialSigSum, CH!PartialSigSum, 
    PartialSigAgg, CH!PartialSigAgg, Init, CH!Init, Next, CH!Next, 
    SumFunction, CH!SumFunction, SumFunctionOnSet, CH!SumFunctionOnSet, 
    FoldFunctionOnSet, CH!FoldFunctionOnSet, MapThenFoldSet, 
    CH!MapThenFoldSet
<1>1. CH!Signers = Signers /\ CH!vars = vars /\ CH!vars' = vars'  BY Zenon
<1>2. CH!PubNonceRec = PubNonceRec /\ CH!PartialSigRec = PartialSigRec  BY Zenon
<1>3. CH!FinitePoint = FinitePoint  BY Zenon
<1>4. CH!ZeroPubNonce = ZeroPubNonce /\ CH!ZeroPartialSig = ZeroPartialSig  BY Zenon
<1>5. CH!Init <=> Init  BY Zenon
<1>6. CH!Next <=> Next  BY Zenon
<1>. QED  BY <1>1, <1>2, <1>3, <1>4, <1>5, <1>6, Zenon

\* The initial state maps to the initial state of the channel.
LEMMA ChannelInit == WireInit => CH!ChanInit
<1>. SUFFICES ASSUME WireInit PROVE CH!ChanInit  OBVIOUS
<1>. USE ChannelSession
<1>1. MappedSentNonce = [i \in Signers |-> NoArg]
      /\ MappedSentSig = [i \in Signers |-> NoArg]
      /\ MappedSigFrom = [i \in Signers |-> NoArg]
  BY DEF WireInit, MappedSentNonce, MappedSentSig, MappedSigFrom
<1>. QED  BY <1>1 DEF WireInit, CH!ChanInit

\* Every step of the wire maps to a step of the channel or to a stutter.
LEMMA ChannelStep ==
    WireInv /\ [WireNext]_all_vars => [CH!ChanNext]_<<CH!vars, CH!chan_vars>>
<1>. SUFFICES ASSUME WireInv, [WireNext]_all_vars
              PROVE  [CH!ChanNext]_<<CH!vars, CH!chan_vars>>
  OBVIOUS
<1>. USE ChannelSession
<1>0. /\ TypeOK
      /\ wire_pubnonce \in [Signers -> Bytes66 \cup {NoArg}]
      /\ wire_sig \in [Signers -> SigBytes \cup {NoArg}]
      /\ recv_pubnonce \in [Signers -> PubNonceRec]
      /\ recv_sig \in [Signers -> [magic : BOOLEAN, s : SigBytes]]
      /\ wire_pubnonce_src \in [Signers -> PubNonceRec]
      /\ wire_sig_src \in [Signers -> PartialSigRec]
      /\ recv_pubnonce_src \in [Signers -> PubNonceRec \cup {NoArg}]
      /\ recv_sig_src \in [Signers -> PartialSigRec \cup {NoArg}]
      /\ sig_parse_failed \in [Signers -> BOOLEAN]
  BY DEF WireInv, WireTypeOK
<1>00. /\ Scalar \subseteq SigBytes
       /\ \A b \in SigBytes : ~SigOverflows(b) => b \in Scalar
       /\ SigBytes \subseteq Int /\ NoArg \notin Int
       /\ NoArg \notin Bytes66
  BY QAssumption, ConstantsAssumption, WireAssumption
     DEF Scalar, SigBytes, SigOverflows
<1>1. ASSUME Next, UNCHANGED wire_vars PROVE CH!ChanNext
  <2>1. UNCHANGED CH!chan_vars
    BY <1>1 DEF wire_vars, CH!chan_vars, MappedSentNonce, MappedSentSig,
                MappedSigFrom
  <2>. QED  BY <1>1, <2>1 DEF CH!ChanNext
<1>2. ASSUME NEW i \in Signers, PubnonceSerialize(i) PROVE CH!SendNonce(i)
  <2>1. Ser66(pubnonce[i]) # NoArg
    BY <1>0, <1>00, Ser66Type DEF TypeOK
  <2>2. MappedSentNonce' = [MappedSentNonce EXCEPT ![i] = pubnonce[i]]
    BY <1>0, <1>2, <2>1 DEF PubnonceSerialize, MappedSentNonce
  <2>3. UNCHANGED <<vars, MappedSentSig, recv_pubnonce, recv_sig, recv_pubnonce_src,
                    MappedSigFrom, sig_parse_failed>>
    BY <1>2 DEF PubnonceSerialize, MappedSentSig, MappedSigFrom
  <2>. QED  BY <2>2, <2>3, Zenon DEF CH!SendNonce
<1>3. ASSUME NEW i \in Signers, NEW in \in NonceInputs(i),
             PubnonceParse(i, in[1], in[2])
      PROVE  CH!DeliverNonce(i) \/ CH!ForeignNonce(i)
  <2>. DEFINE b == in[1]
  <2>1. /\ Parses66(b)
        /\ recv_pubnonce' = [recv_pubnonce EXCEPT ![i] = Parse66(b)]
        /\ recv_pubnonce_src' = [recv_pubnonce_src EXCEPT ![i] =
                                   IF in[2] THEN wire_pubnonce_src[i] ELSE NoArg]
        /\ UNCHANGED <<vars, wire_pubnonce, wire_sig, recv_sig, wire_pubnonce_src,
                       wire_sig_src, recv_sig_src, sig_parse_failed>>
    BY <1>3 DEF PubnonceParse
  <2>2. UNCHANGED <<MappedSentNonce, MappedSentSig, MappedSigFrom>>
    BY <2>1 DEF MappedSentNonce, MappedSentSig, MappedSigFrom
  <2>3. Parse66(b) \in CH!LoadedNonces
    BY <2>1, Parse66Finite DEF CH!LoadedNonces
  <2>4. CASE in[2]
    <3>1. b = wire_pubnonce[i] /\ wire_pubnonce[i] # NoArg
      <4>1. CASE in \in {<<c, TRUE>> : c \in {wire_pubnonce[i]} \ {NoArg}}
        <5>1. PICK c \in {wire_pubnonce[i]} \ {NoArg} : in = <<c, TRUE>>
          BY <4>1
        <5>. QED  BY <5>1
      <4>2. CASE in \in WireNonceBytes \X {FALSE}
        <5>1. in[2] = FALSE
          BY <4>2
        <5>. QED  BY <2>4, <5>1
      <4>. QED  BY <4>1, <4>2 DEF NonceInputs
    <3>. DEFINE src == wire_pubnonce_src[i]
    <3>2. b = Ser66(src) /\ src \in PubNonceRec
      BY <1>0, <3>1 DEF WireInv, SentFromSrc
    <3>3. src.magic
      BY <2>1, <3>2, Ser66Unloaded
    <3>4. src.r \in FinitePoint \X FinitePoint
      BY <3>3 DEF WireInv, SentFromSrc
    <3>5. Parse66(b) = src
      BY <3>2, <3>3, <3>4, Ser66RoundTrip
    <3>6. MappedSentNonce[i] = src /\ src \in CH!LoadedNonces
      BY <1>0, <3>1, <3>2, <3>3, <3>4 DEF MappedSentNonce, CH!LoadedNonces
    <3>. QED  BY <2>1, <2>2, <2>4, <3>5, <3>6, Zenon DEF CH!DeliverNonce
  <2>5. CASE ~in[2]
    BY <2>1, <2>2, <2>3, <2>5, Zenon DEF CH!ForeignNonce
  <2>. QED  BY <2>4, <2>5
<1>4. ASSUME NEW b \in {Ser66(aggnonce)} \cup WireNonceBytes, AggnonceParse(b)
      PROVE  CH!ReceiveAggnonce
  <2>1. Parse66(b) \in CH!LoadedNonces
    BY <1>4, Parse66Finite DEF AggnonceParse, CH!LoadedNonces
  <2>2. UNCHANGED CH!chan_vars
    BY <1>4 DEF AggnonceParse, wire_vars, CH!chan_vars, MappedSentNonce,
                MappedSentSig, MappedSigFrom
  <2>. QED  BY <1>4, <2>1, <2>2 DEF AggnonceParse, CH!ReceiveAggnonce
<1>5. ASSUME NEW i \in Signers, PartialSigSerialize(i) PROVE CH!SendSig(i)
  <2>1. wire_sig'[i] \in SigBytes
    <3>1. partial_sig[i].s \in Scalar
      BY <1>0, Zenon DEF TypeOK, PartialSigRec
    <3>. QED  BY <1>0, <1>00, <1>5, <3>1, WireAssumption DEF PartialSigSerialize
  <2>2. wire_sig' = [wire_sig EXCEPT ![i] = wire_sig'[i]]
    BY <1>5 DEF PartialSigSerialize
  <2>3. MappedSentSig' = [MappedSentSig EXCEPT ![i] = partial_sig[i]]
    BY <1>0, <1>00, <1>5, <2>1, <2>2 DEF PartialSigSerialize, MappedSentSig
  <2>4. UNCHANGED <<vars, MappedSentNonce, recv_pubnonce, recv_sig,
                    recv_pubnonce_src, MappedSigFrom, sig_parse_failed>>
    BY <1>5 DEF PartialSigSerialize, MappedSentNonce, MappedSigFrom
  <2>. QED  BY <2>3, <2>4, Zenon DEF CH!SendSig
<1>6. ASSUME NEW i \in Signers, NEW in \in SigInputs(i),
             PartialSigParse(i, in[1], in[2])
      PROVE  \/ CH!DeliverSig(i) \/ CH!GarbageSig(i) \/ CH!ForeignSig(i)
             \/ CH!RejectSig(i)
  <2>. DEFINE b == in[1]
  <2>0. /\ b \in SigBytes
        /\ in[2] => b = wire_sig[i] /\ wire_sig[i] # NoArg
    <3>1. CASE in \in {<<c, TRUE>> : c \in {wire_sig[i]} \ {NoArg}}
      <4>1. PICK c \in {wire_sig[i]} \ {NoArg} : in = <<c, TRUE>>
        BY <3>1
      <4>2. wire_sig[i] \in SigBytes \cup {NoArg}
        BY <1>0
      <4>. QED  BY <4>1, <4>2
    <3>2. CASE in \in WireSigBytes \X {FALSE}
      <4>1. in[1] \in WireSigBytes /\ in[2] = FALSE
        BY <3>2
      <4>. QED  BY <4>1, WireAssumption
    <3>. QED  BY <3>1, <3>2 DEF SigInputs
  <2>1. /\ UNCHANGED <<vars, wire_pubnonce, wire_sig, recv_pubnonce,
                       wire_pubnonce_src, wire_sig_src, recv_pubnonce_src>>
        /\ UNCHANGED <<MappedSentNonce, MappedSentSig>>
    BY <1>6 DEF PartialSigParse, MappedSentNonce, MappedSentSig
  <2>2. CASE SigOverflows(b)
    <3>1. /\ sig_parse_failed' = [sig_parse_failed EXCEPT ![i] = TRUE]
          /\ UNCHANGED <<recv_sig, recv_sig_src>>
      BY <1>6, <2>2 DEF PartialSigParse
    <3>2. MappedSigFrom' = [MappedSigFrom EXCEPT ![i] = NoArg]
      BY <1>0, <3>1 DEF MappedSigFrom
    <3>3. recv_sig[i] \in CH!SigObjects /\ recv_sig' = [recv_sig EXCEPT ![i] = recv_sig[i]]
      BY <1>0, <3>1 DEF CH!SigObjects, SigBytes
    <3>. QED  BY <2>1, <3>1, <3>2, <3>3, Zenon DEF CH!RejectSig
  <2>3. CASE ~SigOverflows(b)
    <3>1. /\ recv_sig' = [recv_sig EXCEPT ![i] = [magic |-> TRUE, s |-> b]]
          /\ recv_sig_src' = [recv_sig_src EXCEPT ![i] =
                                IF in[2] THEN wire_sig_src[i] ELSE NoArg]
          /\ sig_parse_failed' = [sig_parse_failed EXCEPT ![i] = FALSE]
      BY <1>6, <2>3 DEF PartialSigParse
    <3>2. [magic |-> TRUE, s |-> b] \in CH!LoadedSigs
      BY <1>00, <2>0, <2>3 DEF CH!LoadedSigs, PartialSigRec
    <3>3. MappedSigFrom' = [MappedSigFrom EXCEPT ![i] =
                              IF in[2] THEN wire_sig_src[i] ELSE NoArg]
      BY <1>0, <3>1 DEF MappedSigFrom
    <3>4. CASE in[2]
      <4>. DEFINE src == wire_sig_src[i]
      <4>1. MappedSentSig[i] = src /\ src \in PartialSigRec
        BY <1>0, <2>0, <3>4 DEF MappedSentSig
      <4>2. CASE src.magic
        <5>1. [magic |-> TRUE, s |-> b] = src
          <6>1. b = src.s
            BY <2>0, <3>4, <4>2 DEF WireInv, SentFromSrc
          <6>2. src = [magic |-> TRUE, s |-> src.s]
            BY <4>1, <4>2 DEF PartialSigRec
          <6>. QED  BY <6>1, <6>2
        <5>2. src \in CH!LoadedSigs
          BY <4>1, <4>2 DEF CH!LoadedSigs
        <5>. QED  BY <2>1, <3>1, <3>3, <3>4, <4>1, <5>1, <5>2, Zenon DEF CH!DeliverSig
      <4>3. CASE ~src.magic
        <5>1. src \in PartialSigRec \ CH!LoadedSigs
          BY <4>1, <4>3 DEF CH!LoadedSigs
        <5>. QED  BY <2>1, <3>1, <3>2, <3>3, <3>4, <4>1, <5>1, Zenon DEF CH!GarbageSig
      <4>. QED  BY <4>2, <4>3
    <3>5. CASE ~in[2]
      BY <2>1, <3>1, <3>2, <3>3, <3>5, Zenon DEF CH!ForeignSig
    <3>. QED  BY <3>4, <3>5
  <2>. QED  BY <2>2, <2>3
<1>7. CASE UNCHANGED all_vars
  BY <1>7 DEF all_vars, wire_vars, CH!chan_vars, MappedSentNonce, MappedSentSig,
              MappedSigFrom
<1>. QED  BY <1>1, <1>2, <1>3, <1>4, <1>5, <1>6, <1>7 DEF WireNext, CH!ChanNext

(* The wire formats implement the object-level promise of                  *)
(* secp256k1_musig.h, for every group order, parity set and set of foreign *)
(* byte strings: every behaviour of serialize and parse, interleaved with  *)
(* the whole session, is a behaviour of MuSigChannel under the mapping.    *)
LEMMA ChannelRefines == WireSpec => ChannelRefinement
BY WireInvariant, ChannelInit, ChannelStep, PTL
DEF WireSpec, ChannelRefinement, CH!ChanSpec

=============================================================================
