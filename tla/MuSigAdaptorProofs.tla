------------------------- MODULE MuSigAdaptorProofs -------------------------
(***************************************************************************)
(* Proofs about adapt and extract_adaptor of MuSigAdaptor, for every group *)
(* order Q, number of cosigners N and choice of the hash functions: every  *)
(* object stays well typed, and extract_adaptor returns the adaptor secret *)
(* adapt added whenever it is given the pre-signature adapt started from   *)
(* and the same nonce parity.                                              *)
(***************************************************************************)
EXTENDS MuSigAdaptor, MuSigSessionProofs, MuSigGroupProofs

(* The inductive strengthening of AdaptorRoundTrip.  The adapted signature *)
(* holds the pre-signature adapt_src records plus the signed adaptor, and  *)
(* the extracted secret holds what extract_adaptor computed from the       *)
(* adapted signature of the adapt that extract_src records.  extract_src   *)
(* keeps the adapt call, not the adapted bytes, so the second conjunct     *)
(* restates the first at the time of the extract.                          *)
AdaptedFromPre ==
    adapted_sig64.written =>
        adapted_sig64.s = Add(adapt_src.pre.s,
                              AdaptTerm(adapt_src.t, adapt_src.parity))

ExtractedFromAdapt ==
    LET a == extract_src.adapt
    IN  sec_adaptor.written =>
            sec_adaptor.t = ExtractedAdaptor(Add(a.pre.s, AdaptTerm(a.t, a.parity)),
                                             extract_src.pre.s, extract_src.parity)

AdaptInv == AdaptorTypeOK /\ AdaptedFromPre /\ ExtractedFromAdapt

-----------------------------------------------------------------------------
(* The arithmetic of the round trip.                                       *)

(* extract_adaptor undoes adapt: for a pre-signature scalar p, an adaptor  *)
(* secret t and one nonce parity, subtracting the adapted s from p and     *)
(* negating on even parity gives back t.                                   *)
LEMMA ExtractUndoesAdapt ==
    ASSUME NEW p \in Scalar, NEW t \in Scalar, NEW par \in BOOLEAN
    PROVE  ExtractedAdaptor(Add(p, AdaptTerm(t, par)), p, par) = t
<1>. DEFINE g == Sgn(par)
            s == Add(p, AdaptTerm(t, par))
            d == Add(Neg(s), p)
<1>0. /\ p \in Int /\ t \in Int /\ p % Q = p /\ t % Q = t
      /\ g \in {-1, 1} /\ g * t \in Int /\ p + g * t \in Int
  BY ScalarMod, QAssumption DEF Scalar, Sgn, g
<1>1. AdaptTerm(t, par) = (g * t) % Q
  <2>1. (IF par THEN Neg(t % Q) ELSE t % Q) = (Sgn(par) * t) % Q
    BY <1>0, CondNegRed
  <2>. QED  BY <1>0, <2>1 DEF AdaptTerm, g
<1>2. s = (p + g * t) % Q
  <2>1. Add(p % Q, (g * t) % Q) = (p + g * t) % Q
    BY <1>0, AddRed
  <2>. QED  BY <1>0, <1>1, <2>1 DEF s
<1>3. d = ((-g) * t) % Q
  <2>1. Neg(s) = (-(p + g * t)) % Q
    BY <1>0, <1>2, NegRed
  <2>2. Add((-(p + g * t)) % Q, p % Q) = (-(p + g * t) + p) % Q
    BY <1>0, AddRed
  <2>3. -(p + g * t) + p = (-g) * t
    BY <1>0
  <2>. QED  BY <1>0, <2>1, <2>2, <2>3 DEF d
<1>4. CASE par
  <2>1. g = -1
    BY <1>4 DEF g, Sgn
  <2>2. d = t
    BY <1>0, <1>3, <2>1
  <2>. QED  BY <1>4, <2>2 DEF ExtractedAdaptor, d, s
<1>5. CASE ~par
  <2>1. g = 1
    BY <1>5 DEF g, Sgn
  <2>2. d = (-t) % Q
    BY <1>0, <1>3, <2>1
  <2>3. Neg((-t) % Q) = (-(-t)) % Q
    BY <1>0, NegRed
  <2>4. Neg(d) = t
    BY <1>0, <2>2, <2>3
  <2>. QED  BY <1>5, <2>4 DEF ExtractedAdaptor, d, s
<1>. QED  BY <1>4, <1>5

-----------------------------------------------------------------------------
(* The invariant.                                                          *)

\* Nothing is adapted or extracted initially.
LEMMA AdaptInvInit == AdaptorInit => AdaptInv
<1>. SUFFICES ASSUME AdaptorInit PROVE AdaptInv  OBVIOUS
<1>1. TypeOK
  BY TypeOKInit DEF AdaptorInit
<1>2. /\ NoSig64 \in Sig64Rec
      /\ [written |-> FALSE, t |-> 0] \in [written : BOOLEAN, t : Scalar]
      /\ NoAdaptSrc \in AdaptSrcRec
      /\ NoExtractSrc \in ExtractSrcRec
  BY QAssumption DEF NoSig64, Sig64Rec, Scalar, Point, NoAdaptSrc, AdaptSrcRec,
                     NoExtractSrc, ExtractSrcRec
<1>. QED  BY <1>1, <1>2 DEF AdaptorInit, AdaptInv, AdaptorTypeOK, AdaptedFromPre,
                             ExtractedFromAdapt, NoSig64

\* adapt and extract_adaptor keep the objects well typed and the records
\* true; the session's calls touch neither.
LEMMA AdaptInvStep == AdaptInv /\ [AdaptorNext]_all_vars => AdaptInv'
<1>. SUFFICES ASSUME AdaptInv, [AdaptorNext]_all_vars PROVE AdaptInv'  OBVIOUS
<1>0. TypeOK /\ sig64 \in Sig64Rec /\ adapted_sig64 \in Sig64Rec
      /\ adapt_src \in AdaptSrcRec
  BY DEF AdaptInv, AdaptorTypeOK, TypeOK
<1>1. ASSUME Next, UNCHANGED adaptor_vars PROVE AdaptInv'
  <2>1. TypeOK'
    BY <1>0, <1>1, TypeOKStep
  <2>. QED  BY <1>1, <2>1 DEF AdaptInv, AdaptorTypeOK, AdaptedFromPre,
                              ExtractedFromAdapt, adaptor_vars
<1>2. ASSUME NEW t \in AdaptInputs, NEW parity \in BOOLEAN, Adapt(t, parity)
      PROVE  AdaptInv'
  <2>1. t \in Scalar
    BY <1>2, AdaptInputsAssumption, QAssumption DEF Adapt, AdaptorOverflows, Scalar
  <2>2. Add(sig64.s, AdaptTerm(t, parity)) \in Scalar
    <3>1. sig64.s \in Int /\ AdaptTerm(t, parity) \in Int
      BY <1>0, <2>1, NegType, ScalarInt DEF AdaptTerm, Sig64Rec
    <3>. QED  BY <3>1, AddType
  <2>3. adapted_sig64' \in Sig64Rec
    BY <1>0, <1>2, <2>2 DEF Adapt, Sig64Rec
  <2>4. adapt_src' \in AdaptSrcRec
    BY <1>0, <1>2, <2>1 DEF Adapt, AdaptSrcRec
  <2>5. TypeOK'
    <3>1. UNCHANGED vars
      BY <1>2 DEF Adapt
    <3>. QED  BY <1>0, <3>1, Zenon DEF vars, session_vars, TypeOK
  <2>6. AdaptedFromPre'
    BY <1>2 DEF Adapt, AdaptedFromPre
  <2>. QED  BY <1>2, <2>3, <2>4, <2>5, <2>6
            DEF Adapt, AdaptInv, AdaptorTypeOK, ExtractedFromAdapt
<1>3. ASSUME NEW parity \in BOOLEAN, ExtractAdaptor(parity) PROVE AdaptInv'
  <2>1. ExtractedAdaptor(adapted_sig64.s, sig64.s, parity) \in Scalar
    <3>1. adapted_sig64.s \in Int /\ sig64.s \in Int
      BY <1>0, ScalarInt DEF Sig64Rec
    <3>2. Add(Neg(adapted_sig64.s), sig64.s) \in Scalar
      BY <3>1, NegType, AddType, ScalarInt
    <3>. QED  BY <3>2, NegType, ScalarInt DEF ExtractedAdaptor
  <2>2. sec_adaptor' \in [written : BOOLEAN, t : Scalar]
    BY <1>3, <2>1 DEF ExtractAdaptor
  <2>3. extract_src' \in ExtractSrcRec
    BY <1>0, <1>3 DEF ExtractAdaptor, ExtractSrcRec
  <2>4. TypeOK'
    <3>1. UNCHANGED vars
      BY <1>3 DEF ExtractAdaptor
    <3>. QED  BY <1>0, <3>1, Zenon DEF vars, session_vars, TypeOK
  <2>5. ExtractedFromAdapt'
    <3>1. adapted_sig64.s = Add(adapt_src.pre.s, AdaptTerm(adapt_src.t, adapt_src.parity))
      BY <1>3 DEF ExtractAdaptor, AdaptInv, AdaptedFromPre
    <3>. QED  BY <1>3, <3>1 DEF ExtractAdaptor, ExtractedFromAdapt
  <2>. QED  BY <1>3, <2>2, <2>3, <2>4, <2>5
            DEF ExtractAdaptor, AdaptInv, AdaptorTypeOK, AdaptedFromPre
<1>4. CASE UNCHANGED all_vars
  BY <1>4 DEF all_vars, vars, session_vars, adaptor_vars, AdaptInv, AdaptorTypeOK,
              TypeOK, AdaptedFromPre, ExtractedFromAdapt
<1>. QED  BY <1>1, <1>2, <1>3, <1>4 DEF AdaptorNext

(* In every reachable state, for every group order: the adapted signature  *)
(* is the pre-signature plus the adaptor secret signed by the nonce        *)
(* parity, and the secret extract_adaptor wrote came from such a pair.     *)
LEMMA AdaptInvariant == AdaptorSpec => []AdaptInv
BY AdaptInvInit, AdaptInvStep, PTL DEF AdaptorSpec

(* adapt and extract_adaptor keep every object well typed, the adaptor     *)
(* secret extract_adaptor writes included, whatever the caller passes.     *)
THEOREM AdaptorTypeCorrect == AdaptorSpec => []AdaptorTypeOK
BY AdaptInvariant, PTL DEF AdaptInv

(* Adaptor round trip (spec 8.5), for every group order and every          *)
(* pre-signature: extract_adaptor given the signature adapt made, the      *)
(* pre-signature it made it from and the parity it was given returns the   *)
(* adaptor secret adapt added.                                             *)
THEOREM AdaptorRoundTripHolds == AdaptorSpec => []AdaptorRoundTrip
<1>1. AdaptInv => AdaptorRoundTrip
  <2>. SUFFICES ASSUME AdaptInv, sec_adaptor.written,
                       extract_src.parity = extract_src.adapt.parity,
                       extract_src.pre = extract_src.adapt.pre
                PROVE  sec_adaptor.t = extract_src.adapt.t
    BY DEF AdaptorRoundTrip
  <2>1. /\ extract_src.adapt.pre.s \in Scalar
        /\ extract_src.adapt.t \in Scalar
        /\ extract_src.adapt.parity \in BOOLEAN
    BY DEF AdaptInv, AdaptorTypeOK, ExtractSrcRec, AdaptSrcRec, Sig64Rec
  <2>2. sec_adaptor.t = ExtractedAdaptor(
            Add(extract_src.adapt.pre.s,
                AdaptTerm(extract_src.adapt.t, extract_src.adapt.parity)),
            extract_src.adapt.pre.s, extract_src.adapt.parity)
    BY DEF AdaptInv, ExtractedFromAdapt
  <2>. QED  BY <2>1, <2>2, ExtractUndoesAdapt
<1>. QED  BY <1>1, AdaptInvariant, PTL

=============================================================================
