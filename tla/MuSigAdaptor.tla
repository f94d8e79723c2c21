----------------------------- MODULE MuSigAdaptor -----------------------------
(***************************************************************************)
(* Adaptor signatures (adaptor_impl.h) on top of the signing session.      *)
(*                                                                         *)
(* A session processed with the adaptor point T = t*G yields a             *)
(* pre-signature sig64; adapt(sig64, t, parity) completes it and           *)
(* extract_adaptor(sig, pre_sig, parity) recovers t from the pair.  adapt  *)
(* works in place; the model has the caller adapt a copy, adapted_sig64,   *)
(* and keep the pre-signature in sig64, as extract_adaptor needs both.     *)
(* The parity argument is an int the caller passes, normally the one       *)
(* nonce_parity read from the session: any value is allowed here.          *)
(***************************************************************************)
EXTENDS MuSigSession

CONSTANT AdaptInputs    \* 32-byte adaptor secrets passed to adapt, as integers

\* The value Q stands for a 32-byte string that overflows the scalar.
ASSUME AdaptInputsAssumption == AdaptInputs \subseteq 0 .. Q

VARIABLES
    adapted_sig64,  \* the caller's copy of sig64 after adapt
    sec_adaptor,    \* the 32-byte output of extract_adaptor
    \* history, read only by the properties:
    adapt_src,      \* t, parity and pre-signature of the last adapt
    extract_src     \* parity, pre-signature and adapt_src of the last extract

adaptor_vars == <<adapted_sig64, sec_adaptor, adapt_src, extract_src>>
all_vars == <<vars, adaptor_vars>>

AdaptSrcRec == [t : Scalar, parity : BOOLEAN, pre : Sig64Rec]
NoAdaptSrc == [t |-> 0, parity |-> FALSE, pre |-> NoSig64]
ExtractSrcRec == [parity : BOOLEAN, pre : Sig64Rec, adapt : AdaptSrcRec]
NoExtractSrc == [parity |-> FALSE, pre |-> NoSig64, adapt |-> NoAdaptSrc]

\* Mutant: t is added without regard to the parity.
AdaptTermUnsigned(t, parity) == t

\* The adaptor as adapt adds it: t, negated when the nonce parity is odd.
AdaptTerm(t, parity) == IF parity THEN Neg(t) ELSE t

\* Mutant: a 32-byte value equal to n is taken for a scalar.
AdaptorOverflowsOffByOne(b) == b > Q

\* scalar_set_b32 of the adaptor secret reports overflow from n upwards.
AdaptorOverflows(b) == b >= Q

(* adapt(sig64, t, parity) on a copy of the pre-signature: fails when t    *)
(* overflows (s is a scalar the code wrote, so it never overflows).        *)
Adapt(t, parity) ==
    /\ sig64.written
    /\ ~AdaptorOverflows(t)
    /\ adapted_sig64' = [sig64 EXCEPT !.s = Add(sig64.s, AdaptTerm(t, parity))]
    /\ adapt_src' = [t |-> t, parity |-> parity, pre |-> sig64]
    /\ UNCHANGED <<vars, sec_adaptor, extract_src>>

\* Mutant: the final negation is taken on the wrong parity.
ExtractedAdaptorFlipped(s, pre_s, parity) ==
    LET t == Add(Neg(s), pre_s)
    IN  IF parity THEN Neg(t) ELSE t

\* Mutant: the difference is not reduced modulo n.
ExtractedAdaptorUnreduced(s, pre_s, parity) ==
    IF ~parity THEN s - pre_s ELSE pre_s - s

\* t = s(pre_sig) - s(sig), negated when the parity is even.
ExtractedAdaptor(s, pre_s, parity) ==
    LET t == Add(Neg(s), pre_s)
    IN  IF ~parity THEN Neg(t) ELSE t

(* extract_adaptor(adapted_sig64, sig64, parity).                          *)
ExtractAdaptor(parity) ==
    /\ adapted_sig64.written
    /\ sig64.written
    /\ sec_adaptor' = [written |-> TRUE,
                       t |-> ExtractedAdaptor(adapted_sig64.s, sig64.s, parity)]
    /\ extract_src' = [parity |-> parity, pre |-> sig64, adapt |-> adapt_src]
    /\ UNCHANGED <<vars, adapted_sig64, adapt_src>>

AdaptorInit ==
    /\ Init
    /\ adapted_sig64 = NoSig64
    /\ sec_adaptor = [written |-> FALSE, t |-> 0]
    /\ adapt_src = NoAdaptSrc
    /\ extract_src = NoExtractSrc

AdaptorNext ==
    \/ Next /\ UNCHANGED adaptor_vars
    \/ \E t \in AdaptInputs, parity \in BOOLEAN : Adapt(t, parity)
    \/ \E parity \in BOOLEAN : ExtractAdaptor(parity)

AdaptorSpec == AdaptorInit /\ [][AdaptorNext]_all_vars

-----------------------------------------------------------------------------
(* Properties.                                                             *)

AdaptorTypeOK ==
    /\ TypeOK
    /\ adapted_sig64 \in Sig64Rec
    /\ sec_adaptor \in [written : BOOLEAN, t : Scalar]
    /\ adapt_src \in AdaptSrcRec
    /\ extract_src \in ExtractSrcRec

(* Adaptor round trip (spec 8.5): extract_adaptor, given the signature     *)
(* adapt made from a pre-signature and that same pre-signature, with the   *)
(* parity adapt was given, returns the adaptor secret adapt was given.     *)
AdaptorRoundTrip ==
    /\ sec_adaptor.written
    /\ extract_src.parity = extract_src.adapt.parity
    /\ extract_src.pre = extract_src.adapt.pre
    => sec_adaptor.t = extract_src.adapt.t

(* Adapted signature validity (spec S3): adapting a pre-signature built    *)
(* from verified partial signatures (as in VerifiedPreSigValid) with the   *)
(* adaptor secret of its session and the session's nonce parity gives a    *)
(* valid BIP-340 signature under the aggregate x-only key.                 *)
AdaptedSigValid ==
    LET src == sig64_src.session
    IN  /\ adapted_sig64.written
        /\ adapt_src.pre = sig64
        /\ sig64_src.verified
        /\ src.cache = sig64_src.cache
        /\ src.aggnonce = SumNonces(sig64_src.nonces)
        /\ adapt_src.t = src.adaptor
        /\ adapt_src.parity = sig64_src.parity
        => Bip340Valid(adapted_sig64.rx, adapted_sig64.s, XOnly(src.cache.pk), src.msg)

=============================================================================
