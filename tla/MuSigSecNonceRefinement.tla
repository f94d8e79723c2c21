------------------------ MODULE MuSigSecNonceRefinement ------------------------
(***************************************************************************)
(* The signing session of MuSigSession implements the secret-nonce promise *)
(* of MuSigSecNonce.  Under the refinement mapping a cosigner holds the    *)
(* nonce of its secnonce object exactly when the object's magic is set     *)
(* (partial_sign and a failed nonce_gen zero it), the ids it has issued    *)
(* are those its nonce_gen calls drew from the counter, and the log of     *)
(* successful partial_sign calls is the same log.  Every other API call    *)
(* leaves the mapped state alone.                                          *)
(***************************************************************************)
EXTENDS MuSigSessionProofs

\* The secret nonce cosigner i holds: the id of its secnonce while it loads.
HeldSid(i) == IF secnonce[i].magic THEN secnonce_sid[i] ELSE NoArg

\* The session ids cosigner i's nonce_gen calls have used.
IssuedSids(i) == {c * N + (i - 1) : c \in 0 .. nonce_gen_count[i] - 1}

MappedHeld == [i \in Signers |-> HeldSid(i)]
MappedIssued == [i \in Signers |-> IssuedSids(i)]

SN == INSTANCE MuSigSecNonce WITH
        Signers <- Signers, Ids <- Sids, NoId <- NoArg,
        held <- MappedHeld, issued <- MappedIssued, sign_log <- sign_log

(* The session implements the abstract secret-nonce life cycle: nonce_gen  *)
(* makes a nonce from an unused id or holds none, partial_sign signs with  *)
(* the held nonce and drops it, a failed partial_sign drops it unsigned,   *)
(* and no other call (nonce_agg, nonce_process, partial_sig_agg, key       *)
(* aggregation) creates, revives or consumes a nonce.                      *)
SecNonceRefinement == SN!AbsSpec

-----------------------------------------------------------------------------
(* The proof.                                                              *)

\* The id of a cosigner's next nonce_gen call is not among its earlier ones.
LEMMA SidFresh ==
    ASSUME NEW i \in Signers, NEW n \in Nat
    PROVE  n * N + (i - 1) \notin {c * N + (i - 1) : c \in 0 .. n - 1}
<1>. SUFFICES ASSUME NEW c \in 0 .. n - 1, c * N + (i - 1) = n * N + (i - 1)
              PROVE  FALSE
  OBVIOUS
<1>1. c * N + N <= n * N
  BY NAssumption
<1>. QED  BY <1>1, NAssumption DEF Signers

\* One more nonce_gen call adds exactly its own id to the issued ones.
LEMMA IssuedGrow ==
    ASSUME NEW i \in Signers, NEW n \in Nat
    PROVE  {c * N + (i - 1) : c \in 0 .. (n + 1) - 1}
             = {c * N + (i - 1) : c \in 0 .. n - 1} \cup {n * N + (i - 1)}
<1>1. 0 .. (n + 1) - 1 = (0 .. n - 1) \cup {n}
  OBVIOUS
<1>. QED  BY <1>1

\* The initial session maps to the initial abstract state.
LEMMA RefinementInit == Init => SN!AbsInit
<1>. SUFFICES ASSUME Init PROVE SN!AbsInit  OBVIOUS
<1>1. MappedHeld = [i \in Signers |-> NoArg]
  BY DEF Init, MappedHeld, HeldSid, ZeroSecNonce
<1>2. MappedIssued = [i \in Signers |-> {}]
  BY DEF Init, MappedIssued, IssuedSids
<1>. QED  BY <1>1, <1>2 DEF Init, SN!AbsInit

\* Every step of the session is a step of the abstract life cycle or
\* leaves the mapped state alone.
LEMMA RefinementStep == TypeOK /\ [Next]_vars => [SN!AbsNext]_SN!abs_vars
<1>. SUFFICES ASSUME TypeOK, [Next]_vars PROVE [SN!AbsNext]_SN!abs_vars
  OBVIOUS
<1>0. /\ nonce_gen_count \in [Signers -> 0 .. MaxNonceGen]
      /\ secnonce_sid \in [Signers -> Sids \cup {0}]
  BY DEF TypeOK
<1>1. ASSUME NEW i \in Signers, NEW a \in NonceGenArgs,
             NonceGen(i, a.key, a.cache, a.msg)
      PROVE  [SN!AbsNext]_SN!abs_vars
  <2>. DEFINE c == nonce_gen_count[i]
              new_sid == c * N + (i - 1)
              ok == ~(a.cache /\ ~keyagg_cache.magic)
  <2>1. /\ c \in 0 .. MaxNonceGen - 1
        /\ nonce_gen_count' = [nonce_gen_count EXCEPT ![i] = c + 1]
        /\ UNCHANGED sign_log
    <3>1. c < MaxNonceGen /\ nonce_gen_count' = [nonce_gen_count EXCEPT ![i] = c + 1]
          /\ UNCHANGED sign_log
      BY <1>1 DEF NonceGen
    <3>. QED  BY <1>0, <3>1, ConstantsAssumption
  <2>2. new_sid \in Sids \ MappedIssued[i]
    BY <2>1, SidType, SidFresh DEF MappedIssued, IssuedSids
  <2>3. MappedIssued' = [MappedIssued EXCEPT ![i] = @ \cup {new_sid}]
    <3>1. IssuedSids(i)' = IssuedSids(i) \cup {new_sid}
      <4>1. nonce_gen_count'[i] = c + 1 /\ c \in Nat
        BY <1>0, <2>1
      <4>2. IssuedSids(i)' = {d * N + (i - 1) : d \in 0 .. (c + 1) - 1}
        BY <4>1 DEF IssuedSids
      <4>. QED  BY <4>1, <4>2, IssuedGrow DEF IssuedSids, new_sid
    <3>2. \A j \in Signers \ {i} : IssuedSids(j)' = IssuedSids(j)
      BY <1>0, <2>1 DEF IssuedSids
    <3>. QED  BY <3>1, <3>2 DEF MappedIssued
  <2>4. MappedHeld' = [MappedHeld EXCEPT ![i] = IF ok THEN new_sid ELSE NoArg]
    <3>1. CASE ok
      <4>1. /\ secnonce' = [secnonce EXCEPT ![i] = [magic |-> TRUE,
                    k |-> NonceFunction(new_sid,
                            IF a.key THEN keypair[i] ELSE NoArg,
                            IF a.cache THEN XOnly(keyagg_cache.pk) ELSE NoArg,
                            a.msg)]]
            /\ secnonce_sid' = [secnonce_sid EXCEPT ![i] = new_sid]
        BY <1>1, <3>1 DEF NonceGen
      <4>. QED  BY <1>0, <3>1, <4>1 DEF MappedHeld, HeldSid, TypeOK
    <3>2. CASE ~ok
      <4>1. /\ secnonce' = [secnonce EXCEPT ![i] = ZeroSecNonce]
            /\ UNCHANGED secnonce_sid
        BY <1>1, <3>2 DEF NonceGen
      <4>. QED  BY <3>2, <4>1 DEF MappedHeld, HeldSid, ZeroSecNonce, TypeOK
    <3>. QED  BY <3>1, <3>2
  <2>5. SN!AbsNonceGen(i, new_sid, ok)
    BY <2>1, <2>2, <2>3, <2>4 DEF SN!AbsNonceGen
  <2>. QED  BY <2>2, <2>5 DEF SN!AbsNext
<1>2. ASSUME NEW i \in Signers, PartialSign(i) PROVE [SN!AbsNext]_SN!abs_vars
  <2>1. /\ secnonce' = [secnonce EXCEPT ![i] = ZeroSecNonce]
        /\ UNCHANGED <<nonce_gen_count, secnonce_sid>>
    BY <1>2 DEF PartialSign, SignInputsLoad, ConsumedSecNonce
  <2>2. MappedHeld' = [MappedHeld EXCEPT ![i] = NoArg]
    BY <2>1 DEF MappedHeld, HeldSid, ZeroSecNonce, TypeOK
  <2>3. MappedIssued' = MappedIssued
    BY <2>1 DEF MappedIssued, IssuedSids
  <2>4. CASE secnonce[i].magic /\ keyagg_cache.magic /\ session.magic
    <3>1. sign_log' = Append(sign_log, [signer |-> i, sid |-> MappedHeld[i]])
      BY <1>2, <2>4 DEF PartialSign, SignInputsLoad, MappedHeld, HeldSid
    <3>2. MappedHeld[i] # NoArg
      BY <1>0, <2>4, ConstantsAssumption DEF MappedHeld, HeldSid, Sids
    <3>. QED  BY <2>2, <2>3, <3>1, <3>2 DEF SN!AbsNext, SN!AbsPartialSign
  <2>5. CASE ~(secnonce[i].magic /\ keyagg_cache.magic /\ session.magic)
    <3>1. UNCHANGED sign_log
      BY <1>2, <2>5 DEF PartialSign, SignInputsLoad
    <3>. QED  BY <2>2, <2>3, <3>1 DEF SN!AbsNext, SN!AbsAbandon
  <2>. QED  BY <2>4, <2>5
<1>3. ASSUME UNCHANGED <<secnonce, sign_log, nonce_gen_count, secnonce_sid>>
      PROVE  UNCHANGED SN!abs_vars
  BY <1>3 DEF SN!abs_vars, MappedHeld, HeldSid, MappedIssued, IssuedSids
<1>. QED
  BY <1>1, <1>2, <1>3
  DEF Next, KeyAggNext, PubkeyAgg, PubkeyTweakAdd, session_vars, NonceAgg,
      NonceProcess, PartialSigAgg, vars

(* The signing session implements the secret-nonce promise of              *)
(* secp256k1_musig.h, for every number of cosigners and of nonce_gen       *)
(* calls: every behaviour of the API calls is a behaviour of MuSigSecNonce *)
(* under the mapping above.                                                *)
THEOREM Refinement == Spec => SecNonceRefinement
BY TypeCorrect, RefinementInit, RefinementStep, PTL
DEF Spec, SecNonceRefinement, SN!AbsSpec

(* Nonce reuse again, now as a consequence of the abstract promise: the    *)
(* session's log of successful partial_sign calls never repeats an entry   *)
(* because the abstract life cycle it implements never does.               *)
THEOREM NonceReuseSafeByRefinement == Spec => []NonceUsedOnce
<1>1. SN!AbsSpec => []SN!SignedOnce
  BY SN!AbsSignedOnce
<1>2. SN!SignedOnce <=> NonceUsedOnce
  BY DEF SN!SignedOnce, NonceUsedOnce
<1>. QED  BY Refinement, <1>1, <1>2, PTL DEF SecNonceRefinement

=============================================================================
