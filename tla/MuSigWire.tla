------------------------------ MODULE MuSigWire ------------------------------
(***************************************************************************)
(* The wire formats of session_impl.h (pubnonce, aggnonce and partial      *)
(* signature serialize/parse), composed with the signing session: each     *)
(* cosigner serializes its public nonce and its partial signature, the     *)
(* coordinator parses them into objects of its own and verifies the parsed *)
(* partial signatures with partial_sig_verify; a cosigner parses the       *)
(* serialized aggregate nonce into the aggnonce it processes.              *)
(*                                                                         *)
(* Bytes.  A 33-byte compressed point is a pair <<prefix, x>>.  As in      *)
(* MuSigGroup an x-coordinate is represented by the even-y point with that *)
(* x, so x is on the curve exactly when it is a finite point outside OddY; *)
(* any other value (an odd-y point, 0, or Q and above) stands for an x     *)
(* that is not on the curve or not below the field size.  A 32-byte        *)
(* scalar string is the integer it encodes big-endian; Q and above         *)
(* overflow.  secp256k1 has cofactor 1, so the subgroup check of parse     *)
(* accepts every point that parses.                                        *)
(*                                                                         *)
(* Besides the bytes a cosigner sent, the receiving side may be handed any *)
(* string of WireNonceBytes or WireSigBytes: corrupted, foreign or replayed *)
(* messages (transport is out of the code's hands).                        *)
(***************************************************************************)
EXTENDS MuSigSession

CONSTANTS
    WireNonceBytes,     \* 66-byte strings a receiver may be handed
    WireSigBytes        \* 32-byte strings a receiver may be handed

\* The byte strings of the model.
Bytes33 == {2, 3, 0} \X (0 .. Q)
Bytes66 == Bytes33 \X Bytes33
SigBytes == 0 .. Q

ASSUME WireAssumption ==
    /\ WireNonceBytes \subseteq Bytes66
    /\ WireSigBytes \subseteq SigBytes
    /\ NoArg \notin Bytes66

VARIABLES
    wire_pubnonce,      \* cosigner -> the 66 bytes it last serialized, or NoArg
    wire_sig,           \* cosigner -> the 32 bytes it last serialized, or NoArg
    recv_pubnonce,      \* cosigner -> the coordinator's parsed copy
    recv_sig,           \* cosigner -> the coordinator's parsed copy
    \* history, read only by the properties:
    wire_pubnonce_src,  \* cosigner -> the pubnonce object it serialized
    wire_sig_src,       \* cosigner -> the partial_sig object it serialized
    recv_pubnonce_src,  \* cosigner -> object behind the last parsed bytes, or NoArg
    recv_sig_src,       \* cosigner -> object behind the last parsed bytes, or NoArg
    sig_parse_failed    \* cosigner -> whether the last partial_sig_parse returned 0

wire_vars == <<wire_pubnonce, wire_sig, recv_pubnonce, recv_sig,
               wire_pubnonce_src, wire_sig_src, recv_pubnonce_src,
               recv_sig_src, sig_parse_failed>>
all_vars == <<vars, wire_vars>>

-----------------------------------------------------------------------------
(* Points.                                                                 *)

\* Mutant: the prefix byte is taken from the wrong parity.
Ser33ParitySwapped(p) == <<IF p \in OddY THEN 2 ELSE 3, XOnly(p)>>

\* eckey_pubkey_serialize, compressed: 0x02 or 0x03 by the parity of y, then x.
Ser33(p) == <<IF p \in OddY THEN 3 ELSE 2, XOnly(p)>>

\* Mutant: x is not checked to be below the field size.
Parses33Unbounded(b) == b[1] \in {2, 3} /\ b[2] # 0 /\ b[2] \notin OddY

\* eckey_pubkey_parse of 33 bytes: a prefix of 2 or 3 and an x on the curve.
Parses33(b) == b[1] \in {2, 3} /\ b[2] \in FinitePoint \ OddY

\* The point those bytes encode: the even-y point, negated for prefix 3.
Point33(b) == IF b[1] = 3 THEN Neg(b[2]) ELSE b[2]

(* pubnonce_serialize (and aggnonce_serialize): out66 is zeroed first and  *)
(* left zeroed when the object does not load.                              *)
Ser66(nonce) ==
    IF nonce.magic THEN <<Ser33(nonce.r[1]), Ser33(nonce.r[2])>>
    ELSE <<<<0, 0>>, <<0, 0>>>>

(* pubnonce_parse (and aggnonce_parse): both halves must parse, or it      *)
(* returns 0 before writing the nonce.                                     *)
Parses66(b) == Parses33(b[1]) /\ Parses33(b[2])
Parse66(b) == [magic |-> TRUE, r |-> <<Point33(b[1]), Point33(b[2])>>]

-----------------------------------------------------------------------------
(* Scalars.                                                                *)

\* Mutant: the overflow check lets n itself through.
SigOverflowsOffByOne(b) == b > Q

\* scalar_set_b32 overflows on a value of n or more.
SigOverflows(b) == b >= Q

-----------------------------------------------------------------------------
(* Cosigner i serializes its public nonce; the bytes are sent whatever the *)
(* return value.                                                           *)
PubnonceSerialize(i) ==
    /\ wire_pubnonce' = [wire_pubnonce EXCEPT ![i] = Ser66(pubnonce[i])]
    /\ wire_pubnonce_src' = [wire_pubnonce_src EXCEPT ![i] = pubnonce[i]]
    /\ UNCHANGED <<vars, wire_sig, recv_pubnonce, recv_sig, wire_sig_src,
                   recv_pubnonce_src, recv_sig_src, sig_parse_failed>>

(* The coordinator parses cosigner i's public nonce from bytes b: what i   *)
(* sent, or a string of WireNonceBytes.  A failed parse writes nothing.    *)
PubnonceParse(i, b, sent) ==
    /\ Parses66(b)
    /\ recv_pubnonce' = [recv_pubnonce EXCEPT ![i] = Parse66(b)]
    /\ recv_pubnonce_src' = [recv_pubnonce_src EXCEPT ![i] =
                               IF sent THEN wire_pubnonce_src[i] ELSE NoArg]
    /\ UNCHANGED <<vars, wire_pubnonce, wire_sig, recv_sig, wire_pubnonce_src,
                   wire_sig_src, recv_sig_src, sig_parse_failed>>

(* A cosigner parses the aggregate nonce the coordinator serialized (or a  *)
(* string of WireNonceBytes) into the aggnonce it will process.            *)
AggnonceParse(b) ==
    /\ Parses66(b)
    /\ aggnonce' = Parse66(b)
    /\ UNCHANGED <<keypair, keyagg_cache, secnonce, pubnonce, session,
                   partial_sig, sig64, nonce_gen_count, secnonce_sid,
                   sign_log, call_log, sign_src, session_src, sig64_src, wire_vars>>

(* partial_sig_serialize copies the 32 bytes after the magic without       *)
(* loading the object: a partial_sig that was never written holds          *)
(* uninitialized bytes, any string at all.                                 *)
PartialSigSerialize(i) ==
    /\ \/ /\ partial_sig[i].magic
          /\ wire_sig' = [wire_sig EXCEPT ![i] = partial_sig[i].s]
       \/ /\ ~partial_sig[i].magic
          /\ \E b \in WireSigBytes : wire_sig' = [wire_sig EXCEPT ![i] = b]
    /\ wire_sig_src' = [wire_sig_src EXCEPT ![i] = partial_sig[i]]
    /\ UNCHANGED <<vars, wire_pubnonce, recv_pubnonce, recv_sig,
                   wire_pubnonce_src, recv_pubnonce_src, recv_sig_src,
                   sig_parse_failed>>

(* The coordinator parses cosigner i's partial signature from bytes b.     *)
(* On overflow partial_sig_parse returns 0 without writing the object.     *)
PartialSigParse(i, b, sent) ==
    /\ \/ /\ SigOverflows(b)
          /\ sig_parse_failed' = [sig_parse_failed EXCEPT ![i] = TRUE]
          /\ UNCHANGED <<recv_sig, recv_sig_src>>
       \/ /\ ~SigOverflows(b)
          /\ recv_sig' = [recv_sig EXCEPT ![i] = [magic |-> TRUE, s |-> b]]
          /\ recv_sig_src' = [recv_sig_src EXCEPT ![i] =
                                IF sent THEN wire_sig_src[i] ELSE NoArg]
          /\ sig_parse_failed' = [sig_parse_failed EXCEPT ![i] = FALSE]
    /\ UNCHANGED <<vars, wire_pubnonce, wire_sig, recv_pubnonce,
                   wire_pubnonce_src, wire_sig_src, recv_pubnonce_src>>

-----------------------------------------------------------------------------
WireInit ==
    /\ Init
    /\ wire_pubnonce = [i \in Signers |-> NoArg]
    /\ wire_sig = [i \in Signers |-> NoArg]
    /\ recv_pubnonce = [i \in Signers |-> ZeroPubNonce]
    /\ recv_sig = [i \in Signers |-> ZeroPartialSig]
    /\ wire_pubnonce_src = [i \in Signers |-> ZeroPubNonce]
    /\ wire_sig_src = [i \in Signers |-> ZeroPartialSig]
    /\ recv_pubnonce_src = [i \in Signers |-> NoArg]
    /\ recv_sig_src = [i \in Signers |-> NoArg]
    /\ sig_parse_failed = [i \in Signers |-> FALSE]

\* What the receiver of cosigner i's messages may be handed.
NonceInputs(i) == {<<b, TRUE>> : b \in {wire_pubnonce[i]} \ {NoArg}}
                    \cup (WireNonceBytes \X {FALSE})
SigInputs(i) == {<<b, TRUE>> : b \in {wire_sig[i]} \ {NoArg}}
                    \cup (WireSigBytes \X {FALSE})

WireNext ==
    \/ Next /\ UNCHANGED wire_vars
    \/ \E i \in Signers : PubnonceSerialize(i)
    \/ \E i \in Signers : \E in \in NonceInputs(i) : PubnonceParse(i, in[1], in[2])
    \/ \E b \in {Ser66(aggnonce)} \cup WireNonceBytes : AggnonceParse(b)
    \/ \E i \in Signers : PartialSigSerialize(i)
    \/ \E i \in Signers : \E in \in SigInputs(i) : PartialSigParse(i, in[1], in[2])

WireSpec == WireInit /\ [][WireNext]_all_vars

-----------------------------------------------------------------------------
(* Properties.                                                             *)

WireTypeOK ==
    /\ TypeOK
    /\ wire_pubnonce \in [Signers -> Bytes66 \cup {NoArg}]
    /\ wire_sig \in [Signers -> SigBytes \cup {NoArg}]
    /\ recv_pubnonce \in [Signers -> PubNonceRec]
    /\ recv_sig \in [Signers -> [magic : BOOLEAN, s : SigBytes]]
    /\ wire_pubnonce_src \in [Signers -> PubNonceRec]
    /\ wire_sig_src \in [Signers -> PartialSigRec]
    /\ recv_pubnonce_src \in [Signers -> PubNonceRec \cup {NoArg}]
    /\ recv_sig_src \in [Signers -> PartialSigRec \cup {NoArg}]
    /\ sig_parse_failed \in [Signers -> BOOLEAN]

(* Round trip (spec 8.8): a pubnonce or partial signature the coordinator  *)
(* parsed from the bytes a cosigner serialized from a loaded object equals *)
(* that object, even when the cosigner has regenerated or re-signed since, *)
(* and the y-parity of each nonce point survives the compressed encoding.  *)
WireRoundTrip ==
    \A i \in Signers :
        /\ recv_pubnonce_src[i] # NoArg /\ recv_pubnonce_src[i].magic
               => recv_pubnonce[i] = recv_pubnonce_src[i]
        /\ recv_sig_src[i] # NoArg /\ recv_sig_src[i].magic
               => recv_sig[i] = recv_sig_src[i]

(* What the load functions assume of a parsed object, whatever bytes the   *)
(* receiver was handed: a partial signature holds a scalar below n         *)
(* (partial_sig_load VERIFY_CHECKs it) and a nonce holds no point at       *)
(* infinity (pubnonce_save requires it, nonce_agg and nonce_process add    *)
(* the points).                                                            *)
ParsedObjectsLoad ==
    \A i \in Signers :
        /\ recv_sig[i].magic => recv_sig[i].s \in Scalar
        /\ recv_pubnonce[i].magic => recv_pubnonce[i].r \in FinitePoint \X FinitePoint
        /\ aggnonce.magic => aggnonce.r \in FinitePoint \X FinitePoint

(* The header of partial_sig_parse (secp256k1_musig.h:170): after the call *)
(* the signature is always initialized, and when parsing failed,           *)
(* verification with it fails for every message and public key.            *)
FailedParseNeverVerifies ==
    \A i \in Signers :
        sig_parse_failed[i] => ~PartialSigVerifyWith(recv_sig[i], recv_pubnonce[i], i)

=============================================================================
