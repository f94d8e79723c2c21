---------------------------- MODULE MuSigChannel ----------------------------
(***************************************************************************)
(* What secp256k1_musig.h promises of the serialize and parse functions of *)
(* pubnonces, aggregate nonces and partial signatures, at the level of the *)
(* objects, with the bytes abstracted away.  A cosigner puts the object it *)
(* holds on the wire; the coordinator (or, for the aggregate nonce, a      *)
(* cosigner) ends up with the very object that was sent when that object   *)
(* loaded, or with a foreign object that loads when it was handed other    *)
(* bytes.  A partial signature that does not parse is marked failed, and   *)
(* the header promises nothing of the object's content but that it will   *)
(* not verify (see FailedParseNeverVerifies in MuSigWire).                 *)
(*                                                                         *)
(* The history variables nonce_from and sig_from name the sent object a   *)
(* received one came from, or NoArg for foreign bytes.                    *)
(***************************************************************************)
EXTENDS MuSigSession

VARIABLES
    sent_nonce,     \* cosigner -> the pubnonce object on the wire, or NoArg
    sent_sig,       \* cosigner -> the partial_sig object on the wire, or NoArg
    recv_pubnonce,  \* cosigner -> the coordinator's pubnonce object
    recv_sig,       \* cosigner -> the coordinator's partial_sig object
    nonce_from,     \* cosigner -> the sent object recv_pubnonce came from, or NoArg
    sig_from,       \* cosigner -> the sent object recv_sig came from, or NoArg
    sig_parse_failed

chan_vars == <<sent_nonce, sent_sig, recv_pubnonce, recv_sig, nonce_from,
               sig_from, sig_parse_failed>>

\* The pubnonce objects that load: both points finite.
LoadedNonces == {n \in PubNonceRec : n.magic /\ n.r \in FinitePoint \X FinitePoint}

\* The partial_sig objects that load: a scalar below n.
LoadedSigs == {s \in PartialSigRec : s.magic}

\* What a partial_sig object may hold after any parse.
SigObjects == [magic : BOOLEAN, s : 0 .. Q]

ChanInit ==
    /\ Init
    /\ sent_nonce = [i \in Signers |-> NoArg]
    /\ sent_sig = [i \in Signers |-> NoArg]
    /\ recv_pubnonce = [i \in Signers |-> ZeroPubNonce]
    /\ recv_sig = [i \in Signers |-> ZeroPartialSig]
    /\ nonce_from = [i \in Signers |-> NoArg]
    /\ sig_from = [i \in Signers |-> NoArg]
    /\ sig_parse_failed = [i \in Signers |-> FALSE]

\* pubnonce_serialize: cosigner i's pubnonce object goes on the wire.
SendNonce(i) ==
    /\ sent_nonce' = [sent_nonce EXCEPT ![i] = pubnonce[i]]
    /\ UNCHANGED <<vars, sent_sig, recv_pubnonce, recv_sig, nonce_from, sig_from,
                   sig_parse_failed>>

\* pubnonce_parse of what i sent: the coordinator gets the object, if it loaded.
DeliverNonce(i) ==
    /\ sent_nonce[i] \in LoadedNonces
    /\ recv_pubnonce' = [recv_pubnonce EXCEPT ![i] = sent_nonce[i]]
    /\ nonce_from' = [nonce_from EXCEPT ![i] = sent_nonce[i]]
    /\ UNCHANGED <<vars, sent_nonce, sent_sig, recv_sig, sig_from, sig_parse_failed>>

\* pubnonce_parse of other bytes that parse: some object that loads.
ForeignNonce(i) ==
    /\ \E n \in LoadedNonces : recv_pubnonce' = [recv_pubnonce EXCEPT ![i] = n]
    /\ nonce_from' = [nonce_from EXCEPT ![i] = NoArg]
    /\ UNCHANGED <<vars, sent_nonce, sent_sig, recv_sig, sig_from, sig_parse_failed>>

\* aggnonce_parse: the aggregate nonce a cosigner processes is one that loads.
ReceiveAggnonce ==
    /\ \E n \in LoadedNonces : aggnonce' = n
    /\ UNCHANGED <<keypair, keyagg_cache, secnonce, pubnonce, session,
                   partial_sig, sig64, nonce_gen_count, secnonce_sid,
                   sign_log, call_log, sign_src, session_src, sig64_src, chan_vars>>

\* partial_sig_serialize: cosigner i's partial_sig object goes on the wire.
SendSig(i) ==
    /\ sent_sig' = [sent_sig EXCEPT ![i] = partial_sig[i]]
    /\ UNCHANGED <<vars, sent_nonce, recv_pubnonce, recv_sig, nonce_from, sig_from,
                   sig_parse_failed>>

\* partial_sig_parse of what i sent, from an object that loaded: that object.
DeliverSig(i) ==
    /\ sent_sig[i] \in LoadedSigs
    /\ recv_sig' = [recv_sig EXCEPT ![i] = sent_sig[i]]
    /\ sig_from' = [sig_from EXCEPT ![i] = sent_sig[i]]
    /\ sig_parse_failed' = [sig_parse_failed EXCEPT ![i] = FALSE]
    /\ UNCHANGED <<vars, sent_nonce, sent_sig, recv_pubnonce, nonce_from>>

(* partial_sig_parse of what i sent from an object that did not load       *)
(* (serialize copies its bytes unchecked): some signature that loads.      *)
GarbageSig(i) ==
    /\ sent_sig[i] \in PartialSigRec \ LoadedSigs
    /\ \E s \in LoadedSigs : recv_sig' = [recv_sig EXCEPT ![i] = s]
    /\ sig_from' = [sig_from EXCEPT ![i] = sent_sig[i]]
    /\ sig_parse_failed' = [sig_parse_failed EXCEPT ![i] = FALSE]
    /\ UNCHANGED <<vars, sent_nonce, sent_sig, recv_pubnonce, nonce_from>>

\* partial_sig_parse of other bytes that parse: some signature that loads.
ForeignSig(i) ==
    /\ \E s \in LoadedSigs : recv_sig' = [recv_sig EXCEPT ![i] = s]
    /\ sig_from' = [sig_from EXCEPT ![i] = NoArg]
    /\ sig_parse_failed' = [sig_parse_failed EXCEPT ![i] = FALSE]
    /\ UNCHANGED <<vars, sent_nonce, sent_sig, recv_pubnonce, nonce_from>>

\* partial_sig_parse fails: the object is marked failed, its content unspecified.
RejectSig(i) ==
    /\ \E s \in SigObjects : recv_sig' = [recv_sig EXCEPT ![i] = s]
    /\ sig_from' = [sig_from EXCEPT ![i] = NoArg]
    /\ sig_parse_failed' = [sig_parse_failed EXCEPT ![i] = TRUE]
    /\ UNCHANGED <<vars, sent_nonce, sent_sig, recv_pubnonce, nonce_from>>

ChanNext ==
    \/ \E i \in Signers :
          \/ SendNonce(i) \/ DeliverNonce(i) \/ ForeignNonce(i)
          \/ SendSig(i) \/ DeliverSig(i) \/ GarbageSig(i) \/ ForeignSig(i)
          \/ RejectSig(i)
    \/ ReceiveAggnonce
    \/ Next /\ UNCHANGED chan_vars

ChanSpec == ChanInit /\ [][ChanNext]_<<vars, chan_vars>>

=============================================================================
