---------------------------- MODULE MC_NonceReuse ----------------------------
(***************************************************************************)
(* The signing session with two nonce_gen calls per cosigner, for the    *)
(* inductive invariant NonceInv of MuSigSessionProofs: session ids of      *)
(* several generations, secnonces regenerated before and after signing.    *)
(* One key assignment, no tweak and no adaptor keep the state space small; neither     *)
(* bears on nonce handling.                                                 *)
(***************************************************************************)
EXTENDS MuSigSessionProofs, MC_MuSigSession

MCNonceMaxNonceGen == 2

\* nonce_gen with the secret key only, and with the cache and a message.
MCNonceGenArgsReuse == {[key |-> TRUE, cache |-> FALSE, msg |-> NoArg],
                        [key |-> FALSE, cache |-> TRUE, msg |-> 1]}

MCOneKeyPair == {[i \in 1 .. MCN |-> i]}

MCNoTweak == {0}

MCNoAdaptor == {}

=============================================================================
