------------------------- MODULE MC_SecNonceRefinement -------------------------
(***************************************************************************)
(* The refinement of MuSigSecNonce by the signing session, on the instance *)
(* of MC_NonceReuse: two nonce_gen calls per cosigner, one of them able to *)
(* fail on a cache that was never written.                                 *)
(***************************************************************************)
EXTENDS MuSigSecNonceRefinement, MC_NonceReuse
=============================================================================
