--------------------------- MODULE MC_MuSigAdaptor ---------------------------
(***************************************************************************)
(* The instance of MC_MuSigSession with adapt and extract_adaptor: the     *)
(* caller passes the session's adaptor secret, zero or an overflowing one. *)
(***************************************************************************)
EXTENDS MuSigAdaptor, MC_MuSigSession

MCAdaptInputs == {0, 2, MCQ}
=============================================================================
