---------------------------- MODULE MC_MuSigWire ----------------------------
(***************************************************************************)
(* The wire formats composed with the signing session of MC_MuSigSession:  *)
(* one key assignment, no tweak and no adaptor (neither touches the wire), *)
(* and for the receivers a foreign but valid nonce, nonces with an x that  *)
(* is off the curve or not below the field size, a foreign valid partial   *)
(* signature and one that is exactly n.                                    *)
(***************************************************************************)
EXTENDS MuSigWire, MC_MuSigSession

MCWireKeyPairs == {<<1, 3>>}
MCWireTweakInputs == {0}
MCWireAdaptorSecrets == {}
MCWireNonceGenArgs == {[key |-> TRUE, cache |-> FALSE, msg |-> NoArg]}

\* R1 = 1 (odd y), R2 = 3; x = 1 has no point; x = 5 is not below the field size.
MCWireNonceBytes == {<<<<3, 4>>, <<2, 3>>>>, <<<<2, 1>>, <<2, 3>>>>,
                     <<<<2, 5>>, <<3, 3>>>>}
MCWireSigBytes == {1, 5}
\* Only the overflowing string n: a failed parse after an honest one.
MCWireOverflowOnly == {5}
=============================================================================
