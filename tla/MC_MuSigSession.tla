--------------------------- MODULE MC_MuSigSession ---------------------------
(***************************************************************************)
(* A small instance of MuSigSession for TLC: a group of order 5, two       *)
(* cosigners, one nonce_gen call each, one message, and hash functions    *)
(* given by mixing polynomials modulo the group order.                     *)
(***************************************************************************)
EXTENDS MuSigSession, TLC

MCQ == 5
\* P = 1 and P = 2 have odd y, their negations 4 and 3 even y.
MCOddY == {1, 2}
MCN == 2
MCMsgs == {1}
MCAdaptorSecrets == {2}
MCMaxNonceGen == 1
\* A cosigner passes its secret key; the cache and message are optional.
MCNonceGenArgs == {[key |-> TRUE, cache |-> FALSE, msg |-> NoArg],
                   [key |-> TRUE, cache |-> TRUE, msg |-> 1]}
\* Every tweak, including zero and an overflowing one.
MCTweakInputs == 0 .. MCQ

\* Keys whose x-only forms are not all equal, and keys that are all equal.
MCKeyPairs == {kp \in [1 .. MCN -> 1 .. MCQ - 1] :
                  \E j \in 1 .. MCN : XOnly(kp[j]) # XOnly(kp[1])}
MCEqualKeyPairs == {kp \in [1 .. MCN -> 1 .. MCQ - 1] :
                       \A j \in 1 .. MCN : XOnly(kp[j]) = XOnly(kp[1])}

\* An absent optional input enters the hash as a value of its own.
Enc(x) == IF x = NoArg THEN MCQ + 2 ELSE x

MCKeyAggListHash(keys) == (3 * keys[1] + 7 * keys[MCN] + 1) % MCQ
MCKeyAggCoefHash(h, x) == 1 + ((h + 3 * x + x * x) % (MCQ - 1))
MCNonceHash(sid, key, pk, m, extra, j) ==
    1 + ((5 * sid + 3 * Enc(key) + 7 * Enc(pk) + 11 * Enc(m) + Enc(extra)
         + 2 * j + sid * j) % (MCQ - 1))
MCNonceCoefHash(r1, r2, pk, m) == (3 * r1 + r2 * r2 + 2 * pk + m + 1) % MCQ
MCChallengeHash(r, pk, m) == (2 * r + 3 * pk * pk + m + 4) % MCQ

\* The caller does not re-aggregate the keys once it has tweaked the cache.
NoReaggregationAfterTweak ==
    keyagg_cache.is_tweaked => keyagg_cache'.is_tweaked
=============================================================================
