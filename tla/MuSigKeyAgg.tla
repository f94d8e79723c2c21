----------------------------- MODULE MuSigKeyAgg -----------------------------
(***************************************************************************)
(* Key aggregation and x-only tweaking: the KeyAggCache.                   *)
(*                                                                         *)
(* keyagg_impl.h is not part of this repository; the operations are        *)
(* modelled from the spec (sections 3, 4.1 and 4.2).  The coefficient      *)
(* function KeyAggCoef is what session_impl.h calls as                     *)
(* secp256k1_musig_keyaggcoef(&mu, &cache_i, &pk.x): a function of the     *)
(* cache and of an x-coordinate only.                                      *)
(*                                                                         *)
(* The N cosigners are 1..N; keypair[i] is the secret key of cosigner i    *)
(* (so its public point is keypair[i]*G, of either y-parity), chosen once  *)
(* among the KeyPairs the instance considers.                              *)
(***************************************************************************)
EXTENDS MuSigGroup

CONSTANTS
    N,                  \* number of cosigners
    KeyPairs,           \* the secret-key assignments an instance considers
    TweakInputs,        \* 32-byte tweaks a caller may pass, as integers
    KeyAggListHash(_),  \* H("KeyAgg list", ser(P_1) || ... || ser(P_N))
    KeyAggCoefHash(_, _) \* H("KeyAgg coefficient", pk_hash || ser(P_i))

ASSUME NAssumption == N \in Nat \ {0}

Signers == 1 .. N

ASSUME KeyPairsAssumption == KeyPairs \subseteq [Signers -> FinitePoint]

\* A tweak above n - 1 is a 32-byte value that overflows the scalar.
ASSUME TweakInputsAssumption == TweakInputs \subseteq 0 .. Q

ASSUME KeyAggHashAssumption ==
    /\ \A keys \in [Signers -> Point] : KeyAggListHash(keys) \in Scalar
    /\ \A h \in Scalar, x \in Point : KeyAggCoefHash(h, x) \in Scalar

\* The fold of the community module Functions sums a family of naturals
\* indexed by the cosigners to a natural.
ASSUME SumFunctionAssumption ==
    \A f \in [Signers -> Scalar] : SumFunction(f) \in Nat

\* Every non-empty set of cosigners has a first one (used by SecondPkX).
ASSUME FirstSignerAssumption ==
    \A S \in SUBSET Signers : S # {} => \E j \in S : \A l \in S : j <= l

VARIABLES
    keypair,        \* the cosigners' secret keys
    keyagg_cache    \* the KeyAggCache object the caller holds

(* The internal KeyAggCache.  magic is FALSE for an object that was never  *)
(* written by pubkey_agg (keyagg_cache_load then fails).                   *)
CacheRec == [magic : BOOLEAN, pk : Point, pk_hash : Scalar,
              second_pk_x : Point, is_tweaked : BOOLEAN, tweak : Scalar,
              internal_key_parity : BOOLEAN]

ZeroCache == [magic |-> FALSE, pk |-> 0, pk_hash |-> 0, second_pk_x |-> 0,
              is_tweaked |-> FALSE, tweak |-> 0, internal_key_parity |-> FALSE]

\* The ordered list of x-only public keys passed to pubkey_agg.
Keys == [j \in Signers |-> XOnly(keypair[j])]

\* The first key after the first that differs from it, or the zero sentinel.
SecondPkX(keys) ==
    LET differ == {j \in Signers : keys[j] # keys[1]}
    IN  IF differ = {} THEN 0
        ELSE keys[CHOOSE j \in differ : \A l \in differ : j <= l]

\* Spec 4.1 step 4: the coefficient of the i-th key of the list.
KeyAggCoefIndexed(pk_hash, second, keys, i) ==
    IF keys[i] = second \/ (second = 0 /\ i = 2)
    THEN 1
    ELSE KeyAggCoefHash(pk_hash, keys[i])

\* The coefficient of the key with x-coordinate x, as signing and partial
\* verification recompute it from the cache.
KeyAggCoef(cache, x) ==
    IF x = cache.second_pk_x THEN 1 ELSE KeyAggCoefHash(cache.pk_hash, x)

\* P' = sum of mu_i * P_i (spec 4.1 step 5).
AggregatePoint(keys) ==
    LET h == KeyAggListHash(keys)
        second == SecondPkX(keys)
    IN  PointSum([i \in Signers |->
                    Mul(KeyAggCoefIndexed(h, second, keys, i), keys[i])])

-----------------------------------------------------------------------------
(* pubkey_agg on the cosigners' keys in the order 1..N.  It fails, leaving *)
(* the caller's cache as it was, when P' is infinity.                      *)
PubkeyAgg ==
    LET keys == Keys
        agg == AggregatePoint(keys)
    IN  /\ agg # 0
        /\ keyagg_cache' = [magic |-> TRUE, pk |-> agg,
                            pk_hash |-> KeyAggListHash(keys),
                            second_pk_x |-> SecondPkX(keys),
                            is_tweaked |-> FALSE, tweak |-> 0,
                            internal_key_parity |-> agg \in OddY]
        /\ UNCHANGED keypair

(* pubkey_tweak_add(cache, t): at most one tweak, t a non-zero scalar,     *)
(* pk := |pk| + t*G, failing when that is infinity.                        *)
PubkeyTweakAdd(t) ==
    LET tweaked == Add(XOnly(keyagg_cache.pk), t)
    IN  /\ keyagg_cache.magic
        /\ ~keyagg_cache.is_tweaked
        /\ t \in FinitePoint
        /\ tweaked # 0
        /\ keyagg_cache' = [keyagg_cache EXCEPT !.pk = tweaked,
                                                !.is_tweaked = TRUE,
                                                !.tweak = t]
        /\ UNCHANGED keypair

KeyAggInit ==
    /\ keypair \in KeyPairs
    /\ keyagg_cache = ZeroCache

KeyAggNext ==
    \/ PubkeyAgg
    \/ \E t \in TweakInputs : PubkeyTweakAdd(t)

=============================================================================
