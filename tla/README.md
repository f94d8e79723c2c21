# TLA+ verification of the MuSig2 module (`src/libwallet/musig`)

This directory holds TLA+ models of the MuSig2 multi-signature module in
`src/libwallet/musig`. It has:

- TLC configurations that model-check the models on small instances;
- an abstract specification of the secret-nonce life cycle the API promises,
  and a refinement mapping from the detailed session;
- TLAPS proofs, for every instance, of type correctness, nonce-reuse
  safety and the refinement.

## 1. The system

The module is a synchronous, single-threaded C library. It has no threads,
callbacks or I/O. Its hard behaviour comes from two sources:

- the caller may call the API functions in any order, on any objects;
- the results depend on the signs (y-parities) of points, tracked separately
  in several functions.

| Part | Source | State it changes |
|---|---|---|
| Key aggregation, tweak | `keyagg_impl.h` (**not in the repository**); called from `session_impl.h:268-277, 396-399, 487, 501, 561-567` | `secp256k1_musig_keyagg_cache`: aggregate point `pk`, `pk_hash`, `second_pk_x`, `is_tweaked`, `tweak`, `internal_key_parity` |
| Nonce generation | `session_impl.h:200-293` | caller's `secnonce` (k1, k2) and `pubnonce` (k1·G, k2·G) |
| Nonce aggregation | `session_impl.h:295-334` | `aggnonce` = coordinate-wise sum of the pubnonces |
| Session processing | `session_impl.h:337-438` | `session`: final-nonce parity and x, binding coefficient b, challenge e, tweak part s_part |
| Partial signing | `session_impl.h:440-522` | consumes (zeroes) `secnonce`, writes `partial_sig` |
| Partial verification | `session_impl.h:524-594` | none (a predicate) |
| Partial-signature aggregation | `session_impl.h:596-618` | the 64-byte signature |
| Adaptor: nonce_parity, adapt, extract | `adaptor_impl.h` | the 64-byte signature, the 32-byte adaptor secret |
| Serialization | `session_impl.h:112-188` | the output bytes; parse writes the receiver's object |
| Object load/save | `session_impl.h:13-110` | the magic tag of each opaque object |

Interactions:

- Every API function saves into opaque objects and loads from them.
- `*_load` fails (ARG_CHECK) when the object's 4-byte magic is wrong, i.e. when
  the object was zeroed or never written.
- A failing call returns 0. It leaves its outputs as they were, except for the
  objects the code zeroes first: `nonce_gen` zeroes both outputs at lines
  248 and 250, and `partial_sign` zeroes the secnonce at line 460.
- The signing protocol of spec 4.8 is:
  keyagg → [tweak] → nonce_gen → nonce_agg → nonce_process → partial_sign →
  partial_sig_verify → partial_sig_agg → [adapt / extract].
- The code does not enforce this order. The model lets the caller make any
  call at any time.

### Hazards the model aims at (details in `PROJECT.json`)

- **Nonce reuse.** Two partial signatures from one secnonce reveal the secret
  key.
  - Only one thing prevents it: the memset at `session_impl.h:460`, placed
    before any check can return.
  - A failed `partial_sign` still burns the nonce.
  - A regenerated secnonce must not repeat an id that has already been signed
    with.
- **Parity agreement.** Three functions negate values according to
  y-parities, and the signature is valid only if they agree:
  - partial_sign negates the secret key by a three-term parity sum (`:491`)
    and negates the nonces by the final-nonce parity (`:507`);
  - partial_sig_verify negates e (`:575`) and R_i (`:588`);
  - nonce_process negates the tweak term (`:430`).
  - adapt and extract negate by the caller's parity (`adaptor_impl.h:44, 76`).
- **Stale state.** Nothing binds a session to the cache or aggnonce it was
  processed from:
  - the cache may be tweaked after `nonce_process`;
  - a failing `nonce_agg` leaves an older aggnonce in place.
- **Boundaries.**
  - Adding the adaptor can make R1 infinity.
  - A tweak of zero is rejected at `nonce_process:425`.
  - An overflowing adaptor secret is rejected.
  - Sums are reduced modulo n.

## 2. Abstractions

**Group** (`MuSigGroup`)
- A point is represented by its discrete log modulo `Q`, the stand-in for the
  group order n; 0 is the point at infinity. Points and scalars are both
  integers mod Q.
- `OddY` is the set of points with odd y. It is constrained only by "exactly
  one of P, −P is odd" (`OddYAssumption`).
- `XOnly(P)` is the even-y point with P's x-coordinate. It stands for the
  32-byte x-only serialization: two points have equal x-coordinates iff they
  are equal or opposite.
- This abstraction keeps everything the code relies on: linearity of k·G, the
  sums, and negation for parity. It drops what no property here tells apart:
  coordinates and bytes.

**Hashes** (`KeyAggListHash`, `KeyAggCoefHash`, `NonceHash`, `NonceCoefHash`,
`ChallengeHash`)
- They are CONSTANT operators, constrained only by their ranges. Every
  property is therefore stated, and every theorem proved, for all hash
  functions.
- The MC modules fix concrete mixing polynomials so that TLC reaches the
  interesting parity combinations.

**Objects**
- Each opaque object is a record with a `magic` flag.
- `*_load` is the guard `x.magic`; the memset is the zero record.
- In `MuSigSession` the coordinator's copies of cosigners' pubnonces and
  partial signatures are the cosigners' own. `MuSigWire` adds the
  coordinator's own parsed copies (see below).

**Bytes** (`MuSigWire`)
- A 33-byte compressed point is a pair `<<prefix, x>>`. The x-coordinate is
  represented, as in `XOnly`, by the even-y point with that x. An x is on the
  curve exactly when it is a finite point outside `OddY`. Any other value
  stands for an x that is off the curve or not below the field size.
- Serialization writes the prefix from the parity (`Ser33`). Parse
  negates for prefix 3 (`Point33`). The encoding is therefore not the
  identity: a swapped prefix byte shows up as a negated point.
- A 32-byte scalar is the integer it encodes; n and above overflow.
- secp256k1 has cofactor 1, so the subgroup check in parse always succeeds.

**Session ids**
- The contract that a session id never repeats is the caller's (spec 4.3).
- It is modelled by drawing the id of cosigner i's c-th call as `c*N + (i-1)`,
  with `nonce_gen_count` as the counter.

**History variables**
- `sign_log`, `sign_src`, `session_src`, `sig64_src`, `adapt_src` and
  `extract_src` record what the properties relate.
- No action reads them.

## 3. Modules

| Module | Models | Variables ↔ code | Actions ↔ code |
|---|---|---|---|
| `MuSigGroup` | group/scalar arithmetic | – | `XOnly` ↔ `secp256k1_xonly_ge_serialize`; `PointSum` ↔ the summation loops (`sum_nonces`, `partial_sig_agg`) |
| `MuSigKeyAgg` | KeyAggCache (spec 4.1, 4.2: *spec_modelled*) | `keypair`, `keyagg_cache` | `PubkeyAgg`, `PubkeyTweakAdd(t)`; `KeyAggCoef(cache, x)` is `secp256k1_musig_keyaggcoef` as `session_impl.h` calls it |
| `MuSigSession` | `session_impl.h` | `secnonce`, `pubnonce` (per cosigner), `aggnonce`, `session`, `partial_sig` (per cosigner), `sig64`; the history variable `call_log` (every `partial_sign` call that loaded a secnonce) | `NonceGen(i, key?, cache?, msg)` ↔ `nonce_gen`, `NonceAgg` ↔ `nonce_agg`, `NonceProcess(msg, T)` ↔ `nonce_process`, `PartialSign(i)` ↔ `partial_sign`, `PartialSigAgg` ↔ `partial_sig_agg`; `PartialSigVerify(i)` ↔ `partial_sig_verify` (a predicate) |
| `MuSigAdaptor` | `adaptor_impl.h` | `adapted_sig64`, `sec_adaptor` | `Adapt(t, parity)`, `ExtractAdaptor(parity)` |
| `MuSigWire` | serialize/parse (`session_impl.h:112-188`) composed with the session | `wire_pubnonce`, `wire_sig` (the bytes sent), `recv_pubnonce`, `recv_sig` (the coordinator's parsed objects) | `PubnonceSerialize(i)`, `PubnonceParse(i, b)`, `AggnonceParse(b)` (into the `aggnonce` a cosigner processes), `PartialSigSerialize(i)`, `PartialSigParse(i, b)` |
| `MuSigSecNonce` | the secnonce contract of `secp256k1_musig.h` (nonce_gen rule 1, partial_sign) | `held`, `issued`, `sign_log` | `AbsNonceGen(i, id, ok)`, `AbsPartialSign(i)`, `AbsAbandon(i)` |
| `MuSigSecNonceRefinement` | the refinement mapping and its proof | – | – |
| `MuSigChannel` | what `secp256k1_musig.h:98-178` promises of serialize/parse, at the level of objects | the session's variables, plus `sent_nonce`, `sent_sig` (the object put on the wire), `recv_pubnonce`, `recv_sig`, `sig_parse_failed`, and the history variables `nonce_from`, `sig_from` | `SendNonce(i)`, `DeliverNonce(i)`, `ForeignNonce(i)`, `ReceiveAggnonce`, `SendSig(i)`, `DeliverSig(i)`, `GarbageSig(i)`, `ForeignSig(i)`, `RejectSig(i)`, and every session step |
| `MuSigSessionProofs` | TLAPS proofs: type correctness, nonce reuse | – | – |
| `MuSigGroupProofs` | TLAPS lemmas on `Add`/`Mul`/`Neg` mod Q | – | – |
| `MuSigVerifyProofs` | TLAPS proof that honest partial signatures verify | – | – |
| `MuSigAdaptorProofs` | TLAPS proofs about adapt / extract_adaptor | – | – |
| `MuSigWireProofs` | TLAPS proofs about the wire encodings, and the refinement mapping of `MuSigWire` onto `MuSigChannel` | – | – |
| `MC_*` | TLC instances | – | – |

Each action models a whole API function:

- **Its guard** is the conjunction of the loads and checks that make the
  function return 0.
- **Failure paths that write nothing** are simply disabled steps.
- **Failure paths that do write** are disjuncts of their own:
  - a failing `nonce_gen` still zeroes both outputs;
  - a failing `partial_sign` still zeroes the secnonce.
- **A conversion** is modelled by what it computes. Examples:
  - the three-term parity sum of `partial_sign:491-495` is `SignNegatesKey`;
  - `e*tweak`, negated on an odd key, is `SPart`;
  - the nonce negation is `SignNonces`;
  - the adaptor term is `AdaptTerm`.

Two checks have an operator of their own so that proofs and mutants can name
them:

- `SignInputsLoad` is the chain of loads `partial_sign` makes before it
  signs (`:457-506`);
- `AdaptorOverflows` is the overflow check of the adaptor secret
  (`adaptor_impl.h:38-42`).

## 4. Runs

### Common instance (`MC_MuSigSession`)

| Parameter | Value |
|---|---|
| Group order | Q = 5 |
| Odd-y points | `OddY = {1, 2}` |
| Cosigners | N = 2, with every key pair whose x-only keys differ |
| Messages | 1 |
| Adaptor secrets | {2} |
| Tweak inputs | all of 0..5 (0 and 5 are rejected) |
| nonce_gen calls per cosigner | 1 |

Two `nonce_gen` argument shapes are enumerated: key only, and key + cache +
message.

The action constraint `NoReaggregationAfterTweak` keeps a tweaked cache
tweaked: once a cache is tweaked, `pubkey_agg` and a second tweak are cut.
Without the constraint the state space grows past 30 million states. What is
cut:

- re-aggregations that rebuild a state already explored;
- sessions processed from a tweaked cache and then signed under a fresh
  untweaked one (the stale-cache case of hazard `:504` is still reached the
  other way round, tweaking after `nonce_process`);
- a second tweak (the code allows up to a chain of tweaks; one tweak already
  exercises every parity term of `partial_sign` and `nonce_process`).

Why these bounds are enough:

- With Q = 5 every parity combination of signer key × aggregate key ×
  internal key × final nonce is reached. This was checked by probing the
  preconditions of each property (adaptor with a tweak and internal parity,
  tweak with an odd key, odd final nonce, odd signer keys).
- The full tweak range is needed to reach the case "tweaked, internal parity
  even, tweaked key odd".

| Run | Properties | What it shows |
|---|---|---|
| `session_safety` (`MC_MuSigSession.cfg`, pass, 9 350 states) | `TypeOK`, `NonceUsedOnce`, `NonceCalledOnce`, `HonestPartialSigVerifies`, `VerifiedPreSigValid` | See the list below. |
| `adaptor` (`MC_MuSigAdaptor.cfg`, pass, ≈376 000 states, ≈70 s) | `AdaptorTypeOK`, `AdaptorRoundTrip`, `AdaptedSigValid` | extract(adapt(pre, t, p), pre, p) = t for either parity and the inputs {0, 2, n}; adapting a verified pre-signature with its session's secret and parity gives a valid signature. |
| `nonce_inductive` (`MC_NonceReuse.cfg`, pass, 7 741 states) | `NonceInv` | The inductive invariant of the nonce theorems holds over **two** `nonce_gen` generations per cosigner. Key material, tweaks and adaptors are cut to one choice each, because they do not bear on nonces. |
| `keyagg_equal_keys` (`MC_KeyAggEqualKeys.cfg`, violation) | `VerifiedPreSigValid` | With equal x-only keys, the spec's coefficient rule breaks signing (see Finding 1). |
| `wire` (`MC_MuSigWire.cfg`, pass, 687 104 states, ≈3 min) | `WireTypeOK`, `WireRoundTrip`, `ParsedObjectsLoad` | Serialization and parsing interleaved with the whole session. See below. |
| `wire_failed_parse` (`MC_WireFailedParse.cfg`, violation) | `FailedParseNeverVerifies` | A failed `partial_sig_parse` leaves a signature that verifies (see Finding 2). |
| `secnonce_refinement` (`MC_SecNonceRefinement.cfg`, pass, 7 741 states) | `SecNonceRefinement` | On the instance of `nonce_inductive`, every behaviour of the session is a behaviour of `MuSigSecNonce` under the mapping. |

The `wire` instance (`MC_MuSigWire`):

- It keeps the two cosigners of the common instance, with one key
  assignment, no tweak and no adaptor. None of these touches the wire.
- Besides the bytes a cosigner sent, a receiver may be handed:
  - a foreign but valid nonce;
  - a nonce whose first x has no point;
  - a nonce whose first x is n (not below the field size);
  - a foreign valid partial signature;
  - the overflowing partial signature n.
- A partial signature that `partial_sign` never wrote serializes to any of
  those strings (uninitialized bytes).

What `wire` shows:

- **`WireRoundTrip`**: whatever the cosigner did after sending, a pubnonce
  or partial signature the coordinator parsed from a loaded object's bytes
  equals that object. This is spec 8.8.
- **`ParsedObjectsLoad`**: whatever bytes arrive, every object parse wrote
  holds what its load function assumes: a scalar below n and finite nonce
  points. The same holds for the aggnonce a cosigner parses.

`wire_failed_parse` hands the receiver only the overflowing string. This
forces the trace through an honest signature:

1. cosigner 1 signs and serializes;
2. the coordinator parses the signature;
3. the coordinator parses n into the same object;
4. the parse fails, but the object still verifies.

What `session_safety` shows, for any call order:

- no nonce is used twice;
- `NonceCalledOnce`: no two `partial_sign` calls load the secnonce of one
  `nonce_gen` call, whether the call succeeded or failed afterwards on the
  keypair, cache or session. The history variable `call_log` records each
  call that loaded a secnonce. This is what the memset at
  `session_impl.h:460`, placed before every check that can return, buys
  (spec lines 109 and 162, header `secp256k1_musig.h:347-352`).
  `NonceUsedOnce` alone would not notice a memset done only on success:
  a failed call writes no signature, so the log of signatures stays clean
  while the nonce is handed out again;
- every honest partial signature verifies under all parity combinations;
- verified partial signatures, summed under a matching session, give a valid
  BIP-340 signature exactly when there is no adaptor.

Every property of a passing run has a mutant in `PROJECT.json`: a plausible
bug, written as an operator next to the definition it replaces, that TLC
catches.

- the memset left out;
- the internal-key parity term dropped;
- s_part not negated;
- the sum not reduced;
- the adaptor term unsigned;
- the extract negation on the wrong parity;
- the extract not reduced;
- x not checked against the field size in point parse;
- the compressed-point prefix taken from the wrong parity;
- the partial-signature overflow check off by one;
- for the refinement, the secnonce memset left out again;
- for `NonceCalledOnce`, the memset moved below the checks, so that only a
  successful call zeroes the secnonce (`ConsumedSecNonceLate`).

**Fairness.** No liveness property is checked and no fairness is assumed.
Every call is a bounded computation that returns. Whether the caller ever
makes the next call is not the library's business, so the model is a safety
model. Deadlock checking stays on. Every state has a successor because the
failing `nonce_gen` and `partial_sign` calls, which still write, remain
enabled.

### Finding 1 (spec_gap)

- **Spec 4.1 step 4** gives coefficient 1 to the key at index 1 when
  `second_pk_x` is zero. That happens exactly when all keys are equal.
- **`partial_sign` (`session_impl.h:501`) and `partial_sig_verify` (`:567`)**
  recompute the coefficient from the x-coordinate alone.
- **The result:** a `pubkey_agg` written to the spec yields an aggregate key
  the signers do not sign for. Partial signatures verify, but the aggregate
  signature is invalid.
- **Recommendation:** the keyagg code (absent here) must use the x-based rule
  to stay compatible with these call sites.

### Finding 2 (spec_code_divergence)

- **The header of `partial_sig_parse`** (`secp256k1_musig.h:170-172`)
  promises two things:
  - after the call the signature object is always initialized;
  - if parsing failed, verification with the object fails for every message
    and public key.
- **The code** (`session_impl.h:179-182`) returns 0 on overflow *without
  writing* the object.
- **The result:** an object that held a valid partial signature keeps it. A
  caller that parses into a reused object and relies on verification to
  catch a bad message accepts the old signature.
- **Fix:** in the code, save a zero or invalid object on failure. In the
  header, drop the promise.

Spec open question 2 (x of `cache.pk` vs x of `|cache.pk|`) is a non-issue in
this model: P and −P share their x-coordinate (`XOnly`).

## 5. Proofs (checked by `tlapm`)

| Module | Theorem | Statement |
|---|---|---|
| `MuSigSessionProofs` | `TypeCorrect` | `Spec => []TypeOK` |
| `MuSigSessionProofs` | `NonceReuseSafe` | `Spec => []NonceUsedOnce` |
| `MuSigSecNonce` | `AbsSignedOnce` | `AbsSpec => []SignedOnce` |
| `MuSigSecNonceRefinement` | `Refinement` | `Spec => SN!AbsSpec` (the property `SecNonceRefinement`) |
| `MuSigSecNonceRefinement` | `NonceReuseSafeByRefinement` | `Spec => []NonceUsedOnce`, derived from the two above |
| `MuSigVerifyProofs` | `HonestVerifies` | `Spec => []HonestPartialSigVerifies` |
| `MuSigAdaptorProofs` | `AdaptorTypeCorrect` | `AdaptorSpec => []AdaptorTypeOK` |
| `MuSigAdaptorProofs` | `AdaptorRoundTripHolds` | `AdaptorSpec => []AdaptorRoundTrip` |
| `MuSigWireProofs` | `WireTypeCorrect` | `WireSpec => []WireTypeOK` |
| `MuSigWireProofs` | `WireRoundTripHolds` | `WireSpec => []WireRoundTrip` |
| `MuSigWireProofs` | `ParsedObjectsLoadHolds` | `WireSpec => []ParsedObjectsLoad` |
| `MuSigSessionProofs` | `NonceInvariant` | `Spec => []NonceInv` |
| `MuSigSessionProofs` | `NonceCalledOnceSafe` | `Spec => []NonceCalledOnce` |

`NonceInvariant` states, for every value of the constants, the inductive
invariant that run `nonce_inductive` checks on a small instance. The
inductive invariants of the other theorems are proved as lemmas
(`SignInvariant`, `AdaptInvariant`, `WireInvariant`); they are the
scaffolding of the proofs, not properties of their own. So is the lemma
`ChannelRefines` (see below).

All of them hold for every Q, N, `MaxNonceGen`, `OddY` and hash operator that
satisfy the ASSUMEs.

**Assumptions**

- `QAssumption`: Q is an odd number above 2.
- Every hash lands in its range. For `NonceHash` the range excludes 0,
  matching the VERIFY_CHECKs at `:279-280`.
- `SumFunctionAssumption` and `FirstSignerAssumption` are facts about the
  integers: a sum of naturals is a natural, and a finite set of naturals has
  a least element.
  - The library theorems that would prove them take an operator parameter,
    which the installed provers cannot instantiate.
  - They are therefore stated as ASSUMEs. TLC evaluates them on every run.
- `WireAssumption`: the foreign strings are well-formed 66- and 32-byte
  strings, and `NoArg` (the model's NULL) is not a byte string.

**The argument for TypeCorrect**

- `TypeOK` is inductive by itself.
- The proof has one step per action, with lemmas `AddType`, `MulType`,
  `NegType`, `XOnlyType`, `PointSumType`, `SecondPkXType` and `SidType`.

**The argument for NonceReuseSafe**

`NonceUsedOnce` is not inductive: a live secnonce could hold an id that was
already signed with. The strengthening `NonceInv` (checked by TLC first, in
run `nonce_inductive`) adds:

- `LogBelowCount`: every id cosigner i has signed with is below
  `nonce_gen_count[i]*N`.
- `LiveNonceFresh`: a live secnonce's id is below that bound and not in the
  log.

`NonceInv` is `SignPart /\ CallPart`. `SignPart` is the above with `TypeOK`
and `NonceUsedOnce`. `CallPart` is the same argument for `call_log`:
`CallsBelowCount`, `LiveNonceUncalled` (a live secnonce's id was loaded by
no call) and `NonceCalledOnce`. Lemmas `SignPartStep` and `CallPartStep`
prove each part preserved. Per action:

- `nonce_gen` draws `c*N+(i-1) ≥ c*N`, which exceeds every logged id, and
  raises the bound to `(c+1)*N`.
- `partial_sign` appends the live id to `call_log` whenever the secnonce
  loads, and to the signature log on success. The id is fresh in both by
  `LiveNonceFresh` and `LiveNonceUncalled`. On both paths the secnonce is
  zeroed, so it leaves no live id behind.
- The other actions touch neither.

`NonceReuseSafe` and `NonceCalledOnceSafe` project `NonceInvariant` onto
each part.

**The argument for Refinement**

The refinement mapping:

- `held[i]` is the id of cosigner i's secnonce while its magic is set, else
  none.
- `issued[i]` is `{c*N+(i-1) : c < nonce_gen_count[i]}`.
- `sign_log` is the session's own log.

The proof is the standard one: `Init => SN!AbsInit` and
`TypeOK /\ [Next]_vars => [SN!AbsNext]_SN!abs_vars`. The step splits as
follows:

- **`nonce_gen`** is `AbsNonceGen(i, c*N+(i-1), ok)`. Lemma `SidFresh` shows
  the id was not issued before (c' * N + N ≤ c*N for c' < c). Lemma
  `IssuedGrow` shows the issued set grows by exactly that id. `ok` is false
  when the cache does not load and the outputs are zeroed.
- **A successful `partial_sign`** is `AbsPartialSign(i)`.
- **A failing `partial_sign`** is `AbsAbandon(i)`, since the memset comes
  before every check.
- **Every other call** leaves the mapped state unchanged.

No invariant beyond `TypeOK` is needed. The abstract theorem has the
inductive invariant `LogIssued /\ HeldFresh /\ SignedOnce` of its own.
Composing it with the refinement proves nonce-reuse safety a second way,
without `NonceInv`.

**The argument for HonestVerifies** (`MuSigVerifyProofs`)

The statement is `Spec => []HonestPartialSigVerifies`.

- **Inductive invariant.** `SignInv` is `TypeOK /\ SigFromSrc`. It is
  proved as lemma `SignInvariant`. `SigFromSrc` says that a partial
  signature with its magic set is the value `PartialSigValue` computes from
  the key pair and from the secnonce, cache and session recorded in
  `sign_src`. Without it, the property only speaks about the current
  `partial_sig`, and a `partial_sign` that fails after the secnonce memset
  breaks the link.
- **Algebraic core.** Lemma `VerifyComplete` shows that `VerifyResidual`, the
  expression `partial_sig_verify` compares with zero, vanishes on such a
  value.
  - `ParityAgree` shows that the key-negation sign of `partial_sign` (three
    parities XORed) times the sign applied to `e` in `partial_sig_verify` is
    the same product.
  - The nonce negation of both sides follows the same `fin_nonce_parity`.
- **Modular arithmetic.** `MuSigGroupProofs` proves uniqueness of the
  remainder (`ModUnique`). From it follows that `Add`, `Mul` and `Neg` of
  reduced operands are `(polynomial) % Q` (`AddRed`, `MulRed`, `NegRed`,
  `CondNegRed`). Every chain of group operations is rewritten into a single
  polynomial mod Q, and the two sides are compared as integers.

**The argument for the adaptor theorems** (`MuSigAdaptorProofs`)

The invariant is `AdaptInv` (lemma `AdaptInvariant`). It is
`AdaptorTypeOK` and two facts:

- `AdaptedFromPre`: an adapted signature is the pre-signature plus the signed
  adaptor secret (sign by nonce parity);
- `ExtractedFromAdapt`: an extracted secret was computed from such a pair.

Lemma `ExtractUndoesAdapt` is the modular identity `±((s + ±t) - s) = t`.
`AdaptorTypeCorrect` and `AdaptorRoundTripHolds` follow from it.
`AdaptorOverflows` is what makes `t` reduced.

**The argument for the wire theorems** (`MuSigWireProofs`)

The invariant is `WireInv` (lemma `WireInvariant`). It is
`WireTypeOK` and these facts:

- `NoncesFinite`: pubnonces and the aggregate nonce hold finite points. This
  rests on the non-zero VERIFY_CHECK of the nonce hash and on point sums.
- `SentFromSrc`: the bytes sent are `Ser66` of the recorded source object, or
  that object's scalar.
- `ParsedObjectsLoad` and `WireRoundTrip`.

The lemmas:

- `Ser33RoundTrip`: parsing a compressed point recovers it, because the
  prefix carries `OddY` and `XOnly` is undone by `Neg`.
- `Ser66RoundTrip` is the same for pubnonces.
- `Parse66Finite`: whatever parses is finite.

Overflow-free scalars are exactly the non-overflowing 32-byte strings.

**The lemma ChannelRefines** (`MuSigWireProofs`)

The header's promise of serialize/parse is permissive: a receiver may get
a sent object, a foreign one, or garbage. So the refinement adds little to
`WireRoundTrip` and `ParsedObjectsLoad`, which say the sharp things, and no
run checks it. It is kept as a proved lemma that the byte-level model stays
inside the header's contract.

`MuSigChannel` is the object-level contract. The refinement mapping:

- `sent_nonce[i]` is the recorded source object `wire_pubnonce_src[i]` once
  bytes are on the wire, else `NoArg`. `sent_sig` is the same for partial
  signatures.
- `nonce_from` is `recv_pubnonce_src`.
- `sig_from` is `recv_sig_src`, or `NoArg` after a failed parse.
- The session variables, `recv_pubnonce`, `recv_sig` and `sig_parse_failed`
  map to themselves.

Lemma `ChannelSession` expands the instance to show that the channel's copy
of the session (`CH!Init`, `CH!Next`, `CH!vars`, ...) is the session itself.
`ChannelInit` maps the initial state. `ChannelStep` takes one case per
action of `WireNext`, under `WireInv`:

- **pubnonce_parse of the sent bytes.** `SentFromSrc` says the bytes are
  `Ser66(src)`. `Ser66Unloaded` shows that bytes serialized from an object
  that did not load never parse. So `src` loaded, `Ser66RoundTrip` gives
  back `src`, and the step is `DeliverNonce`.
- **Foreign bytes** are `ForeignNonce` or `ReceiveAggnonce`, by
  `Parse66Finite`.
- **partial_sig_parse.** Its cases are:
  - overflow is `RejectSig`;
  - the sent bytes of a loaded object are `DeliverSig`;
  - the sent bytes of an unwritten object are `GarbageSig`;
  - other bytes are `ForeignSig`.

`WireInvariant` and PTL lift the step to `WireSpec => CH!ChanSpec`.

**Only model-checked**

These stay with TLC:

- **`VerifiedPreSigValid` and `AdaptedSigValid`.** They say that the sum of
  the partial signatures, taken by `SumFunction`/`PointSum` over the
  cosigners, satisfies the Schnorr equation. The proof needs linearity of
  that fold over an arbitrary set of cosigners. That is induction over data:
  the library's induction theorems take an operator parameter, which the
  installed provers cannot instantiate.
- **`FailedParseNeverVerifies`.** This is a violation run: the property is
  false by design of the code.
- **Liveness.** None is stated (see Fairness), and TLAPS could not handle
  ENABLED anyway.

## 6. Not modelled

- **The keyagg code itself** is not in the repository.
  - The KeyAggCache operations are modelled from the spec and marked
    spec_modelled.
  - `pubkey_get`, `pubkey_ec_tweak_add` vs `xonly_tweak_add` are not
    modelled: their code is absent too.
- **The byte layout of the opaque objects** (`*_save`, `*_load` at
  `session_impl.h:13-110`) is kept as a record with a magic flag. Copying
  opaque objects by hand (the header warns against copying a secnonce) is
  not an API call and is not modelled.
- **`partial_sig_serialize` of an unwritten object.** It returns 1 with
  arbitrary bytes. The model sends them. The header promises nothing of
  them, so `MuSigChannel` allows any loaded signature to arrive
  (`GarbageSig`), and no stronger property is stated.
- **Scalar overflow of values the code wrote itself** is not modelled. For
  example, `secnonce_load` reads with a NULL overflow pointer, and
  `partial_sig_load` VERIFY_CHECKs. Those values come from saves of reduced
  scalars. Overflow of caller inputs (tweak, adaptor secret) is modelled.
- **Zeroization of stack secrets** and constant-time behaviour are not
  observable in this model.

## 7. Plan for later work

1. Prove `VerifiedPreSigValid` for a fixed N (N = 2 unrolls the fold), or
   replace `SumFunction` with a recursive function and prove its linearity
   by `NatInduction`, instantiated by hand.
2. Compose `MuSigWire` with `PartialSigAgg` over the coordinator's parsed
   copies, so that aggregation works from received bytes.
3. Refine `MuSigAdaptor` to an abstract adaptor contract (secret in,
   secret out), as done for the secnonce and the wire.
4. Widen `nonce_inductive` to three generations with a symmetry-free
   reduction, if the state space allows.
