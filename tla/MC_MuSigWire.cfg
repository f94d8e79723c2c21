CONSTANTS
    Q <- MCQ
    OddY <- MCOddY
    N <- MCN
    KeyPairs <- MCWireKeyPairs
    TweakInputs <- MCWireTweakInputs
    Msgs <- MCMsgs
    AdaptorSecrets <- MCWireAdaptorSecrets
    MaxNonceGen <- MCMaxNonceGen
    NonceGenArgs <- MCWireNonceGenArgs
    NoArg = NoArg
    KeyAggListHash <- MCKeyAggListHash
    KeyAggCoefHash <- MCKeyAggCoefHash
    NonceHash <- MCNonceHash
    NonceCoefHash <- MCNonceCoefHash
    ChallengeHash <- MCChallengeHash
    WireNonceBytes <- MCWireNonceBytes
    WireSigBytes <- MCWireSigBytes
SPECIFICATION WireSpec
ACTION_CONSTRAINT NoReaggregationAfterTweak
INVARIANTS
    WireTypeOK
    WireRoundTrip
    ParsedObjectsLoad
