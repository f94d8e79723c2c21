CONSTANTS
    Q <- MCQ
    OddY <- MCOddY
    N <- MCN
    KeyPairs <- MCWireKeyPairs
    TweakInputs <- MCWireTweakInputs
    Msgs <- MCMsgs
    AdaptorSecrets <- MCWireAdaptorSecrets
    MaxNonceGen <- MCMaxNonceGen
    NonceGenArgs <- MCWireNonceGenArgs
    NoArg = NoArg
    KeyAggListHash <- MCKeyAggListHash
    KeyAggCoefHash <- MCKeyAggCoefHash
    NonceHash <- MCNonceHash
    NonceCoefHash <- MCNonceCoefHash
    ChallengeHash <- MCChallengeHash
    WireNonceBytes <- MCWireNonceBytes
    WireSigBytes <- MCWireOverflowOnly
SPECIFICATION WireSpec
ACTION_CONSTRAINT NoReaggregationAfterTweak
INVARIANT FailedParseNeverVerifies
