CONSTANTS
    Q <- MCQ
    OddY <- MCOddY
    N <- MCN
    KeyPairs <- MCEqualKeyPairs
    TweakInputs <- MCTweakInputs
    Msgs <- MCMsgs
    AdaptorSecrets <- MCAdaptorSecrets
    MaxNonceGen <- MCMaxNonceGen
    NonceGenArgs <- MCNonceGenArgs
    NoArg = NoArg
    KeyAggListHash <- MCKeyAggListHash
    KeyAggCoefHash <- MCKeyAggCoefHash
    NonceHash <- MCNonceHash
    NonceCoefHash <- MCNonceCoefHash
    ChallengeHash <- MCChallengeHash
SPECIFICATION Spec
ACTION_CONSTRAINT NoReaggregationAfterTweak
INVARIANT VerifiedPreSigValid
