CONSTANTS
    Q <- MCQ
    OddY <- MCOddY
    N <- MCN
    KeyPairs <- MCKeyPairs
    TweakInputs <- MCTweakInputs
    Msgs <- MCMsgs
    AdaptorSecrets <- MCAdaptorSecrets
    MaxNonceGen <- MCMaxNonceGen
    NonceGenArgs <- MCNonceGenArgs
    NoArg = NoArg
    AdaptInputs <- MCAdaptInputs
    KeyAggListHash <- MCKeyAggListHash
    KeyAggCoefHash <- MCKeyAggCoefHash
    NonceHash <- MCNonceHash
    NonceCoefHash <- MCNonceCoefHash
    ChallengeHash <- MCChallengeHash
SPECIFICATION AdaptorSpec
ACTION_CONSTRAINT NoReaggregationAfterTweak
INVARIANTS
    AdaptorTypeOK
    AdaptorRoundTrip
    AdaptedSigValid
