CONSTANTS
    Q <- MCQ
    OddY <- MCOddY
    N <- MCN
    KeyPairs <- MCOneKeyPair
    TweakInputs <- MCNoTweak
    Msgs <- MCMsgs
    AdaptorSecrets <- MCNoAdaptor
    MaxNonceGen <- MCNonceMaxNonceGen
    NonceGenArgs <- MCNonceGenArgsReuse
    NoArg = NoArg
    KeyAggListHash <- MCKeyAggListHash
    KeyAggCoefHash <- MCKeyAggCoefHash
    NonceHash <- MCNonceHash
    NonceCoefHash <- MCNonceCoefHash
    ChallengeHash <- MCChallengeHash
SPECIFICATION Spec
ACTION_CONSTRAINT NoReaggregationAfterTweak
INVARIANTS
    NonceInv
