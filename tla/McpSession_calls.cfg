SPECIFICATION FairSpec
CONSTANTS
    c1 = c1
    c2 = c2
    c3 = c3
    k1 = k1
    k2 = k2
    None = None
    Call <- TwoCalls
    Key <- TwoKeys
    MaxLines = 4
    Closable = TRUE
CHECK_DEADLOCK FALSE
INVARIANTS
    AnsweredOnceOrSilenced
    CancelTakesEffect
PROPERTIES
    ImplementsContract
    ShutdownReturns
    EveryCallResolved
