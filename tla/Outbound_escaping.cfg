SPECIFICATION MCSpec
CONSTANTS
    WireNames <- MCWireNames
    TypeWords <- MCTypeWords
    FieldName <- MCFieldName
    Parts <- MCParts
    MinInt <- MCMinInt
    MaxInt = 4
    ReservedFrom = 3
    ReservedCount = 2
    Documents <- MCDocuments
    Contracts <- MCContracts
    Texts <- MCTexts
    Base <- MCBase
    MaxRetries = 3
    MaxDelay = 3
    PerSecond = 10
    Width = 8
    RetryAfter <- MCRetryAfter
    NoRetryAfter = NoRetryAfter
INVARIANT EncodedOnce
CHECK_DEADLOCK FALSE
