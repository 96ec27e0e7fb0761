SPECIFICATION HandlerSpec
CONSTANTS
    HeaderPair <- MCHeaderPair
    TrailerPair <- MCTrailerPair
    ReservedKey = {"grpc-x"}
    BinaryKey = {"x-sum-bin"}
    Printable = {"text"}
    MaxMessages = 3
    Limit <- MCLimit
    Size <- MCSize
    EmptySize <- MCEmptySize
    OwnErrorSize <- MCOwnErrorSize
CHECK_DEADLOCK FALSE
PROPERTY
    DeadlineCoversBody
