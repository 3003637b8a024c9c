SPECIFICATION FairSpec
CONSTANTS
    A = A
    B = B
    X = X
    Task = {A, B}
    receiveBufferSize = 1
    sendBufferSize = 1
    NUL = NUL
    CR = CR
    LF = LF
    FC_STOP = FC_STOP
    FC_START = FC_START
    RcvChars <- Lines
    Strings <- Long
    Lengths = {1}
    Ioctls <- AnyIoctl
PROPERTIES
    WriterReturns
CHECK_DEADLOCK FALSE
