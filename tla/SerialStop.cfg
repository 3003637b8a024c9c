SPECIFICATION Spec
CONSTANTS
    A = A
    B = B
    X = X
    Task = {A}
    tskpri <- SamePri
    rcv_bufsz = 4
    snd_bufsz = 2
    NUL = NUL
    CR = CR
    LF = LF
    FC_STOP = FC_STOP
    FC_START = FC_START
    RcvChars <- Lines
    Strings = {}
    Lengths = {3}
    Ioctls = {}
    EchoReleases = FALSE
INVARIANTS
    StopSent
CHECK_DEADLOCK FALSE
