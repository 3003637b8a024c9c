SPECIFICATION MCSpec
SYMMETRY Symmetry
CONSTANTS
    A = A
    B = B
    X = X
    Task = {A, B}
    tskpri <- SamePri
    rcv_bufsz = 2
    snd_bufsz = 2
    NUL = NUL
    CR = CR
    LF = LF
    FC_STOP = FC_STOP
    FC_START = FC_START
    RcvChars <- Chars
    Strings <- LineEnds
    Lengths = {1}
    Ioctls = {{"CRLF", "FCSND", "FCRCV"}}
    EchoReleases = FALSE
INVARIANTS
    PortOK
PROPERTIES
    ImplementsLine ImplementsJournal
CHECK_DEADLOCK FALSE
