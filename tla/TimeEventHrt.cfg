SPECIFICATION FairSpec
CONSTANTS
    A = A
    C = C
    W = W
    Event = {A, C, W}
    Alarm = {A}
    Cyclic = {C}
    Wait = {W}
    EVTTIM_MOD = 6
    cyctim <- Period1
    cycphs <- Period1
    TA_STA = {C}
    SYSTICK = FALSE
    TSTEP_HRTCNT = 1
    HRTCNT_BOUND = 2
    BOUNDARY_MARGIN = 2
    TMAX_RELTIM = 1
    TMAX_ADJTIM = 1
    SYSTIM_MOD = 6
    Reltims = {0, 1}
    Adjtims = {1}
    Systims = {5}
    LATENCY = 1
INVARIANTS
    HeapOK TimerOK
PROPERTIES
    ImplementsEventTimes DueIsCalled
VIEW
    Seen
