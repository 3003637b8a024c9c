SPECIFICATION Spec
CONSTANTS
    A = A
    B = B
    C = C
    Task = {A, B, C}
    NULL = NULL
    TNUM_TPRI = 3
    ipriority <- PriThree
    Wobj = {S}
    sem = S
    isemcnt = 1
    maxsem = 2
    TA_TPRI = {S}
    Mtx = {}
    TA_ACT = {A, B, C}
    TA_NOACTQUE = {A, C}
    torder_table <- OrderThree
    Calls <- SemCalls
    mtxhook_check_ceilpri <- NoCeilpriCheck
    mtxhook_scan_ceilmtx <- NoCeilmtxScan
    mtxhook_release_all <- NoReleaseAll
INVARIANTS
    ReadyQueueOK DispatchOK ReportsAgree NoIdlePermit
PROPERTIES
    OrderKept ImplementsPermits
