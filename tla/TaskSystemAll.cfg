SPECIFICATION KFairSpec
CONSTANTS
    A = A
    B = B
    Task = {A, B}
    NULL = NULL
    TNUM_TPRI = 2
    ipriority <- PriTwo
    Wobj = {}
    TA_TPRI = {}
    Mtx = {}
    TA_ACT = {A}
    TA_NOACTQUE = {B}
    torder_table <- OrderTwo
    Calls <- AllCalls
    mtxhook_check_ceilpri <- NoCeilpriCheck
    mtxhook_scan_ceilmtx <- NoCeilmtxScan
    mtxhook_release_all <- NoReleaseAll
INVARIANTS
    TypeOK RequestsOK TmevtbOK
PROPERTIES
    KeepsProcessor TerminationDisabled SchedtskRuns
