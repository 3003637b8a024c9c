SPECIFICATION MCSpec
SYMMETRY Symmetry
CONSTANTS
    A = A
    B = B
    C = C
    D1 = D1
    D2 = D2
    Task = {A, B, C}
    NULL = NULL
    TNUM_TPRI = 2
    ipriority <- PriOf
    Wobj = {SQ, RQ}
    swait_queue = SQ
    rwait_queue = RQ
    dtqcnt = 2
    Data = {D1, D2}
    TA_TPRI = {}
    Mtx = {}
    TA_ACT = {A, B, C}
    TA_NOACTQUE = {A, B, C}
    torder_table <- OrderThree
    Calls <- RingCalls
    mtxhook_check_ceilpri <- NoCeilpriCheck
    mtxhook_scan_ceilmtx <- NoCeilmtxScan
    mtxhook_release_all <- NoReleaseAll
INVARIANTS
    DataOK SyncDataOK PridataOK
PROPERTIES
    ServedInTurn ImplementsFifo SyncImplementsFifo ImplementsPriFifo
