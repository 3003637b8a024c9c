SPECIFICATION MCSpec
CONSTANTS
    A = A
    B = B
    C = C
    Task = {A, B, C}
    NULL = NULL
    TNUM_TPRI = 2
    ipriority <- PriOf
    Wobj = {Q}
    TA_TPRI = {Q}
    flg = Q
    Bits = {1, 2}
    iflgptn = {}
    Mtx = {}
    TA_ACT = {A, B, C}
    TA_NOACTQUE = {A, B, C}
    torder_table <- OrderThree
    Calls <- FlgCalls
    INDEX_NULL = INDEX_NULL
    INDEX_ALLOC = INDEX_ALLOC
    mtxhook_check_ceilpri <- NoCeilpriCheck
    mtxhook_scan_ceilmtx <- NoCeilmtxScan
    mtxhook_release_all <- NoReleaseAll
INVARIANTS
    NoMissedEvent PoolOK
PROPERTIES
    ImplementsEvents ImplementsBlocks
