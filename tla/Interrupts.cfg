SPECIFICATION MCSpec
SYMMETRY Symmetry
CONSTANTS
    A = A
    B = B
    I1 = I1
    I2 = I2
    NULL = NULL
    Task = {A, B}
    IntNo = {I1, I2}
    TA_ENAINT = {I1, I2}
    TARGET_ARCH_THUMB = 4
    TBITW_IPRI = 2
    TMIN_INTPRI <- MinIntpri
    intpri <- Intpri
    Ipms <- MasksOfCalls
    Calls = {"act_tsk", "slp_tsk", "ext_tsk", "chg_ipm", "loc_cpu"}
    CpuExceptions = TRUE
INVARIANTS
    StandardModelOK StandardModelV6
