SPECIFICATION MCSpec
CONSTANTS
    A = A
    B = B
    C = C
    M1 = M1
    M2 = M2
    NULL = NULL
INVARIANTS
    MutexOK CeilingsOK
PROPERTIES
    HandedOver
