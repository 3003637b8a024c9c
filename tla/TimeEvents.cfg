SPECIFICATION MCSpec
CONSTANTS
    A = A
    C = C
    W = W
INVARIANTS
    HeapOK OnTimeOK
PROPERTIES
    OneEvent ImplementsEventTimes
