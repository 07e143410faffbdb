SPECIFICATION Spec
CONSTANTS
    Callers = {t1}
    MayFail = FALSE
    Requests = {0, 30, 100, 150}
INVARIANT
    OffTurnsOff
