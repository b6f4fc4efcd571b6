SPECIFICATION Spec
CONSTANTS
    c1 = c1
    c2 = c2
    Call = {c1, c2}
    MaxPending = 2
CHECK_DEADLOCK FALSE
INVARIANTS TypeOK ChoosersAlive
PROPERTIES PromiseKept ChosenIsTold
