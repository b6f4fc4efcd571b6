\* A timer or a response of an earlier query ends a later one: expected to be
\* violated.
SPECIFICATION Spec
CONSTANTS
    m1 = m1
    m2 = m2
    Monitor = {m1, m2}
    Race = 0
    Settle = 1
    Grace = 2
    Deadline = 3
    MaxQueries = 2
CHECK_DEADLOCK FALSE
PROPERTY GraceKept
