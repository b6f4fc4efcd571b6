\* Two applications and two queries that can overlap.
SPECIFICATION FairSpec
CONSTANTS
    m1 = m1
    m2 = m2
    Monitor = {m1, m2}
    Race = 0
    Settle = 1
    Grace = 2
    Deadline = 3
    MaxQueries = 2
CHECK_DEADLOCK FALSE
INVARIANTS TypeOK AnsweredInTime MonitorsUpToDate
PROPERTIES BlockersHonoured CleanGraceKept QueriesEnd
