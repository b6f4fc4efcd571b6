\* Two power inhibitions that can get each other's cookie, and one of
\* notifications.
SPECIFICATION FairSpec
CONSTANTS
    p1 = p1
    p2 = p2
    n1 = n1
    Inhibitor = {p1, p2, n1}
    Power = {p1, p2}
    Cookie = {0, 1, 2}
CHECK_DEADLOCK FALSE
INVARIANTS TypeOK
PROPERTIES PromiseKept InhibitionsEnd
