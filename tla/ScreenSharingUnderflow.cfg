\* "End" is pressed while a Close call is queued: expected to be violated.
SPECIFICATION Spec
CONSTANTS
    s1 = s1
    s2 = s2
    Session = {s1}
    Stream = {1, 2}
    Streams <- Two
    Lookups <- NotAuthorized
    UintRange = 4
    MaxCloses = 2
CHECK_DEADLOCK FALSE
INVARIANT NoUnderflow
