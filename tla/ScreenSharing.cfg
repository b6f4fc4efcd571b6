\* Two sessions of either kind that end in every way, also twice.
SPECIFICATION FairSpec
CONSTANTS
    s1 = s1
    s2 = s2
    Session = {s1, s2}
    Stream = {1, 2}
    Streams <- TwoAndOne
    Lookups <- AnyLookups
    UintRange = 4
    MaxCloses = 2
CHECK_DEADLOCK FALSE
INVARIANTS TypeOK InputMatchesSessions StartRepliedOnce GrantIsVisible EndsWithItsStreams
PROPERTIES StreamsEnd
