\* Two sessions and other programs that set, clear, lose and read the selection.
SPECIFICATION Spec
CONSTANTS
    s1 = s1
    s2 = s2
    Session = {s1, s2}
    MaxSelections = 3
    MaxRequests = 3
    MaxReads = 1
SYMMETRY Symmetry
CHECK_DEADLOCK FALSE
INVARIANTS TypeOK SourceCatchesUp ToldRight
PROPERTIES NoGap
