SPECIFICATION Spec
CONSTANTS
    s1 = s1
    s2 = s2
    k1 = k1
    Session = {s1, s2}
    Id = {1, 2}
    Key = {k1}
    NoKey = NoKey
    Absent = Absent
    Nameless = {}
    MaxBinds = 3
    MaxForeign = 0
SYMMETRY Symmetry
CHECK_DEADLOCK FALSE
INVARIANT DeniedHasNoKeys
