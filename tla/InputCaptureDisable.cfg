\* Disable does not disable: expected to be violated.
SPECIFICATION Spec
CONSTANTS
    s1 = s1
    Session = {s1}
    Screens = 2
    Geometry <- MirrorGeometry
    Results = {"ok"}
    MaxZone = 1
    MaxQueue = 3
CHECK_DEADLOCK FALSE
INVARIANT DisableStopsCapture
