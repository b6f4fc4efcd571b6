\* One session; every way a call to KWin can end.
SPECIFICATION FairSpec
CONSTANTS
    s1 = s1
    Session = {s1}
    Screens = 2
    Geometry <- MirrorGeometry
    Results = {"ok", "error", "late"}
    MaxZone = 3
    MaxQueue = 3
CHECK_DEADLOCK FALSE
INVARIANTS TypeOK SignalsCatchUp BarriersFitZones NoCaptureLeft
PROPERTIES StopIsNoticed
