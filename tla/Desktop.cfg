SPECIFICATION Spec
CONSTANTS
    Parts = {"print", "files", "settings", "background", "chooser",
             "restore", "barriers", "apps"}
    p1 = p1
    p2 = p2
    f1 = f1
    f2 = f2
    f3 = f3
    w1 = w1
    w2 = w2
    w3 = w3
    n1 = n1
    n2 = n2
    s1 = s1
    s2 = s2
    v1 = v1
    v2 = v2
    c1 = c1
    c2 = c2
    e1 = e1
    e2 = e2
    e3 = e3
    e4 = e4
    PrintCall = {p1, p2}
    Setup <- MCSetup
    MaxClock = 1
    FileCall = {f1, f2, f3}
    Options <- MCOptions
    Picks <- MCPicks
    Watched <- MCWatched
    Eyes <- MCEyes
    Patterns <- MCPatterns
    MaxNotices = 2
    AppWindow = {w1, w2, w3}
    LookedUp <- MCLookedUp
    Raw <- MCRaw
    Notify = {n1, n2}
    NotifyAbout <- MCNotifyAbout
    Screen = {s1, s2}
    ShareWindow = {v1, v2}
    Requests = {{"Monitor"}, {"Virtual"}, {"Window"}, {"Monitor", "Window"}, {"Virtual", "Window"}}
    Plug = {s1, s2}
    Areas <- MCAreas
    CastWindow = {c1, c2}
    AppId <- MCAppId
    Titles <- MCTitles
    Garbage = {0, 9}
    Selections <- MCSelections
    Layouts <- MCLayouts
    Lines <- MCLines
    Entry = {e1, e2, e3, e4}
    Alias <- MCAlias
    Rank <- MCRank
    Supports = {e2, e4}
    Texts <- MCTexts
    Choices <- MCChoices
    Databases <- MCDatabases
SYMMETRY Symmetry
INVARIANTS
    FilesForTheCaller
    KnownIsRead
    BackgroundFollows
    TickedIsShared
    RestoredIsChosen
    BarriersAtTheOutside
    ChoicesAreOffered
PROPERTY PrintedAsPrepared
CHECK_DEADLOCK FALSE
