SPECIFICATION FairSpec
CONSTANTS
    ann = ann
    bob = bob
    cleo = cleo
    None = None
    Child <- Three
    Specs <- ThreeSpecs
    Order = "LeftToRight"
    Strategies = {"OneForOne", "OneForAll"}
    Restart <- EachKind
    Timed <- Nobody
    HasBackoff = TRUE
    WindowForever = FALSE
    CanFailStart <- Nobody
    CanSkipNotify <- Nobody
    BuildCanFail = TRUE
    CleanupCanFail = TRUE
    Goroutine = {g1, g2, g3, g4}
    MaxStale = 0
    MaxRestartCount = 2
    CountLimit = 16
INVARIANTS
    TypeOK
    SupervisionInv
    OrderedStop
    UpIsReportedUp
PROPERTIES
    RestartPolicy
    Revived
    ImplementsContract
    Halts
