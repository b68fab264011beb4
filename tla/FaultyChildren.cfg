SPECIFICATION Spec
CONSTANTS
    ann = ann
    bob = bob
    cleo = cleo
    None = None
    Child <- Two
    Specs <- TwoSpecs
    Order = "RightToLeft"
    Strategies = {"OneForOne", "OneForAll"}
    Restart <- PermanentTransient
    Timed <- OnlyB
    HasBackoff = TRUE
    WindowForever = TRUE
    CanFailStart <- OnlyA
    CanSkipNotify <- OnlyA
    BuildCanFail = TRUE
    CleanupCanFail = FALSE
    Goroutine = {g1, g2, g3, g4, g5, g6}
    MaxStale = 2
    MaxRestartCount = 2
    CountLimit = 16
INVARIANTS
    ReportedUpIsUp
    StartsInOrder
    BootAllOrNothing
