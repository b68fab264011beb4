SPECIFICATION Spec
CONSTANTS
    ann = ann
    bob = bob
    cleo = cleo
    None = None
    Child <- Two
    Specs <- TwoSpecs
    Order = "LeftToRight"
    Strategies = {"OneForOne"}
    Restart <- PermanentTransient
    Timed <- Nobody
    HasBackoff = TRUE
    WindowForever = FALSE
    CanFailStart <- OnlyA
    CanSkipNotify <- Nobody
    BuildCanFail = FALSE
    CleanupCanFail = FALSE
    Goroutine = {g1, g2, g3, g4, g5}
    MaxStale = 1
    MaxRestartCount = 2
    CountLimit = 16
INVARIANTS
    StopsEveryChild
