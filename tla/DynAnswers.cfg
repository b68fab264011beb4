SPECIFICATION DynFairSpec
CONSTANTS
    ann = ann
    bob = bob
    k1 = k1
    k2 = k2
    None = None
    Child <- Two
    Specs <- NoSpecs
    Order = "LeftToRight"
    Strategies = {"OneForOne"}
    Restart <- PermanentTemporary
    Timed <- OnlyB
    HasBackoff = TRUE
    WindowForever = FALSE
    CanFailStart <- OnlyA
    CanSkipNotify <- Nobody
    BuildCanFail = FALSE
    CleanupCanFail = FALSE
    Goroutine = {g1, g2, g3}
    MaxStale = 0
    MaxRestartCount = 1
    CountLimit = 16
    Client = {k1}
    CanFailSpawn <- OnlyA
    MaxSpecs = 2
PROPERTIES
    Answered
    DynTerminates
