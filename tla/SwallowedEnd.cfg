SPECIFICATION DynSpec
CONSTANTS
    ann = ann
    bob = bob
    k1 = k1
    k2 = k2
    None = None
    Child <- Two
    Specs <- NoSpecs
    Order = "LeftToRight"
    Strategies = {"OneForOne"}
    Restart <- PermanentTemporary
    Timed <- Nobody
    HasBackoff = FALSE
    WindowForever = TRUE
    CanFailStart <- Nobody
    CanSkipNotify <- Nobody
    BuildCanFail = FALSE
    CleanupCanFail = FALSE
    Goroutine = {g1, g2, g3, g4}
    MaxStale = 0
    MaxRestartCount = 0
    CountLimit = 16
    Client = {k1, k2}
    CanFailSpawn <- OnlyA
    MaxSpecs = 2
INVARIANTS
    NeverPanics
