SPECIFICATION TreeFairSpec
CONSTANTS
    ann = ann
    tree = tree
    bob = bob
    cleo = cleo
    None = None
    Child <- Two
    Specs <- TwoSpecs
    Order = "LeftToRight"
    Strategies = {"OneForOne", "OneForAll"}
    Restart <- BothTransient
    Timed <- Nobody
    HasBackoff = TRUE
    WindowForever = TRUE
    CanFailStart <- OnlyTree
    CanSkipNotify <- Nobody
    BuildCanFail = FALSE
    CleanupCanFail = FALSE
    Goroutine = {g1, g2, g3}
    MaxStale = 1
    MaxRestartCount = 1
    CountLimit = 16
    Subtree = tree
    SubChild <- Workers
    SubSpecs <- WorkerSpecs
    SubStrategies = {"OneForAll"}
    SubRestart <- PermanentTemporary
    SubBuildCanFail = TRUE
    SubCleanupCanFail = TRUE
    SubGoroutine = {h1, h2, h3}
INVARIANTS
    TreeTypeOK
    NothingOutlivesSubtree
    WholeSubtreeFirst
PROPERTIES
    TreeTerminates
    SubtreeRevived
    SubtreeIsAChild
