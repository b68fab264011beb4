SPECIFICATION ObservedSpec
CONSTANTS
    ann = ann
    bob = bob
    None = None
    Root = root
    Child <- Both
    Specs <- BothSpecs
    Name <- Names
    Reader = {"observer", "callback"}
    Order = "LeftToRight"
    Strategies = {"OneForOne", "OneForAll"}
    Restart <- BothPermanent
    Timed <- Nobody
    HasBackoff = TRUE
    WindowForever = TRUE
    CanFailStart <- Nobody
    CanSkipNotify <- Nobody
    BuildCanFail = TRUE
    CleanupCanFail = FALSE
    Goroutine = {g1, g2, g3}
    MaxStale = 0
    MaxRestartCount = 3
    CountLimit = 16
    TotalErrCount = 2
    Predicates <- SomePredicates
INVARIANTS
    StoredWhenReturned
    SnapshotComplete
    MatchersAgree
PROPERTIES
    ObservationReturns
