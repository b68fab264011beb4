SPECIFICATION Spec
CONSTANTS
    MaxRestartCount = 3
    CountLimit = 8
    Bits = 3
    RestartWindow = 4
    Bases = {0, 1, 2}
    Maxima = {0, 2, 3}
    MaxTime = 9
INVARIANTS
    TypeOK
    GiveUpJustified
    ToleratedBound
    RestartsSpaced
    WaitBounded
