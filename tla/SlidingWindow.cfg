SPECIFICATION Spec
CONSTANTS
    MaxRestartCount = 3
    CountLimit = 8
    Bits = 3
    RestartWindow = 4
    Bases = {0}
    Maxima = {0}
    MaxTime = 9
INVARIANTS
    DocumentedTolerance
