SPECIFICATION FairSpec
CONSTANTS
    Terminator = {t}
    Waiter = {w}
    Prober = {p}
    NoError = NoError
    SupError = SupError
INVARIANTS
    TypeOK
    ErrorDelivered
PROPERTIES
    EverybodyAnswered
