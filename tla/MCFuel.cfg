CONSTANTS
    Fibers = {f1, f2, f3}
    Budgets = {0, 4}
    Unlimited = 9
    MaxReentry = 2
    MayInterrupt = TRUE
SPECIFICATION FairSpec
INVARIANT TypeOK
INVARIANT NeverUnderflows
INVARIANT SpentIsGranted
PROPERTY TurnsEnd
