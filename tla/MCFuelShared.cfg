CONSTANTS
    Fibers = {f1, f2}
    Budgets = {4}
    Unlimited = 9
    MaxReentry = 2
    MayInterrupt = FALSE
SPECIFICATION Spec
INVARIANT BudgetShared
