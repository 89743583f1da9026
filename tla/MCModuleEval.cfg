CONSTANTS
    a = a
    b = b
    c = c
    Modules <- MCModules
    Imports = {o1, o2}
    Graphs <- MCGraphs
    NoModule = NoModule
    Host = Host
    Roots <- MCRoots
    MaxRefusals <- MCMaxRefusals
SPECIFICATION Spec
INVARIANT TypeOK
INVARIANT EvalInv
INVARIANT BodyOnce
INVARIANT BodyAfterDeps
INVARIANT OutcomesAgree
PROPERTY ImportsSettle
CHECK_DEADLOCK FALSE
