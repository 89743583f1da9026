CONSTANTS
    a = a
    b = b
    c = c
    Modules <- MCModules
    Imports = {o1, o2}
    Unresolvable = Unresolvable
    NoModule = NoModule
    NoImport = NoImport
    NoLoop = NoLoop
    NaN = NaN
    DepLists <- MCDepLists
    LoaderStyles = {"later", "now", "none"}
    Later = {"errored"}
    MaxRefusals = 1
SPECIFICATION Spec
SYMMETRY MCSymmetry
INVARIANT TypeOK
INVARIANT FetchedOnce
INVARIANT GraphComplete
INVARIANT NoImportStranded
CHECK_DEADLOCK FALSE
