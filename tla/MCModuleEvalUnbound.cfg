CONSTANTS
    a = a
    b = b
    c = c
    Modules = {a, b}
    Imports = {o1, o2, o3, o4}
    Graphs <- MCPairs
    NoModule = NoModule
    Host = Host
    Roots <- MCPairRoots
    MaxRefusals <- MCNoRefusals
SPECIFICATION Spec
CHECK_DEADLOCK FALSE
INVARIANT BodiesBound
SYMMETRY MCSymmetry
