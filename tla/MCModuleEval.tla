----------------------------- MODULE MCModuleEval -----------------------------
(* Small instances of ModuleEval for TLC, which checks the inductive       *)
(* invariant of the proofs with the properties that follow from it.        *)
EXTENDS ModuleEvalPlaces, TLC

CONSTANTS a, b, c

MCModules == {a, b, c}

MCGraph(x, y, z) == a :> x @@ b :> y @@ c :> z

(* Two arms from the root, which depend on each other; one module that     *)
(* imports another.                                                        *)
MCArms == MCGraph(<<b, c>>, <<c>>, <<b>>)
MCPair == MCGraph(<<b>>, <<>>, <<>>)

MCGraphs == {MCArms, MCPair}
MCRoots == MCArms :> MCModules @@ MCPair :> {a, b}
MCMaxRefusals == MCArms :> 1 @@ MCPair :> 2

(* Imports that are interchangeable, and no refusal.                       *)
MCPairs == {a :> <<b>> @@ b :> <<>>}
MCPairRoots == [g \in MCPairs |-> Modules]
MCNoRefusals == [g \in MCPairs |-> 0]
MCSymmetry == Permutations(Imports)
=============================================================================
