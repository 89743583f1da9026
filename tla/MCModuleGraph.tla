--------------------------- MODULE MCModuleGraph ---------------------------
(* Small instances of ModuleGraph for TLC.                                 *)
EXTENDS ModuleGraph, TLC

CONSTANTS a, b, c

MCModules == {a, b, c}

(* A specifier that does not resolve, and for each module two lists that   *)
(* contain it: chains, diamonds and cycles of one, two and three modules.  *)
(* Synthetic modules have no dependency.                                   *)
MCDepLists == {<<Unresolvable>>, <<a, b>>, <<b, c>>, <<c, a>>}

(* The rotations of the modules, which map MCDepLists to itself.           *)
MCRotation == [m \in MCModules |-> CASE m = a -> b [] m = b -> c [] m = c -> a]

MCRotations == {MCRotation, [m \in MCModules |-> MCRotation[MCRotation[m]]]}

MCSymmetry == MCRotations \cup Permutations(Imports)
=============================================================================
