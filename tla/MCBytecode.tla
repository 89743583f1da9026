----------------------------- MODULE MCBytecode -----------------------------
(***************************************************************************)
(* Bytecode with the programs of Topics.                                   *)
(***************************************************************************)
EXTENDS Topics, Bytecode

MCTrees == LET v == TheTrees IN v
MCCode == LET v == TheCode IN v
MCVerified == LET v == TheVerdicts IN v
MCMeanings == LET v == TheMeanings IN v
=============================================================================
