-------------------------- MODULE MCBytecodeExits --------------------------
(***************************************************************************)
(* MCBytecode's topics, with a break that leaves the body of a try: the    *)
(* exit MCBytecode keeps apart (README, Findings).                         *)
(***************************************************************************)
EXTENDS MCBytecode

(* for (;;) { try { break; } catch (e) { return "stale"; } } throw h();     *)
Left == Main(<<For(Nil, Nil, Nil, Block(<<
                   Try(Block(<<Break("")>>), V("e"), Block(<<Return(S("stale"))>>), Nil)>>)),
               Throw(H)>>)

MCLeft == <<"left">> :> Left @@ MCTopics

TheLeftTrees    == Rereads(MCLeft)
TheLeftCode     == Compiled(MCLeft)
TheLeftVerdicts == Checked(TheLeftCode)
TheLeftMeanings == MCEvaluated(MCLeft)
MCLeftTrees == LET v == TheLeftTrees IN v
MCLeftCode == LET v == TheLeftCode IN v
MCLeftVerified == LET v == TheLeftVerdicts IN v
MCLeftMeanings == LET v == TheLeftMeanings IN v
=============================================================================
