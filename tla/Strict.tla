------------------------------- MODULE Strict -------------------------------
(***************************************************************************)
(* A fold for the modules that compute whole programs at once: the         *)
(* compiler, the loader's worklist and the evaluator of syntax trees.      *)
(***************************************************************************)
EXTENDS Integers, Sequences

(* FoldLeft that has computed each result before it takes the next step,   *)
(* by halves of the list: with FoldLeft TLC keeps the results unevaluated, *)
(* nested in each other as deep as the list is long.                       *)
Through(op(_, _), start, list) ==
    LET RECURSIVE run(_, _, _)
        run(now, i, j) ==
            IF i > j THEN now
            ELSE IF i = j THEN op(now, list[i])
            ELSE LET half == (i + j) \div 2
                 IN  CHOOSE end \in {run(mid, half + 1, j) : mid \in {run(now, i, half)}} : TRUE
    IN  CHOOSE end \in {run(now, 1, Len(list)) : now \in {start}} : TRUE
=============================================================================
