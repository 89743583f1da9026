------------------------------ MODULE Pipeline ------------------------------
(***************************************************************************)
(* What becomes of programs, given as syntax trees by name: what the       *)
(* parser makes of their texts, the compiler of them, the loader of the    *)
(* code, and what they mean.                                               *)
(***************************************************************************)
EXTENDS Compiler, Worklist

Src  == INSTANCE Text
Mean == INSTANCE Meaning

(* The same function, as a table that TLC computes once.                   *)
Table(f) == f @@ <<>>

Rereads(ps) == Table([p \in DOMAIN ps |-> Src!Reread(ps[p])])

Compiled(ps) == Table([p \in DOMAIN ps |-> Compile(ps[p])])

Checked(cs) == Table([p \in DOMAIN cs |->
                   Table([i \in DOMAIN cs[p].protos |->
                       VerifyFn(cs[p].protos, i)])])
=============================================================================
