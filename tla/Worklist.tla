------------------------------ MODULE Worklist ------------------------------
(***************************************************************************)
(* The worklist of the loader's second pass, and its verdict on a function *)
(* (runtime/js_bytecode_read.c).                                           *)
(***************************************************************************)
EXTENDS Verifier, Strict

RECURSIVE Explore(_, _)

(* The worklist: the shapes found and the ones whose successors are due.   *)
(* It ends when none is, or one is refused.  Rounds go sixteen at a time.  *)
Settled(f, w) ==
    \/ w.due = {}
    \/ \E s \in w.due : ~ShapeOk(f, s)
    \/ Crowded(w.seen, {s[1] : s \in w.due})

Round(f, w) ==
    IF Settled(f, w) THEN w
    ELSE LET next == UNION {Successors(f, s) : s \in w.due} \ w.seen
         IN  [seen |-> w.seen \cup next, due |-> next]

Explore(f, w) ==
    IF Settled(f, w) THEN w.seen
    ELSE Explore(f, Through(LAMBDA u, i : Round(f, u), w, [i \in 1..16 |-> i]))

Shapes(f) == LET entry == {<<1, 0, 0>>} IN Explore(f, [seen |-> entry, due |-> entry])

(* A function as loaded: what was stored of its stack is never trusted.    *)
VerifyFn(protos, n) ==
    LET f      == protos[n]
        shapes == Shapes(f)
        deep   == CHOOSE d \in 0..(2 * Len(f.code)) :
                      /\ \A s \in shapes : s[2] <= d
                      /\ \E s \in shapes : s[2] = d
        ok     == /\ HeaderOk(f, n = Len(protos))
                  /\ VerifyPass1(protos, f) /\ VerifyPass2(f, shapes)
    IN  [ok |-> ok, shapes |-> shapes, rets |-> GosubRets(f, shapes),
         maxStack |-> IF ok THEN deep + 8 ELSE 0]
=============================================================================
