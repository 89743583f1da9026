------------------------------ MODULE Bytecode ------------------------------
(***************************************************************************)
(* The parser, the compiler, the loader and the interpreter against what   *)
(* they promise: the text of a program is read as its syntax tree (Text),  *)
(* the program behaves as the tree means (Meaning), whether it runs as     *)
(* compiled or is written to bytecode and loaded, and the loader's proof   *)
(* about its stack holds while it runs.                                    *)
(***************************************************************************)
EXTENDS Interpreter, Pipeline

CONSTANTS Programs,     \* syntax trees, by name
          Trees,        \* what the parser makes of each one's texts
          Meanings      \* what each means, by the answers of the host

(* Answers are a sequence of at most MaxAnswers.                           *)
Evaluated(ps) ==
    Table([p \in DOMAIN ps |->
        Table([a \in UNION {[1..n -> Answers] : n \in 0..MaxAnswers} |->
            Mean!Outcome(ps[p], Globals, a, MaxFrames)])])

(* The interpreter runs what the compiler makes of the programs.           *)
ASSUME TreesAreReread     == Trees = Rereads(Programs)
ASSUME CodeIsCompiled     == Code = Compiled(Programs)
ASSUME VerifiedIsChecked  == Verified = Checked(Code)
ASSUME MeaningsEvaluated  == Meanings = Evaluated(Programs)

(* Cells are compared by their kind: interpreter and evaluator number them *)
(* each in its own order.                                                  *)
Shape(v)    == IF v[1] \in {"obj", "fn"} THEN <<v[1]>> ELSE v
KindsOf(s)  == [i \in DOMAIN s |-> Shape(s[i])]

(* What the program means, given what the host has answered.               *)
Meant == Meanings[prog][answers]

(* Instruction ip of f lies in a finally block: more blocks begin up to it *)
(* than end before it.                                                     *)
InFinally(f, ip) ==
    LET at(op)  == {i \in DOMAIN f.code : f.code[i].op = op}
        blocks  == {f.code[i].x : i \in at("GOSUB")}
    IN  Cardinality({b \in blocks : b <= ip}) > Cardinality({r \in at("RET_SUB") : r < ip})

---------------------------------------------------------------------------
(* Parsing the text of a program, in each of the ways it can be written    *)
(* down, gives its tree back: operators group by the grammar whatever they *)
(* stand beside, a `{`, a `(` or a name is read for what follows it, and   *)
(* a statement ends with its line only where it must (js_parse_module).    *)
ParsesBack == Trees[prog] = {Programs[prog]}

(* Compiling and interpreting a program is evaluating its tree: it ends    *)
(* the same way, with the same value, and the host has seen the same calls *)
(* (js_compile_ast, run_fiber).                                            *)
MeaningKept ==
    Over /\ ~interrupted =>
        /\ Meant.k = IF status = "done" THEN "normal" ELSE "throw"
        /\ Shape(Meant.v) = Shape(result)
        /\ KindsOf(Meant.log) = KindsOf(log)

(* The loader accepts everything the compiler emits                        *)
(* (js_bytecode_read.c, the worklist's bound on shapes).                   *)
LoaderAccepts == Loads(prog)

(* The operand stack stays within the depth the compiler counted           *)
(* (max_depth of JsFuncState) wherever the program is, except in a finally *)
(* block: that is counted as if it were entered where its try statement    *)
(* begins, and runs above the operands of whatever exit calls it, which    *)
(* may be more than the frame has room for (README, Findings).             *)
DepthCounted ==
    status = "run" /\ ~InFinally(Fun, Frame.ip) =>
        Depth \in 0..(Fun.maxStack - StackSlack)

(* A program whose loops all ask the host comes to an end or waits for the *)
(* host, and one that is interrupted while it runs comes to an end: no     *)
(* jump, handler or return address leads it in a circle.  One that is      *)
(* interrupted while it waits stays as it is (StopKept).                   *)
Halts ==
    /\ status = "run" ~> Over \/ status = "suspended"
    /\ status = "run" /\ interrupted ~> Over
=============================================================================
