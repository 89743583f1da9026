------------------------------ MODULE Verifier ------------------------------
(***************************************************************************)
(* What the loader checks of bytecode before it runs                       *)
(* (runtime/js_bytecode_read.c): that headers and operands name things     *)
(* that exist, and that the operand depths and try depths an instruction   *)
(* can be reached at fit it (Worklist finds them).  A function is a record *)
(* as Compiler's Finished builds it; depths count from an empty operand    *)
(* stack.                                                                  *)
(***************************************************************************)
EXTENDS Integers, Sequences, FiniteSets

ShapesPerInstruction == 8      \* JSBC_DEPTHS_PER_OFF
MaxTryDepth          == 256    \* JSBC_MAX_TRY_DEPTH

---------------------------------------------------------------------------
(* The opcodes by what they do to the operand stack (js_op_info).          *)

Pushes  == {"CONST", "UNDEFINED", "NULL", "TRUE", "FALSE", "GET_LOCAL", "GET_GLOBAL",
            "GET_GLOBAL_SOFT", "NEW_OBJECT", "CLOSURE", "GET_UPVAL", "GET_THIS"}
Binary2 == {"+", "-", "*", "/", "%", "**", "===", "!==", "==", "!=", "<", ">", "<=", ">=", "in",
            "&", "|", "^", "<<", ">>", ">>>"}
Unary1  == {"NEG", "POS", "NOT", "BITNOT", "TYPEOF", "TO_STRING", "AWAIT", "GET_PROP_ATOM",
            "SET_LOCAL", "SET_GLOBAL", "SET_UPVAL"}
Jumps   == {"JUMP", "JUMP_IF_FALSE", "JUMP_IF_TRUE", "JF_PEEK", "JT_PEEK", "JNN_PEEK",
            "OPT_CHAIN", "CASE", "ITER_NEXT", "OPT_CALL_CHECK", "TRY_PUSH", "GOSUB"}
Ends    == {"RETURN", "THROW", "RET_SUB"}

(* How deep the stack must be, and how its depth changes, at instruction i.*)
MinIn(i) ==
    CASE i.op \in Binary2 \cup {"DUP2", "SWAP", "CASE", "ARRAY_APPEND", "ARRAY_SPREAD",
              "ARRAY_REST", "OBJ_SPREAD", "GET_PROP", "SET_PROP_ATOM", "DELETE_PROP",
              "ITER_NEXT", "OPT_CALL_CHECK"} -> 2
      [] i.op \in {"ROT3", "DEFINE_PROP", "SET_PROP", "CALL_VARARGS", "NEW_VARARGS"} -> 3
      [] i.op \in {"CALL", "NEW"} -> i.x + 2
      [] i.op = "NEW_ARRAY" -> i.x
      [] i.op \in Pushes \cup {"TDZ", "JUMP", "CLOSE_UPVALS", "TRY_PUSH", "TRY_POP",
              "GOSUB"} -> 0
      [] OTHER -> 1

Delta(i) ==
    CASE i.op \in Pushes \cup {"DUP", "ITER_NEW", "ITER_NEXT"} -> 1
      [] i.op = "DUP2" -> 2
      [] i.op \in Binary2 \cup Ends \cup {"POP", "JUMP_IF_FALSE", "JUMP_IF_TRUE", "CASE",
              "ARRAY_APPEND", "ARRAY_SPREAD", "ARRAY_REST", "OBJ_SPREAD", "GET_PROP",
              "SET_PROP_ATOM", "DELETE_PROP"} -> -1
      [] i.op \in {"DEFINE_PROP", "SET_PROP", "CALL_VARARGS", "NEW_VARARGS"} -> -2
      [] i.op \in {"CALL", "NEW"} -> -(i.x + 1)
      [] i.op = "NEW_ARRAY" -> 1 - i.x
      [] OTHER -> 0

---------------------------------------------------------------------------
(* Pass 1: operands in range and of the right kind.                        *)

(* The header: the rest parameter is the last one, and the root function,  *)
(* which no CLOSURE makes, has no upvalues (load_fn).                      *)
HeaderOk(f, root) ==
    /\ f.params <= f.nLocals
    /\ f.rest => f.params > 0
    /\ root => f.upvals = <<>>

IsString(f, x)   == x \in DOMAIN f.consts /\ f.consts[x][1] = "str"
IsProto(f, x)    == x \in DOMAIN f.consts /\ f.consts[x][1] = "proto"

OperandOk(protos, f, i) ==
    CASE i.op = "CONST" -> i.x \in DOMAIN f.consts
      [] i.op \in {"GET_GLOBAL", "GET_GLOBAL_SOFT", "SET_GLOBAL", "GET_PROP_ATOM",
                   "SET_PROP_ATOM"} -> IsString(f, i.x)
      [] i.op \in {"GET_LOCAL", "SET_LOCAL", "TDZ"} -> i.x < f.nLocals
      [] i.op = "CLOSE_UPVALS" -> i.x <= f.nLocals
      [] i.op \in {"GET_UPVAL", "SET_UPVAL"} -> i.x \in DOMAIN f.upvals
      [] i.op = "CLOSURE" ->
            /\ IsProto(f, i.x)
            /\ LET child == protos[f.consts[i.x][2]]
               IN  \A u \in DOMAIN child.upvals :
                       IF child.upvals[u].fromLocal THEN child.upvals[u].idx < f.nLocals
                       ELSE child.upvals[u].idx \in DOMAIN f.upvals
      [] OTHER -> TRUE

---------------------------------------------------------------------------
(* Pass 2: a shape <<ip, operand depth, try depth>> and the shapes one     *)
(* step away.  A handler is entered with the thrown value pushed and its   *)
(* own entry popped; a finally block is entered at the depth of its call   *)
(* plus the return address, and its end has no successor here.             *)

Successors(f, s) ==
    LET i    == f.code[s[1]]
        d    == s[2]
        t    == s[3]
        tt   == CASE i.op = "TRY_PUSH" -> t + 1 [] i.op = "TRY_POP" -> t - 1 [] OTHER -> t
        next == IF i.op = "GOSUB" THEN <<s[1] + 1, d, t>> ELSE <<s[1] + 1, d + Delta(i), tt>>
        to   == CASE i.op \in {"CASE", "OPT_CALL_CHECK", "ITER_NEXT"} -> d - 2
                  [] i.op \in {"TRY_PUSH", "GOSUB"} -> d + 1
                  [] OTHER -> d + Delta(i)
    IN  CASE i.op \in Ends -> {}
          [] i.op = "JUMP" -> {<<i.x, to, t>>}
          [] i.op \in Jumps \ {"JUMP"} -> {next, <<i.x, to, t>>}
          [] OTHER -> {next}

(* A shape the loader refuses: off the code, below an empty stack, without *)
(* a handler to pop, or too shallow for its instruction.                   *)
ShapeOk(f, s) ==
    /\ s[1] \in DOMAIN f.code
    /\ s[2] >= 0 /\ s[3] \in 0..MaxTryDepth
    /\ s[2] >= MinIn(f.code[s[1]])

Crowded(shapes, ips) ==
    LET depths == {<<s[2], s[3]>> : s \in shapes}
    IN  \E ip \in ips : Cardinality({d \in depths : <<ip, d[1], d[2]>> \in shapes})
                            > ShapesPerInstruction

VerifyPass1(protos, f) == \A i \in DOMAIN f.code : OperandOk(protos, f, f.code[i])

VerifyPass2(f, shapes) ==
    /\ \A s \in shapes : ShapeOk(f, s)
    /\ ~Crowded(shapes, DOMAIN f.code)
    /\ f.code[Len(f.code)].op \in Ends \cup {"JUMP"}

(* The call returns of finally blocks and the depths proved for them: what *)
(* RET_SUB demands of loaded code.                                         *)
GosubRets(f, shapes) ==
    {<<s[1], s[2]>> : s \in {u \in shapes : u[1] > 1 /\ f.code[u[1] - 1].op = "GOSUB"}}

(* What the loader has found of function n when it accepts it: the shapes  *)
(* are all there are, closed under the steps of pass 2.                    *)
Accepted(protos, n, v) ==
    LET f == protos[n]
    IN  /\ HeaderOk(f, n = Len(protos))
        /\ VerifyPass1(protos, f) /\ VerifyPass2(f, v.shapes)
        /\ <<1, 0, 0>> \in v.shapes
        /\ \A s \in v.shapes : Successors(f, s) \subseteq v.shapes
        /\ v.rets = GosubRets(f, v.shapes)
=============================================================================
