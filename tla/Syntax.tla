------------------------------- MODULE Syntax -------------------------------
(***************************************************************************)
(* The syntax tree the parser builds and the compiler walks                *)
(* (frontend/js_syntax.h).  As in the C, every node is the same fat        *)
(* record: a kind, flags, an operator, two names, a number, four children  *)
(* and a list of items.  Source positions are left out.                    *)
(***************************************************************************)
EXTENDS Integers, Sequences, FiniteSets

Nil == [k |-> "NIL"]

Node(kind) ==
    [k |-> kind, name |-> "", name2 |-> "", num |-> 0, op |-> "", flags |-> {},
     a |-> Nil, b |-> Nil, c |-> Nil, d |-> Nil, items |-> <<>>]

Leaf(kind, x)      == [Node(kind) EXCEPT !.name = x]
Unop(kind, x)      == [Node(kind) EXCEPT !.a = x]
Listed(kind, list) == [Node(kind) EXCEPT !.items = list]
Flag(n, f)         == [n EXCEPT !.flags = @ \cup {f}]

---------------------------------------------------------------------------
(* Expressions.                                                            *)

Ident(x)          == Leaf("IDENT", x)
Number(n)         == [Node("NUMBER") EXCEPT !.num = n]
String(s)         == Leaf("STRING", s)
NullLit           == Node("NULL_LIT")
BoolLit(b)        == IF b THEN Flag(Node("BOOL_LIT"), "TRUE") ELSE Node("BOOL_LIT")
This              == Node("THIS")
Hole              == Node("HOLE")
Array(list)       == Listed("ARRAY", list)
Object(props)     == Listed("OBJECT", props)
Property(key, v)  == [Node("PROPERTY") EXCEPT !.a = key, !.b = v]
Spread(x)         == Unop("SPREAD", x)
Template(parts)   == Listed("TEMPLATE", parts)
Member(x, p)      == [Node("MEMBER") EXCEPT !.a = x, !.name = p]
Index(x, i)       == [Flag(Node("MEMBER"), "COMPUTED") EXCEPT !.a = x, !.b = i]
Call(f, args)     == [Node("CALL") EXCEPT !.a = f, !.items = args]
New(f, args)      == [Node("NEW") EXCEPT !.a = f, !.items = args]
Optional(n)       == Flag(n, "OPTIONAL")
Unary(op, x)      == [Node("UNARY") EXCEPT !.op = op, !.a = x]
Prefix(op, x)     == [Flag(Node("UPDATE"), "PREFIX") EXCEPT !.op = op, !.a = x]
Postfix(op, x)    == [Node("UPDATE") EXCEPT !.op = op, !.a = x]
Binary(op, x, y)  == [Node("BINARY") EXCEPT !.op = op, !.a = x, !.b = y]
Logical(op, x, y) == [Node("LOGICAL") EXCEPT !.op = op, !.a = x, !.b = y]
Assign(op, t, x)  == [Node("ASSIGN") EXCEPT !.op = op, !.a = t, !.b = x]
Cond(x, y, z)     == [Node("COND") EXCEPT !.a = x, !.b = y, !.c = z]
Sequence(list)    == Listed("SEQUENCE", list)
Await(x)          == Unop("AWAIT", x)
FuncExpr(f, params, body) ==
    [Node("FUNC_EXPR") EXCEPT !.name = f, !.items = params, !.a = body]
Arrow(params, body) == Flag(FuncExpr("", params, body), "ARROW")
ArrowExpr(params, x) == Flag(Arrow(params, x), "EXPR_BODY")

---------------------------------------------------------------------------
(* Patterns.                                                               *)

ArrayPattern(list)  == Listed("ARRAY_PATTERN", list)
ObjectPattern(list) == Listed("OBJECT_PATTERN", list)
Rest(p)             == Unop("REST", p)
Default(p, x)       == [Node("DEFAULT") EXCEPT !.a = p, !.b = x]

---------------------------------------------------------------------------
(* Statements.                                                             *)

Block(list)       == Listed("BLOCK", list)
ExprStmt(x)       == Unop("EXPR_STMT", x)
Declarator(p, x)  == [Node("DECLARATOR") EXCEPT !.a = p, !.b = x]
Lets(list)        == Listed("LET_DECL", list)
Let(p, x)         == Lets(<<Declarator(p, x)>>)
Const(p, x)       == Flag(Let(p, x), "CONST")
If(x, s, t)       == [Node("IF") EXCEPT !.a = x, !.b = s, !.c = t]
While(x, s)       == [Node("WHILE") EXCEPT !.a = x, !.b = s]
DoWhile(s, x)     == [Node("DO_WHILE") EXCEPT !.a = s, !.b = x]
For(i, x, u, s)   == [Node("FOR") EXCEPT !.a = i, !.b = x, !.c = u, !.d = s]
ForOf(p, x, s)    == [Flag(Node("FOR_OF"), "DECL") EXCEPT !.a = p, !.b = x, !.c = s]
ForOfTo(t, x, s)  == [Node("FOR_OF") EXCEPT !.a = t, !.b = x, !.c = s]
Case(x, list)     == [Node("SWITCH_CASE") EXCEPT !.a = x, !.items = list]
Switch(x, cases)  == [Node("SWITCH") EXCEPT !.a = x, !.items = cases]
Break(l)          == Leaf("BREAK", l)
Continue(l)       == Leaf("CONTINUE", l)
Return(x)         == Unop("RETURN", x)
Throw(x)          == Unop("THROW", x)
Try(s, p, c, f)   == [Node("TRY") EXCEPT !.a = s, !.b = p, !.c = c, !.d = f]
Labeled(l, s)     == [Node("LABELED") EXCEPT !.name = l, !.a = s]
FuncDecl(f, params, body) == [FuncExpr(f, params, body) EXCEPT !.k = "FUNC_DECL"]
Module(list)      == Listed("MODULE", list)

---------------------------------------------------------------------------
(* Operators by class (js_syntax.h, the token kinds; binop_opcode,         *)
(* compound_opcode and logical_peek_op of js_compiler.c).  A compound      *)
(* assignment is the operator and a `=`.                                   *)

BinaryOps     == {"+", "-", "*", "/", "%", "**", "===", "!==", "==", "!=", "<", ">", "<=",
                  ">=", "in", "&", "|", "^", "<<", ">>", ">>>"}
LogicalOps    == {"&&", "||", "??"}
CompoundOps   == {"+=", "-=", "*=", "/=", "%=", "**=", "&=", "|=", "^=", "<<=", ">>=", ">>>="}
LogicalAssign == {"&&=", "||=", "??="}
=============================================================================
