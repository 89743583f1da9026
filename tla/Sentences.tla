------------------------------ MODULE Sentences ------------------------------
(***************************************************************************)
(* A program in which every form of expression stands in every place of    *)
(* every other, each as a statement of its own, in functions nobody calls. *)
(* It is read, compiled and loaded.                                        *)
(***************************************************************************)
EXTENDS Syntax, SequencesExt

LOCAL a == Ident("a")
LOCAL b == Ident("b")
LOCAL p == Ident("p")

LOCAL Asynchronous(n)   == Flag(n, "ASYNC")
LOCAL Method(params, s) == Asynchronous(FuncExpr("", params, Block(<<s>>)))

(* One form for each level of the grammar above the calls, ...             *)
Loose ==
    [i \in 1..12 |->
        LET op == <<"|", "^", "&", "===", "<", "<<", "+", "*", "**", "&&", "||", "??">>[i]
        IN  IF i > 9 THEN Logical(op, a, b) ELSE Binary(op, a, b)]
    \o <<Sequence(<<a, b>>), Assign("=", a, b), Cond(a, b, p), Unary("-", a),
         Unary("delete", Member(a, "p")), Await(a), Prefix("++", a), Postfix("--", a),
         Member(Optional(Member(a, "p")), "p"), New(a, <<>>), ArrowExpr(<<a>>, b),
         Asynchronous(ArrowExpr(<<a>>, b)), Object(<<Property(a, a), Property(String("s"), b)>>)>>

(* ... and for each way of the others to begin.                            *)
Tight ==
    <<a, Number(1), String("s"), This, NullLit, BoolLit(FALSE), Call(a, <<b>>), Member(a, "default"),
      Optional(Call(a, <<>>)), New(Member(a, "p"), <<b>>), Array(<<Hole, a, Hole>>),
      Template(<<String("x")>>), Asynchronous(Arrow(<<a, Rest(b)>>, Block(<<>>))),
      FuncExpr("", <<>>, Block(<<>>)), Asynchronous(FuncExpr("f", <<a>>, Block(<<Return(Nil)>>)))>>

(* The binary operators, the first of each level and the others.           *)
Binaries  == <<"|", "^", "&", "==", "<", "<<", "+", "*", "**">>
Logicals  == <<"&&", "||", "??">>
Siblings  == <<"!=", "===", "!==", ">", "<=", ">=", "in", ">>", ">>>", "-", "/", "%">>
Compounds == <<"+=", "-=", "*=", "/=", "%=", "**=", "&=", "|=", "^=", "<<=", ">>=", ">>>=">>

LOCAL Both(node(_, _, _), ops, x) == [i \in DOMAIN ops |-> node(ops[i], x, x)]

(* The operators that differ in nothing but their code.                    *)
Alternatives(x) ==
    Both(Binary, Siblings, x) \o [i \in DOMAIN Compounds |-> Assign(Compounds[i], a, x)]

(* x in every place that has room for it.                                  *)
Operands(x) ==
    Both(Binary, Binaries, x) \o Both(Logical, Logicals, x)
    \o <<Unary("!", x), Unary("~", Unary("typeof", x)), Await(x), Cond(x, x, x),
         Sequence(<<x, a, x>>)>>

Places(x) ==
    <<Member(x, "p"), Index(x, x), Optional(Index(x, a)), Call(x, <<x, Spread(x)>>),
      Optional(Call(x, <<>>)), New(x, <<x>>), Array(<<x, Hole, Spread(x)>>),
      Object(<<Property(a, x), Property(Number(1), x), Spread(x), Flag(Property(x, a), "COMPUTED")>>),
      Template(<<String("s"), x, String(""), x, String("t")>>),
      Asynchronous(ArrowExpr(<<p, Default(a, x)>>, x)), Method(<<Default(p, x)>>, Throw(x)),
      Assign("=", ArrayPattern(<<a, Default(b, x), Hole, Rest(p)>>), x),
      Assign("=", ObjectPattern(<<Property(a, Default(a, x)), Property(Ident("if"), Index(a, x)),
                                  Flag(Property(x, b), "COMPUTED")>>), x)>>

(* An access to x is assigned to, unless there is a `?.` in it.            *)
Targets(x) ==
    <<Prefix("++", Member(x, "p")), Postfix("--", Index(x, a)), Unary("delete", Member(x, "p")),
      Assign("??=", Index(x, x), x), Assign("=", ArrayPattern(<<Member(x, "p")>>), a)>>

LOCAL Chained(x) == x.k \in {"MEMBER", "CALL"} /\ ("OPTIONAL" \in x.flags \/ "OPTIONAL" \in x.a.flags)

Placed(x) == Places(x) \o IF Chained(x) THEN <<>> ELSE Targets(x)

(* Statements that end in ways that the next line can go on with.          *)
Endings == <<
    ExprStmt(a), ExprStmt(Prefix("--", a)), ExprStmt(Array(<<a>>)), ExprStmt(Call(Sequence(<<a, b>>), <<>>)),
    ExprStmt(Unary("+", a)), ExprStmt(Template(<<String("x")>>)), If(a, ExprStmt(a), ExprStmt(Postfix("++", b))),
    Let(p, Nil), While(a, ExprStmt(b)), DoWhile(ExprStmt(a), b), ExprStmt(Await(a)),
    For(ExprStmt(a), Nil, Nil, Node("EMPTY")), For(Nil, b, Nil, Break("")),
    Flag(ForOf(ArrayPattern(<<a, b>>), p, Continue("")), "CONST"), ForOfTo(ArrayPattern(<<a>>), b, Node("EMPTY")),
    Labeled("a", For(Nil, Nil, Nil, If(a, Break("a"), Continue("a")))),
    Asynchronous(FuncDecl("f", <<ObjectPattern(<<Property(a, Default(a, b))>>)>>, Block(<<
        Return(Nil), Return(a), Return(Object(<<>>)), Throw(b)>>))),
    ExprStmt(Call(Ident("async"), <<a>>)), ExprStmt(Member(Ident("async"), "of")),
    ExprStmt(Object(<<Property(Ident("async"), Ident("async")), Property(Ident("get"), Method(<<>>, Return(a)))>>)),
    ExprStmt(Object(<<Property(Ident("async"), FuncExpr("", <<>>, Block(<<>>)))>>)),
    Try(Block(<<>>), ArrayPattern(<<a>>), Block(<<>>), Nil)>>

(* Every form of import and export.                                        *)
LOCAL Link(kind, x, y, flags)    == [Leaf(kind, x) EXCEPT !.name2 = y, !.flags = flags]
LOCAL Imported(x, y)             == Link("IMPORT_SPEC", x, y, {})
LOCAL Exported(x, y)             == Link("EXPORT_SPEC", x, y, {})
LOCAL From(kind, module, items)  == [Listed(kind, items) EXCEPT !.name = module]
LOCAL Space                      == Link("IMPORT_SPEC", "", "s", {"NS"})
LOCAL Standard                   == Link("IMPORT_SPEC", "", "d", {"DEFAULT"})

Links == Module(<<
    From("IMPORT", "m", <<>>), From("IMPORT", "m", <<Standard>>), From("IMPORT", "m", <<Space>>),
    From("IMPORT", "m", <<Standard, Space>>), From("IMPORT", "m", <<Imported("a", "a")>>),
    From("IMPORT", "m", <<Standard, Imported("default", "b"), Imported("p", "p")>>),
    Link("EXPORT_ALL", "m", "", {}), Link("EXPORT_ALL", "m", "if", {}),
    From("EXPORT_NAMED", "m", <<Exported("a", "b"), Exported("default", "default")>>),
    From("EXPORT_NAMED", "", <<Exported("a", "a"), Exported("b", "if")>>),
    From("EXPORT_NAMED", "", <<>>),
    Unop("EXPORT_NAMED", Lets(<<Declarator(a, b), Declarator(b, Nil)>>)), Unop("EXPORT_NAMED", Const(a, b)),
    Unop("EXPORT_NAMED", FuncDecl("f", <<>>, Block(<<>>))),
    Unop("EXPORT_NAMED", Asynchronous(FuncDecl("f", <<>>, Block(<<ExprStmt(Await(a))>>)))),
    Unop("EXPORT_DEFAULT", Sequence(<<a, b>>)), Unop("EXPORT_DEFAULT", Assign("=", a, b)),
    Unop("EXPORT_DEFAULT", FuncExpr("", <<>>, Block(<<>>))),
    Unop("EXPORT_DEFAULT", Asynchronous(FuncExpr("f", <<>>, Block(<<>>)))),
    ExprStmt(Await(a))>>)

(* A list in functions of at most n statements.                            *)
InFunctions(list, n) ==
    LET part(i) == SubSeq(list, n * i + 1, IF n * i + n < Len(list) THEN n * i + n ELSE Len(list))
    IN  [i \in 1..((Len(list) + n - 1) \div n) |->
            ExprStmt(Asynchronous(FuncExpr("", <<>>, Block(part(i - 1)))))]

Statements(list) == [i \in DOMAIN list |-> ExprStmt(list[i])]

Grammar ==
    LET all == <<Alternatives(Unary("+", Binary("-", a, b)))>>
               \o [i \in DOMAIN Loose |-> Operands(Loose[i]) \o Placed(Loose[i])]
               \o [i \in DOMAIN Tight |-> Placed(Tight[i])]
        functions == FlattenSeq([i \in DOMAIN all |-> InFunctions(Statements(all[i]), 12)])
    IN  Module(InFunctions(functions, 12) \o InFunctions(Endings, 12))
=============================================================================
