------------------------------- MODULE Topics -------------------------------
(***************************************************************************)
(* Programs for Bytecode.  f is the program's function; h() is 1, 0 or an  *)
(* exception as the host likes; g is a global, which keeps a closure to be *)
(* called when f is done.                                                  *)
(***************************************************************************)
EXTENDS Pipeline, Sentences

V(x)       == Ident(x)
N(n)       == Number(n)
S(s)       == String(s)
Do(x)      == ExprStmt(x)
L(x)       == Do(Call(V("log"), <<x>>))
H          == Call(V("h"), <<>>)
To(x, y)   == Do(Assign("=", V(x), y))
Keep(x)    == To("g", ArrowExpr(<<>>, V(x)))

Main(body) ==
    Module(<<FuncDecl("f", <<>>, Block(body)), L(Call(V("f"), <<>>)),
             If(V("g"), L(Call(V("g"), <<>>)), Nil)>>)

---------------------------------------------------------------------------
(* The ways out of a statement, through the statements it can be in.       *)

Exits == <<Break(""), Continue(""), Break("l"), Continue("l"), Return(N(5)), Throw(H)>>

Around(w, s) ==
    CASE w = "block"  -> Block(<<Let(V("a"), H), Keep("a"), s>>)
      [] w = "while"  -> While(H, Block(<<s, L(S("while"))>>))
      [] w = "do"     -> DoWhile(Block(<<L(S("do")), s>>), H)
      [] w = "for"    -> For(Let(V("i"), N(0)), Binary("<", V("i"), N(2)),
                             Postfix("++", V("i")), Block(<<Keep("i"), s, L(S("for"))>>))
      [] w = "of"     -> ForOf(V("x"), Array(<<N(1), N(2)>>), Block(<<L(V("x")), s>>))
      [] w = "switch" -> Switch(H, <<Case(N(0), <<s>>), Case(Nil, <<L(S("default"))>>)>>)
      [] w = "label"  -> Labeled("l", Block(<<s, L(S("label"))>>))
      [] w = "lwhile" -> Labeled("l", While(H, Block(<<s, L(S("while"))>>)))
      [] w = "catch"  -> Try(Block(<<Throw(H)>>), V("e"), Block(<<L(V("e")), s>>), Nil)
      [] w = "try"    -> Try(Block(<<s, L(S("try"))>>), Nil, Block(<<L(S("catch"))>>), Nil)
      [] w = "tryf"   -> Try(Block(<<s>>), Nil, Nil, Block(<<L(S("finally"))>>))
      [] w = "trycf"  -> Try(Block(<<s>>), V("e"), Block(<<L(V("e")), Return(N(3))>>),
                             Block(<<L(S("finally"))>>))
      [] w = "catchf" -> Try(Block(<<Throw(N(4))>>), Nil, Block(<<s>>),
                             Block(<<L(S("finally"))>>))
      [] w = "final"  -> Try(Block(<<L(S("try"))>>), Nil, Nil, Block(<<s>>))

Loops    == {"while", "do", "for", "of", "lwhile"}
Handlers == {"try", "tryf", "trycf", "catchf", "final"}

(* What the code gets wrong (README, Findings) is kept apart: a break or   *)
(* continue out of a handler, and a block left by an exception while a     *)
(* closure has its variable.                                               *)
Sound(u, w, s) ==
    /\ s.k \in {"BREAK", "CONTINUE"} => w \notin Handlers
    /\ (s.k \in {"BREAK", "CONTINUE"} /\ u \in Handlers) => w \in Loops \cup {"switch", "label"}
    /\ s = Break("") => {u, w} \cap (Loops \cup {"switch"}) # {}
    /\ s = Continue("") => {u, w} \cap Loops # {}
    /\ s.name = "l" => w \in {"label", "lwhile"} /\ (s.k = "CONTINUE" => w = "lwhile")
    /\ u = "trycf" => w \notin {"block", "for"}

Inner == {"block", "while", "do", "for", "of", "switch", "label", "lwhile", "catch",
          "try", "tryf", "trycf", "catchf", "final"}
Nests == ({"of", "tryf", "trycf"} \X Inner) \cup ({"for"} \X {"block", "switch", "lwhile", "tryf"})

Nested(u, w, s) == Main(<<Around(u, Around(w, s)), L(S("after"))>>)

MCExits ==
    [n \in {<<m[1], m[2], i>> : <<m, i>> \in
              {q \in Nests \X DOMAIN Exits : Sound(q[1][1], q[1][2], Exits[q[2]])}}
       |-> Nested(n[1], n[2], Exits[n[3]])]

---------------------------------------------------------------------------
(* Programs for the rest of the language, by what they are about.          *)

A(x, i)   == Index(x, i)
M(x, p)   == Member(x, p)
Func(ps, list) == FuncExpr("", ps, Block(list))
Sum(x, y) == Binary("+", x, y)
P(x)      == Property(x, x)
Plus1(x)  == Sum(x, N(1))

Operators == <<
    L(Binary("===", Sum(H, Binary("*", N(2), N(3))), N(7))),
    L(Sum(S("a"), Sum(N(1), Binary("-", N(5), S("b"))))),
    L(Logical("&&", N(0), N(2))), L(Logical("||", NullLit, N(3))), L(Logical("??", H, This)),
    L(Cond(Unary("!", N(0)), S("yes"), Unary("-", BoolLit(TRUE)))),
    L(Unary("typeof", V("nowhere"))), L(Unary("void", N(1))), L(Unary("+", NullLit)),
    L(Sequence(<<N(1), Binary("<=", N(2), BoolLit(FALSE)), Binary("!=", NullLit, V("undefined"))>>)),
    L(Template(<<S("x"), N(1), S(""), N(2), S("y")>>)),
    L(V("nowhere"))>>

Names == <<
    Lets(<<Declarator(V("a"), N(1)), Declarator(V("b"), Nil)>>),
    L(Postfix("++", V("a"))), L(Prefix("--", V("a"))), L(Assign("+=", V("a"), H)),
    L(Assign("&&=", V("b"), N(4))), L(Assign("||=", V("b"), N(3))), L(Assign("??=", V("b"), N(6))),
    To("g", Func(<<>>, <<L(Prefix("++", V("a"))), L(Assign("*=", V("a"), V("b"))),
                        Keep("a"), Return(Assign("??=", V("b"), N(5)))>>)),
    L(V("a")), Block(<<Let(V("a"), N(7)), L(V("a"))>>),
    Try(Block(<<L(V("c"))>>), V("e"), Block(<<L(V("e"))>>), Nil),
    Const(V("c"), Assign("=", V("undefined"), V("a"))), L(V("c")), L(V("a"))>>

Objects == <<
    Let(V("p"), Object(<<Property(V("x"), N(1)), Property(N(5), H)>>)),
    Let(V("o"), Object(<<Flag(Property(N(1), N(4)), "COMPUTED"), Spread(V("p")), Spread(N(1)),
                         Property(V("y"), Func(<<>>, <<Return(This)>>))>>)),
    L(M(V("o"), "x")), L(A(V("o"), N(1))), L(A(V("o"), N(5))),
    L(Assign("-=", M(V("o"), "x"), N(1))), L(Assign("??=", A(V("o"), S("z")), N(3))),
    L(Assign("||=", M(V("o"), "x"), N(2))), L(Assign("&&=", A(V("o"), S("x")), N(9))),
    L(Postfix("++", M(V("o"), "z"))), L(Prefix("--", A(V("o"), S("z")))),
    L(Postfix("--", A(V("p"), S("none")))), L(M(V("o"), "z")),
    L(Binary("in", S("x"), V("p"))), L(Unary("delete", M(V("p"), "x"))),
    L(Unary("delete", A(V("p"), N(5)))),
    L(Binary("in", S("x"), V("p"))), L(Unary("typeof", Call(M(V("o"), "y"), <<>>))),
    L(Assign("=", M(N(1), "a"), N(2)))>>

Arrays == <<
    Let(V("a"), Array(<<H, Hole, S("c")>>)),
    Let(V("b"), Array(<<N(0), Spread(V("a")), N(8)>>)),
    L(M(V("b"), "length")), L(A(V("b"), N(3))), L(A(V("b"), N(9))),
    Do(Assign("=", A(V("a"), N(4)), N(5))), L(M(V("a"), "length")), L(A(V("a"), N(0))),
    Do(Assign("=", A(V("a"), N(0)), N(6))), L(Binary("in", N(4), V("a"))),
    L(Binary("in", N(5), V("a"))), Do(Unary("delete", A(V("a"), N(0)))), L(A(V("a"), N(0))),
    ForOf(V("x"), V("b"), Block(<<If(Binary("===", V("x"), N(8)),
        Do(Assign("=", A(V("b"), M(V("b"), "length")), N(9))), Nil), L(V("x"))>>)),
    ForOf(V("x"), H, L(V("x")))>>

Lengths == <<
    Let(V("a"), Array(<<N(1), N(2), N(3)>>)),
    Do(Assign("=", M(V("a"), "length"), H)), L(A(V("a"), N(0))), L(A(V("a"), N(1))),
    Do(Assign("=", A(V("a"), S("length")), N(2))), L(M(V("a"), "length")),
    Do(Assign("=", A(V("a"), S("1")), N(7))), L(A(V("a"), N(1))), L(Binary("in", S("1"), V("a"))),
    Do(Unary("delete", A(V("a"), S("1")))), L(A(V("a"), S("1"))),
    Do(Assign("=", M(V("a"), "length"), S("x")))>>

Strings == <<
    L(Binary("<", S("ab"), S("b"))), L(Binary(">", S("a"), S("ab"))),
    L(Binary("<=", S("ab"), S("ab"))), L(Binary(">=", S("ba"), S("ab"))),
    Let(V("s"), S("xyz")), L(A(V("s"), N(1))), L(A(V("s"), S("2"))), L(A(V("s"), N(3))),
    L(M(V("s"), "length")), L(M(V("s"), "none")),
    Let(V("a"), Array(<<N(1), Spread(V("s"))>>)), L(A(V("a"), N(3))),
    Let(ArrayPattern(<<V("p"), Rest(V("r"))>>), V("s")), L(V("p")), L(A(V("r"), N(1))),
    Let(V("o"), Object(<<Spread(V("a")), Spread(S("uv"))>>)),
    L(A(V("o"), N(0))), L(A(V("o"), S("1"))), L(A(V("o"), N(3))),
    ForOf(V("c"), S("hi"), L(V("c"))), Do(Assign("=", A(V("s"), N(0)), N(1)))>>

Patterns == <<
    Let(ArrayPattern(<<V("a"), Hole, Default(V("b"), H), Rest(V("r"))>>),
        Array(<<N(1), N(2), V("undefined"), N(4), N(5)>>)),
    L(V("a")), L(V("b")), L(M(V("r"), "length")),
    Let(ObjectPattern(<<P(V("x")), Property(V("y"), ObjectPattern(<<P(V("z")),
                            Property(V("w"), Default(V("w"), N(6)))>>)),
                        Flag(Property(Sum(S("k"), S("")), V("k")), "COMPUTED"),
                        Property(N(0), V("n"))>>),
        Object(<<Property(V("x"), N(1)), Property(V("k"), N(3)),
                 Property(V("y"), Object(<<Property(V("z"), N(2))>>))>>)),
    L(V("x")), L(V("z")), L(V("w")), L(V("k")), L(V("n")),
    Let(V("o"), Object(<<>>)),
    L(M(Assign("=", ArrayPattern(<<V("a"), M(V("o"), "p"), A(V("o"), S("q"))>>),
               Array(<<V("b"), V("a"), N(7)>>)), "length")),
    L(V("a")), L(M(V("o"), "p")), L(M(V("o"), "q")),
    ForOfTo(M(V("o"), "p"), Array(<<N(1), N(2)>>), L(M(V("o"), "p"))),
    ForOf(ArrayPattern(<<V("i"), V("j")>>), Array(<<Array(<<N(3), N(4)>>)>>), Keep("j")),
    Let(ObjectPattern(<<P(V("u"))>>), NullLit)>>

Calls2 == <<
    Let(V("s"), Func(<<V("a"), Default(V("b"), Plus1(V("a"))), Rest(V("r"))>>,
                    <<L(V("b")), Return(M(V("r"), "length"))>>)),
    L(Call(V("s"), <<N(1)>>)), L(Call(V("s"), <<N(1), N(5), N(6), N(7)>>)),
    L(Call(V("s"), <<N(1), Spread(Array(<<N(2), N(3)>>))>>)), L(Call(V("s"), <<>>)),
    Let(V("t"), Func(<<Default(V("x"), H), ArrayPattern(<<V("y")>>)>>,
                    <<Return(Sum(V("x"), V("y")))>>)),
    L(Call(V("t"), <<V("undefined"), Array(<<N(2)>>)>>)),
    Let(V("n"), N(0)),
    FuncDecl("deep", <<>>, Block(<<Do(Prefix("++", V("n"))), Do(Call(V("deep"), <<>>))>>)),
    Try(Block(<<Do(Call(V("deep"), <<>>))>>), V("e"), Block(<<L(V("e")), L(V("n"))>>), Nil),
    Let(V("o"), Object(<<Property(V("v"), N(3)),
        Property(V("m"), Func(<<>>, <<Return(ArrowExpr(<<>>, M(This, "v")))>>))>>)),
    L(Call(Call(M(V("o"), "m"), <<>>), <<>>)), L(Call(Call(A(V("o"), S("m")), <<>>), <<>>)),
    Let(V("m"), M(V("o"), "m")), To("g", Call(V("m"), <<>>))>>

Constructors == <<
    FuncDecl("K", <<V("x")>>, Block(<<Do(Assign("=", M(This, "x"), V("x"))),
                                       If(V("x"), Return(Object(<<>>)), Nil), Return(N(1))>>)),
    Do(Assign("=", M(A(V("K"), S("prototype")), "y"), N(2))),
    Let(V("k"), New(V("K"), <<N(0)>>)), L(M(V("k"), "x")), L(M(V("k"), "y")),
    Let(V("l"), New(V("K"), <<Spread(Array(<<H>>))>>)), L(M(V("l"), "x")),
    L(M(M(V("K"), "prototype"), "y")), L(New(V("h"), <<>>)),
    Try(Block(<<L(New(ArrowExpr(<<>>, N(1)), <<>>))>>), Nil, Block(<<L(S("no"))>>), Nil),
    L(New(N(1), <<>>))>>

Prototypes == <<
    FuncDecl("K", <<>>, Block(<<>>)),
    L(M(M(V("K"), "prototype"), "constructor")), Let(V("p"), M(V("K"), "prototype")),
    L(Binary("===", M(New(V("K"), <<>>), "constructor"), V("K"))),
    L(M(Assign("=", M(V("K"), "prototype"), Object(<<Property(V("y"), H)>>)), "y")),
    L(M(New(V("K"), <<>>), "y")), L(Assign("=", A(V("K"), S("prototype")), N(5))),
    L(M(New(V("K"), <<>>), "y")), Do(Assign("=", A(V("K"), S("prototype")), V("p"))),
    L(M(New(V("K"), <<>>), "y")), Do(Assign("=", M(V("K"), "y"), N(1)))>>

Chains == <<
    Let(V("o"), Object(<<Property(V("a"), Object(<<Property(V("b"), N(1))>>)),
                         Property(V("m"), Func(<<V("x")>>, <<Return(M(This, "a"))>>))>>)),
    L(M(Optional(M(V("o"), "a")), "b")), L(M(Optional(M(NullLit, "a")), "b")),
    L(Optional(A(V("undefined"), H))), L(M(Optional(M(V("o"), "none")), "b"))>>
(* `o?.m(x)`, `o.none?.(x)` and `n?.m(x)` each end a function of their own. *)
OptionalCalls == <<
    Let(V("o"), Object(<<Property(V("m"), Func(<<V("x")>>, <<Return(V("x"))>>))>>)),
    L(Call(ArrowExpr(<<>>, Call(Optional(M(V("o"), "m")), <<H>>)), <<>>)),
    L(Call(ArrowExpr(<<>>, Optional(Call(M(V("o"), "none"), <<H>>))), <<>>)),
    L(Call(ArrowExpr(<<>>, Optional(Call(V("g"), <<Spread(Array(<<>>))>>))), <<>>)),
    L(Call(ArrowExpr(<<>>, Call(Optional(M(NullLit, "m")), <<H>>)), <<>>)),
    L(Call(V("o"), <<>>))>>

Closures == <<
    Let(V("k"), Array(<<>>)),
    For(Lets(<<Declarator(V("i"), N(0)), Declarator(V("n"), N(2))>>),
        Binary("<", V("i"), V("n")), Prefix("++", V("i")), Block(<<
            If(H, Continue(""), Nil),
            Do(Assign("=", A(V("k"), V("i")), Func(<<>>, <<
                Return(Assign("+=", V("i"), N(10)))>>)))>>)),
    If(A(V("k"), N(0)), Block(<<L(Call(A(V("k"), N(0)), <<>>)),
                                L(Call(A(V("k"), N(0)), <<>>))>>), Nil),
    If(A(V("k"), N(1)), L(Call(A(V("k"), N(1)), <<>>)), Nil),
    Let(V("c"), N(1)),
    Let(V("inc"), Func(<<>>, <<Return(Func(<<>>, <<Return(Prefix("++", V("c")))>>))>>)),
    L(Call(Call(V("inc"), <<>>), <<>>)), L(V("c")), To("g", Call(V("inc"), <<>>)),
    Do(Postfix("++", V("c"))), Try(Block(<<Return(V("c"))>>), Nil, Nil,
                                   Block(<<Do(Postfix("++", V("c")))>>))>>

Cases == <<
    For(Nil, Nil, Nil, Block(<<
        Switch(H, <<Case(N(1), <<Let(V("a"), N(1)), Keep("a"), L(V("a"))>>),
                    Case(Nil, <<To("undefined", NullLit), L(S("default"))>>),
                    Case(N(0), <<L(S("zero")), Break("")>>), Case(N(1), <<Continue("")>>)>>),
        Return(N(6))>>))>>

Awaits == Module(<<
    Let(V("a"), Await(H)), L(V("a")),
    Try(Block(<<L(Sum(V("a"), Await(N(1))))>>), V("e"), Block(<<Throw(V("e"))>>),
        Block(<<L(S("finally"))>>)), Do(V("a"))>>)

MCTopics == [t \in {<<"operators">>} |-> Main(Operators)]
    @@ <<"names">> :> Main(Names) @@ <<"objects">> :> Main(Objects)
    @@ <<"arrays">> :> Main(Arrays) @@ <<"patterns">> :> Main(Patterns)
    @@ <<"lengths">> :> Main(Lengths) @@ <<"strings">> :> Main(Strings)
    @@ <<"prototypes">> :> Main(Prototypes)
    @@ <<"calls">> :> Main(Calls2) @@ <<"constructors">> :> Main(Constructors)
    @@ <<"chains">> :> Main(Chains) @@ <<"optional">> :> Main(OptionalCalls)
    @@ <<"closures">> :> Main(Closures)
    @@ <<"cases">> :> Main(Cases) @@ <<"awaits">> :> Awaits
    @@ <<"grammar">> :> Grammar

MCPrograms == MCExits @@ MCTopics

MCAnswers    == {<<TRUE, Num(1)>>, <<TRUE, Num(0)>>, <<FALSE, Error("h")>>}
MCMaxAnswers == 2
MCMaxFrames  == 4

---------------------------------------------------------------------------
(* What becomes of them.  The values of the constants are named here,      *)
(* where none of the constants is known: TLC evaluates these once.         *)

(* Evaluated (Bytecode) with these constants.                              *)
MCEvaluated(ps) ==
    Table([p \in DOMAIN ps |->
        Table([a \in UNION {[1..n -> MCAnswers] : n \in 0..MCMaxAnswers} |->
            Mean!Outcome(ps[p], Globals, a, MCMaxFrames)])])

TheTrees    == Rereads(MCPrograms)
TheCode     == Compiled(MCPrograms)
TheVerdicts == Checked(TheCode)
TheMeanings == MCEvaluated(MCPrograms)

ASSUME LinksAreRead == Src!Reread(Links) = {Links}

ASSUME EveryProgramCompiles == \A p \in DOMAIN TheCode : ~TheCode[p].failed
=============================================================================
