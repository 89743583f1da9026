------------------------------- MODULE Parser -------------------------------
(***************************************************************************)
(* The parser from tokens to syntax trees (frontend/js_parser.c).          *)
(*                                                                         *)
(* The C parser mutates a JsParser; here every operation takes one, p, and *)
(* returns the next, with what it parsed in p.out.  A token has a kind k   *)
(* (IDENT, RESERVED, NUM, STR, TEMPLATE, EOF, or the keyword or punctuator *)
(* itself), a value v, whether a line ended before it, nl, and for a chunk *)
(* of a template whether `${` follows, cont; the `}` that ends a           *)
(* substitution carries the chunk after it, as the lexer rescans it.  Once *)
(* an operation has failed the ones after it do nothing.  Left out: the    *)
(* lexer, regular expressions, import(), and what an error says.           *)
(***************************************************************************)
EXTENDS Syntax

RECURSIVE ParseAssign(_), ParseExpression(_), BindingTarget(_), ToPattern(_, _, _), Unchained(_),
          ParseUnary(_), BinaryRest(_, _, _), NewExpr(_), Accesses(_, _), Chunks(_, _),
          Commas(_, _), ParseBlock(_), ParseStatement(_), Statements(_, _, _),
          Declarators(_, _, _), Clauses(_, _), ModuleItems(_, _)

MaxDepth == 256     \* JS_PARSE_MAX_DEPTH

UnaryOps  == {"delete", "typeof", "void", "!", "~", "+", "-"}
UpdateOps == {"++", "--"}
AssignOps == {"="} \cup CompoundOps \cup LogicalAssign

Keywords == {"await", "break", "case", "catch", "const", "continue", "default", "delete",
             "do", "else", "export", "finally", "for", "function", "if", "import", "in",
             "instanceof", "let", "new", "null", "return", "switch", "this", "throw",
             "true", "false", "try", "typeof", "void", "while"}

(* Names that strict code binds and assigns to nowhere.                    *)
Restricted == {"eval", "arguments"}

Start(toks) ==
    [toks |-> toks, at |-> 1, failed |-> FALSE, out |-> Nil, depth |-> 0,
     inFn |-> FALSE, async |-> TRUE, nesting |-> 0, loops |-> 0, switches |-> 0,
     covers |-> 0, tla |-> FALSE]

---------------------------------------------------------------------------
(* Tokens.                                                                 *)

Tok(p)      == p.toks[p.at]
Peek(p)     == p.toks[IF p.at < Len(p.toks) THEN p.at + 1 ELSE p.at]
Is(p, k)    == ~p.failed /\ Tok(p).k = k
IsIn(p, ks) == ~p.failed /\ Tok(p).k \in ks
Named(p, x) == Is(p, "IDENT") /\ Tok(p).v = x

Fail(p)         == [p EXCEPT !.failed = TRUE]
Require(p, ok)  == IF p.failed \/ ok THEN p ELSE Fail(p)
Give(p, x)      == [p EXCEPT !.out = x]
Advance(p)      == IF p.failed \/ Tok(p).k = "EOF" THEN p ELSE [p EXCEPT !.at = @ + 1]
Expect(p, k)    == IF Is(p, k) THEN Advance(p) ELSE Fail(p)
Accept(p, k)    == IF Is(p, k) THEN Advance(p) ELSE p

(* What the parser gives for p when it gets that far.                      *)
Then(p, q) == IF p.failed THEN p ELSE q

(* enter and leave: nested constructs are bounded.                         *)
Deep(p, parse(_)) ==
    IF p.failed \/ p.depth = MaxDepth THEN Fail(p)
    ELSE LET q == parse([p EXCEPT !.depth = @ + 1]) IN [q EXCEPT !.depth = p.depth]

(* A list up to `close`: items, with a comma between them and after the    *)
(* last unless that is a rest element.  An item that is a hole leaves its  *)
(* comma.                                                                  *)
ListOf(p, close, item(_)) ==
    LET RECURSIVE more(_, _)
        more(q, done) ==
            IF Is(q, close) THEN Give(Advance(q), done)
            ELSE LET r   == item(q)
                     all == Append(done, r.out)
                 IN  Then(q, Then(r,
                       IF r.out.k = "REST" \/ Is(r, close)
                       THEN Give(Expect(r, close), all)
                       ELSE more(Expect(r, ","), all)))
    IN  more(p, <<>>)

(* Automatic semicolon insertion.                                          *)
Semicolon(p) ==
    IF p.failed \/ Is(p, ";") THEN Advance(p)
    ELSE Require(p, Tok(p).k \in {"}", "EOF"} \/ Tok(p).nl)

---------------------------------------------------------------------------
(* Names.                                                                  *)

ParseIdent(p)  == IF Is(p, "IDENT") THEN Give(Advance(p), Ident(Tok(p).v)) ELSE Fail(p)
BindingName(p) == LET q == ParseIdent(p)
                  IN  Then(q, Require(q, q.out.name \notin Restricted))

(* IdentifierName: after a dot and as a key, keywords are names.           *)
NameAny(p) == IF IsIn(p, {"IDENT", "RESERVED"} \cup Keywords)
              THEN Give(Advance(p), Ident(Tok(p).v)) ELSE Fail(p)

(* The key of a property, as the property without its value.               *)
KeyOf(p) ==
    IF Is(p, "[")
    THEN LET q == Expect(ParseAssign(Advance(p)), "]")
         IN  Give(q, Flag(Property(q.out, Nil), "COMPUTED"))
    ELSE LET q == CASE Is(p, "STR") -> Give(Advance(p), String(Tok(p).v))
                    [] Is(p, "NUM") -> Give(Advance(p), Number(Tok(p).v))
                    [] OTHER        -> NameAny(p)
         IN  Give(q, Property(q.out, Nil))

IsName(prop) == "COMPUTED" \notin prop.flags /\ prop.a.k = "IDENT"

---------------------------------------------------------------------------
(* Patterns, in declarations and parameters.                               *)

(* A target just parsed, with the default after it.                        *)
WithDefault(p) ==
    IF Is(p, "=")
    THEN LET q == ParseAssign(Advance(p)) IN Give(q, Default(p.out, q.out))
    ELSE p

BindingElement(p) == WithDefault(BindingTarget(p))

RestOf(p, target(_)) == LET q == target(Advance(p)) IN Give(q, Rest(q.out))

PatternProperty(p) ==
    IF Is(p, "...") THEN RestOf(p, BindingName)
    ELSE LET q     == KeyOf(p)
             value == BindingElement(Expect(q, ":"))
             short == WithDefault(Give(Require(q, /\ Tok(q).k \in {",", "}", "="}
                                                  /\ q.out.a.name \notin Restricted), q.out.a))
         IN  Then(q, IF Is(q, ":") \/ ~IsName(q.out)
                     THEN Give(value, [q.out EXCEPT !.b = value.out])
                     ELSE Give(short, Flag([q.out EXCEPT !.b = short.out], "SHORTHAND")))

PatternElement(p) ==
    CASE Is(p, ",")   -> Give(p, Hole)
      [] Is(p, "...") -> RestOf(p, BindingTarget)
      [] OTHER        -> BindingElement(p)

BindingPattern(p) ==
    LET list == ListOf(Advance(p), IF Is(p, "{") THEN "}" ELSE "]",
                       LAMBDA q : IF Is(p, "{") THEN PatternProperty(q) ELSE PatternElement(q))
    IN  IF IsIn(p, {"{", "["})
        THEN Then(list, Give(list, IF Is(p, "{") THEN ObjectPattern(list.out)
                                   ELSE ArrayPattern(list.out)))
        ELSE BindingName(p)

BindingTarget(p) == Deep(p, BindingPattern)

---------------------------------------------------------------------------
(* An expression that turns out to be a pattern: the left of an assignment *)
(* or of `of`, and the parameters of an arrow function (binding).          *)

(* A name, or an access with no `?.` in its chain.                         *)
Unchained(n) == n.k \in {"MEMBER", "CALL"} => "OPTIONAL" \notin n.flags /\ Unchained(n.a)

SimpleTarget(n) == \/ n.k = "IDENT" /\ n.name \notin Restricted
                   \/ n.k = "MEMBER" /\ Unchained(n)

(* The list of what conv makes of the items, one after the other.          *)
Each(p, items, conv(_, _)) ==
    LET RECURSIVE from(_, _, _)
        from(q, i, done) ==
            IF q.failed \/ i > Len(items) THEN Give(q, done)
            ELSE LET r == conv(q, items[i]) IN from(r, i + 1, Append(done, r.out))
    IN  from(Require(p, \A i \in 1..(Len(items) - 1) : items[i].k # "SPREAD"), 1, <<>>)

RestPattern(p, n, binding) ==
    LET q == ToPattern(p, n.a, binding) IN Give(q, Rest(q.out))

ToPattern(p, n, binding) ==
    LET element(q, el) ==
            CASE el.k = "HOLE"   -> Give(q, el)
              [] el.k = "SPREAD" -> RestPattern(q, el, binding)
              [] OTHER           -> ToPattern(q, el, binding)
        property(q, prop) ==
            LET rest  == RestPattern(q, prop, binding)
                value == ToPattern(q, prop.b, binding)
            IN  CASE prop.k = "SPREAD" ->
                       Then(rest, Require(rest, rest.out.a.k \in {"IDENT", "MEMBER"}))
                  [] {"METHOD", "PROP_ASYNC"} \cap prop.flags # {} -> Fail(q)
                  [] "COVER_INIT" \in prop.flags ->
                       Give(Require(q, binding => prop.b.a.name \notin Restricted),
                            [prop EXCEPT !.flags = @ \ {"COVER_INIT"}])
                  [] OTHER -> Give(value, [prop EXCEPT !.b = value.out])
        bare    == Require(p, "PAREN" \notin n.flags)
        target  == ToPattern(p, n.a, binding)
        list    == Each(bare, n.items, element)
        props   == Each(bare, n.items, property)
        covered == \E i \in DOMAIN n.items : "COVER_INIT" \in n.items[i].flags
    IN  CASE p.failed       -> p
          [] n.k = "IDENT"  -> Give(Require(p, n.name \notin Restricted), n)
          [] n.k = "MEMBER" -> Give(Require(p, ~binding /\ SimpleTarget(n)), n)
          [] n.k = "ASSIGN" -> Give(Require(target, n.op = "="), Default(target.out, n.b))
          [] n.k = "ARRAY"  -> Give(list, ArrayPattern(list.out))
          [] n.k = "OBJECT" ->
                Give(IF covered THEN [props EXCEPT !.covers = @ - 1] ELSE props,
                     ObjectPattern(props.out))
          [] n.k \in {"ARRAY_PATTERN", "OBJECT_PATTERN", "DEFAULT", "REST"} -> Give(p, n)
          [] OTHER -> Fail(p)

---------------------------------------------------------------------------
(* Functions.  The parameters are parsed in the context around them.       *)

Argument(p) ==
    IF Is(p, "...")
    THEN LET q == ParseAssign(Advance(p)) IN Give(q, Spread(q.out))
    ELSE ParseAssign(p)

Arguments(p) == ListOf(Advance(p), ")", Argument)

Params(p) ==
    ListOf(Expect(p, "("), ")",
           LAMBDA q : IF Is(q, "...") THEN RestOf(q, BindingTarget) ELSE BindingElement(q))

InFunction(p, async, parse(_)) ==
    LET q == parse([p EXCEPT !.inFn = TRUE, !.async = async, !.nesting = @ + 1,
                             !.loops = 0, !.switches = 0])
    IN  [q EXCEPT !.inFn = p.inFn, !.async = p.async, !.nesting = p.nesting,
                  !.loops = p.loops, !.switches = p.switches]

AsyncIf(n, async) == IF async THEN Flag(n, "ASYNC") ELSE n

(* From the parameters on; x is the function's name.                       *)
FunctionRest(p, x, async) ==
    LET q == Params(p)
        r == InFunction(q, async, ParseBlock)
    IN  Then(q, Then(r, Give(r, AsyncIf(FuncExpr(x, q.out, r.out), async))))

ParseFunction(p, async, kind) ==
    LET name == BindingName(p)
        q    == IF Is(p, "IDENT") THEN Then(name, FunctionRest(name, name.out.name, async))
                ELSE FunctionRest(Require(p, kind = "FUNC_EXPR"), "", async)
    IN  Then(q, Give(q, [q.out EXCEPT !.k = kind]))

(* At the `=>`, with what stands before it.                                *)
BuildArrow(p, source, async) ==
    LET start  == Advance(Require(p, ~Tok(p).nl))
        param(q, n) == IF n.k = "SPREAD" THEN RestPattern(q, n, TRUE) ELSE ToPattern(q, n, TRUE)
        params == Each(start, IF source.k = "IDENT" THEN <<source>> ELSE source.items, param)
        block  == Is(params, "{")
        body   == InFunction(params, async,
                             LAMBDA q : IF block THEN ParseBlock(q) ELSE ParseAssign(q))
        n      == IF block THEN Arrow(params.out, body.out) ELSE ArrowExpr(params.out, body.out)
    IN  Then(params, Then(body, Give(body, AsyncIf(n, async))))

---------------------------------------------------------------------------
(* `(`: either the parameters of an arrow function or an expression, which *)
(* the token after the `)` decides.                                        *)

ParenCover(p, async) ==
    LET q     == ListOf(Advance(p), ")", Argument)
        flags == (IF async THEN {"COVER_ASYNC"} ELSE {})
                 \cup (IF \E i \in DOMAIN q.out : q.out[i].k = "SPREAD"
                       THEN {"COVER_SPREAD"} ELSE {})
                 \cup (IF q.toks[q.at - 2].k = "," THEN {"COVER_TRAIL"} ELSE {})
    IN  Then(q, Give(q, [Listed("COVER", q.out) EXCEPT !.flags = flags]))

(* A cover that is no arrow function's.                                    *)
Collapse(p) ==
    LET n == p.out
    IN  CASE p.failed \/ n.k # "COVER"    -> p
          [] "COVER_ASYNC" \in n.flags    -> Give(p, Call(Ident("async"), n.items))
          [] n.items = <<>> \/ n.flags # {} -> Fail(p)
          [] Len(n.items) = 1             -> Give(p, Flag(n.items[1], "PAREN"))
          [] OTHER                        -> Give(p, Flag(Sequence(n.items), "PAREN"))

---------------------------------------------------------------------------
(* Literals.                                                               *)

Chunks(p, done) ==
    LET parts == Append(done, String(Tok(p).v))
        q     == ParseExpression(Advance(p))
    IN  IF p.failed THEN p
        ELSE IF ~Tok(p).cont THEN Give(Advance(p), Template(parts))
        ELSE Then(q, Chunks(Require(q, Is(q, "}")), Append(parts, q.out)))

ArrayElement(p) == IF Is(p, ",") THEN Give(p, Hole) ELSE Argument(p)

ArrayLiteral(p) ==
    LET q == ListOf(Advance(p), "]", ArrayElement) IN Then(q, Give(q, Array(q.out)))

(* Whether the name at p is a word before a property's name.               *)
PropNameFollows(p) == Peek(p).k \notin {":", "(", ",", "}", "="}

ObjectProperty(p) ==
    LET async  == Named(p, "async") /\ ~Peek(p).nl /\ PropNameFollows(p)
        q      == KeyOf(IF async THEN Advance(p) ELSE p)
        with(r, flags) == Then(r, Give(r, [q.out EXCEPT !.b = r.out, !.flags = @ \cup flags]))
    IN  CASE Is(p, "...") -> Argument(p)
          [] (Named(p, "get") \/ Named(p, "set")) /\ PropNameFollows(p) -> Fail(p)
          [] q.failed     -> q
          [] Is(q, "(")   -> with(FunctionRest(q, "", async),
                                  {"METHOD"} \cup IF async THEN {"PROP_ASYNC"} ELSE {})
          [] async        -> Fail(q)
          [] Is(q, ":")   -> with(ParseAssign(Advance(q)), {})
          [] IsName(q.out) /\ Is(q, "=") ->
                with(WithDefault(Give(q, q.out.a)), {"SHORTHAND", "COVER_INIT"})
          [] IsName(q.out) -> with(Give(q, q.out.a), {"SHORTHAND"})
          [] OTHER        -> Fail(q)

(* `{a = 1}` is a pattern or an error: it is counted until it is one.      *)
ObjectLiteral(p) ==
    LET q       == ListOf(Advance(p), "}", ObjectProperty)
        covered == \E i \in DOMAIN q.out : "COVER_INIT" \in q.out[i].flags
    IN  Then(q, Give(IF covered THEN [q EXCEPT !.covers = @ + 1] ELSE q, Object(q.out)))

Primary(p) ==
    LET next  == Advance(p)
        async == Named(p, "async") /\ ~Peek(p).nl
        after == Advance(next)
    IN  CASE Is(p, "NUM")      -> Give(next, Number(Tok(p).v))
          [] Is(p, "STR")      -> Give(next, String(Tok(p).v))
          [] Is(p, "TEMPLATE") -> Chunks(p, <<>>)
          [] Is(p, "null")     -> Give(next, NullLit)
          [] IsIn(p, {"true", "false"}) -> Give(next, BoolLit(Is(p, "true")))
          [] Is(p, "this")     -> Give(next, This)
          [] Is(p, "function") -> ParseFunction(next, FALSE, "FUNC_EXPR")
          [] Is(p, "[")        -> ArrayLiteral(p)
          [] Is(p, "{")        -> ObjectLiteral(p)
          [] Is(p, "(")        -> ParenCover(p, FALSE)
          [] async /\ Is(next, "function") -> ParseFunction(after, TRUE, "FUNC_EXPR")
          [] async /\ Is(next, "(")        -> ParenCover(next, TRUE)
          [] async /\ Is(next, "IDENT") /\ Is(after, "=>") ->
                BuildArrow(after, Ident(Tok(next).v), TRUE)
          [] OTHER             -> ParseIdent(p)

---------------------------------------------------------------------------
(* Accesses and calls.  Accesses goes on from p.out; a callee of `new`     *)
(* takes no call and no `?.`.                                              *)

Subscript(p) == Expect(ParseExpression(Advance(p)), "]")

Accesses(p, calls) ==
    LET q    == Collapse(p)
        opt  == Is(q, "?.")
        next == IF opt THEN Advance(q) ELSE q
        go(r, n) == Then(r, Accesses(Give(r, IF opt THEN Optional(n) ELSE n), calls))
        name == NameAny(IF opt THEN next ELSE Advance(q))
        sub  == Subscript(next)
        args == Arguments(next)
    IN  CASE p.failed \/ (calls /\ Is(p, "=>")) -> p
          [] opt /\ ~calls               -> q
          [] q.failed                    -> q
          [] Is(next, "[")               -> go(sub, Index(q.out, sub.out))
          [] calls /\ Is(next, "(")      -> go(args, Call(q.out, args.out))
          [] Is(q, ".") \/ opt           -> go(name, Member(q.out, name.out.name))
          [] calls /\ Is(q, "TEMPLATE")  -> Fail(q)
          [] OTHER                       -> q

(* `new` takes the first arguments after it.                               *)
NewExpr(p) ==
    LET start  == Advance(p)
        callee == Accesses(IF Is(start, "new") THEN Deep(start, NewExpr) ELSE Primary(start), FALSE)
        args   == Arguments(callee)
    IN  IF Is(start, ".") THEN Fail(start)
        ELSE Then(callee, IF Is(callee, "(") THEN Then(args, Give(args, New(callee.out, args.out)))
                          ELSE Give(callee, New(callee.out, <<>>)))

CallMember(p) == Accesses(IF Is(p, "new") THEN NewExpr(p) ELSE Primary(p), TRUE)

---------------------------------------------------------------------------
(* Operators.                                                              *)

UnaryIn(p) ==
    LET op   == Tok(p).k
        x    == ParseUnary(Advance(p))
        post == CallMember(p)
    IN  CASE IsIn(p, UnaryOps) ->
               Then(x, Give(Require(x, op = "delete" => x.out.k = "MEMBER"), Unary(op, x.out)))
          [] IsIn(p, UpdateOps) ->
               Then(x, Give(Require(x, SimpleTarget(x.out)), Prefix(op, x.out)))
          [] Is(p, "await") ->
               IF p.async
               THEN Then(x, Give([x EXCEPT !.tla = @ \/ p.nesting = 0], Await(x.out)))
               ELSE Fail(p)
          [] IsIn(post, UpdateOps) /\ ~Tok(post).nl ->
               Give(Advance(Require(post, SimpleTarget(post.out))),
                    Postfix(Tok(post).k, post.out))
          [] OTHER -> post

ParseUnary(p) == Deep(p, UnaryIn)

(* Binary operators by how tightly they bind, the loosest first.           *)
Levels == <<{"??"}, {"||"}, {"&&"}, {"|"}, {"^"}, {"&"}, {"==", "!=", "===", "!=="},
            {"<", ">", "<=", ">=", "in", "instanceof"}, {"<<", ">>", ">>>"},
            {"+", "-"}, {"*", "/", "%"}, {"**"}>>

BinaryPrec(op) == IF \E i \in DOMAIN Levels : op \in Levels[i]
                  THEN CHOOSE i \in DOMAIN Levels : op \in Levels[i] ELSE 0

Mixes(n, ops) == n.k = "LOGICAL" /\ "PAREN" \notin n.flags /\ n.op \in ops

(* Mutation of BinaryRest: `**` groups to the left.                        *)
BinaryRestLeft(p, left, min) ==
    LET op    == Tok(p).k
        prec  == BinaryPrec(op)
        right == Deep(Advance(p), LAMBDA q :
                     LET u == ParseUnary(q) IN BinaryRest(u, u.out, prec + 1))
    IN  CASE p.failed \/ prec < min -> Give(p, left)
          [] right.failed -> right
          [] OTHER -> BinaryRest(right, IF op \in LogicalOps THEN Logical(op, left, right.out)
                                        ELSE Binary(op, left, right.out), min)

(* `left`, and the operators after it that bind at least as tightly as min.*)
(* `**` groups to the right and takes no unary operator on its left; `??`  *)
(* does not mix with `&&` and `||`.                                        *)
BinaryRest(p, left, min) ==
    LET op    == Tok(p).k
        prec  == BinaryPrec(op)
        right == Deep(Advance(p), LAMBDA q :
                     LET u == ParseUnary(q)
                     IN  BinaryRest(u, u.out, IF op = "**" THEN prec ELSE prec + 1))
        both  == {left, right.out}
        bad   == \/ op = "??" /\ \E n \in both : Mixes(n, {"&&", "||"})
                 \/ op \in {"&&", "||"} /\ \E n \in both : Mixes(n, {"??"})
    IN  CASE p.failed \/ prec < min -> Give(p, left)
          [] \/ op = "instanceof"
             \/ op = "**" /\ left.k \in {"UNARY", "AWAIT"} /\ "PAREN" \notin left.flags -> Fail(p)
          [] right.failed \/ bad -> Fail(right)
          [] OTHER -> BinaryRest(right, IF op \in LogicalOps THEN Logical(op, left, right.out)
                                        ELSE Binary(op, left, right.out), min)

Conditional(p) ==
    LET u    == ParseUnary(p)
        test == BinaryRest(u, u.out, 1)
        yes  == ParseAssign(Advance(test))
        no   == ParseAssign(Expect(yes, ":"))
    IN  IF Is(test, "?")
        THEN Then(yes, Then(no, Give(no, Cond(test.out, yes.out, no.out))))
        ELSE test

AssignIn(p) ==
    LET left   == Conditional(p)
        op     == Tok(left).k
        target == IF op = "=" /\ left.out.k \in {"ARRAY", "OBJECT"}
                  THEN ToPattern(left, left.out, FALSE)
                  ELSE Require(left, SimpleTarget(left.out))
        value  == ParseAssign(Advance(target))
    IN  CASE left.failed -> left
          [] Is(left, "=>") /\ left.out.k \in {"IDENT", "COVER"} /\ "PAREN" \notin left.out.flags ->
                BuildArrow(left, left.out, "COVER_ASYNC" \in left.out.flags)
          [] op \in AssignOps -> Then(target, Then(value, Give(value, Assign(op, target.out, value.out))))
          [] OTHER -> left

ParseAssign(p) == Deep(p, AssignIn)

Commas(p, done) ==
    LET all == Append(done, p.out)
    IN  IF p.failed THEN p
        ELSE IF Is(p, ",") THEN Commas(ParseAssign(Advance(p)), all)
        ELSE IF Len(all) = 1 THEN p ELSE Give(p, Sequence(all))

ParseExpression(p) == Commas(ParseAssign(p), <<>>)

---------------------------------------------------------------------------
(* Statements.                                                             *)

Statements(p, ends, done) ==
    LET q == ParseStatement(p)
    IN  IF p.failed \/ Tok(p).k \in ends \cup {"EOF"} THEN Give(p, done)
        ELSE Then(q, Statements(q, ends, Append(done, q.out)))

BlockIn(p) ==
    LET q == Statements(Expect(p, "{"), {"}"}, <<>>)
    IN  Then(q, Give(Expect(q, "}"), Block(q.out)))

ParseBlock(p) == Deep(p, BlockIn)

(* Declarators after the first target, which is in p.out.                  *)
Declarators(p, const, done) ==
    LET q   == IF Is(p, "=") THEN ParseAssign(Advance(p))
               ELSE Give(Require(p, ~const /\ p.out.k = "IDENT"), Nil)
        all == Append(done, Declarator(p.out, q.out))
    IN  Then(p, Then(q,
            IF Is(q, ",") THEN Declarators(BindingTarget(Advance(q)), const, all)
            ELSE Give(q, IF const THEN Flag(Lets(all), "CONST") ELSE Lets(all))))

VarDecl(p) == Declarators(BindingTarget(Advance(p)), Is(p, "const"), <<>>)

LoopBody(p) ==
    LET q == ParseStatement([p EXCEPT !.loops = @ + 1]) IN [q EXCEPT !.loops = p.loops]

(* From the `of` on; x is what the items are assigned to.                  *)
OfRest(p, n) ==
    LET list == ParseAssign(Advance(p))
        body == LoopBody(Expect(list, ")"))
    IN  Then(list, Then(body, Give(body, [n EXCEPT !.b = list.out, !.c = body.out])))

(* From the first semicolon on.                                            *)
ForRest(p, init) ==
    LET start == Expect(p, ";")
        test  == IF Is(start, ";") THEN Give(start, Nil) ELSE ParseExpression(start)
        next  == Expect(test, ";")
        step  == IF Is(next, ")") THEN Give(next, Nil) ELSE ParseExpression(next)
        body  == LoopBody(Expect(step, ")"))
    IN  Then(body, Give(body, For(init, test.out, step.out, body.out)))

ForStatement(p) ==
    LET start  == Expect(Advance(p), "(")
        const  == Is(start, "const")
        target == BindingTarget(Advance(start))
        flags  == {"DECL"} \cup IF const THEN {"CONST"} ELSE {}
        decl   == Declarators(target, const, <<>>)
        first  == ParseExpression(start)
        to     == ToPattern(first, first.out, FALSE)
    IN  CASE start.failed -> start
          [] IsIn(start, {"let", "const"}) ->
                CASE target.failed -> target
                  [] Named(target, "of") ->
                       OfRest(target, [ForOfTo(target.out, Nil, Nil) EXCEPT !.flags = flags])
                  [] OTHER -> Then(decl, ForRest(decl, decl.out))
          [] Is(start, ";") -> ForRest(start, Nil)
          [] first.failed   -> first
          [] Named(first, "of") -> Then(to, OfRest(to, ForOfTo(to.out, Nil, Nil)))
          [] OTHER          -> ForRest(first, ExprStmt(first.out))

Clauses(p, done) ==
    LET head == IF Is(p, "case") THEN ParseExpression(Advance(p))
                ELSE Give(Expect(Require(p, \A i \in DOMAIN done : done[i].a # Nil), "default"), Nil)
        body == Statements(Expect(head, ":"), {"case", "default", "}"}, <<>>)
    IN  IF Is(p, "}") THEN Give(Advance(p), done)
        ELSE Then(p, Then(head, Then(body, Clauses(body, Append(done, Case(head.out, body.out))))))

SwitchStatement(p) ==
    LET x    == ParseExpression(Expect(Advance(p), "("))
        open == Expect(Expect(x, ")"), "{")
        list == Clauses([open EXCEPT !.switches = @ + 1], <<>>)
    IN  Then(x, Then(list, Give([list EXCEPT !.switches = p.switches], Switch(x.out, list.out))))

TryStatement(p) ==
    LET body    == ParseBlock(Advance(p))
        catches == Is(body, "catch")
        open    == Advance(body)
        name    == IF Is(open, "(") THEN Expect(BindingTarget(Advance(open)), ")")
                   ELSE Give(open, Nil)
        catch   == IF catches THEN ParseBlock(name) ELSE Give(body, Nil)
        final   == IF Is(catch, "finally") THEN ParseBlock(Advance(catch))
                   ELSE Give(Require(catch, catches), Nil)
    IN  Then(body, Then(final, Give(final, Try(body.out, IF catches THEN name.out ELSE Nil,
                                               catch.out, final.out))))

IfStatement(p) ==
    LET test == ParseExpression(Expect(Advance(p), "("))
        yes  == ParseStatement(Expect(test, ")"))
        no   == IF Is(yes, "else") THEN ParseStatement(Advance(yes)) ELSE Give(yes, Nil)
    IN  Then(yes, Then(no, Give(no, If(test.out, yes.out, no.out))))

WhileStatement(p) ==
    LET test == ParseExpression(Expect(Advance(p), "("))
        body == LoopBody(Expect(test, ")"))
    IN  Then(body, Give(body, While(test.out, body.out)))

DoStatement(p) ==
    LET body == LoopBody(Advance(p))
        test == ParseExpression(Expect(Expect(body, "while"), "("))
    IN  Then(test, Give(Accept(Expect(test, ")"), ";"), DoWhile(body.out, test.out)))

(* A label is on the line of its break.  Whether a loop has it is for the  *)
(* compiler to find out.                                                   *)
ExitStatement(p) ==
    LET kind  == IF Is(p, "break") THEN "BREAK" ELSE "CONTINUE"
        next  == Advance(p)
        label == Is(next, "IDENT") /\ ~Tok(next).nl
    IN  IF label THEN Semicolon(Give(Advance(next), Leaf(kind, Tok(next).v)))
        ELSE Semicolon(Give(Require(next, p.loops + (IF kind = "BREAK" THEN p.switches ELSE 0) > 0),
                            Leaf(kind, "")))

ReturnStatement(p) ==
    LET next == Advance(p)
        x    == ParseExpression(next)
    IN  CASE ~p.inFn -> Fail(p)
          [] IsIn(next, {";", "}", "EOF"}) \/ Tok(next).nl -> Semicolon(Give(next, Return(Nil)))
          [] OTHER -> Then(x, Semicolon(Give(x, Return(x.out))))

ThrowStatement(p) ==
    LET next == Advance(p)
        x    == ParseExpression(Require(next, ~Tok(next).nl))
    IN  Then(x, Semicolon(Give(x, Throw(x.out))))

LabeledStatement(p) ==
    LET body == ParseStatement(Advance(Advance(p)))
    IN  Then(body, Give(body, Labeled(Tok(p).v, body.out)))

ExpressionStatement(p) ==
    LET x == ParseExpression(p) IN Then(x, Semicolon(Give(x, ExprStmt(x.out))))

(* `async function`, on one line.                                          *)
AsyncFunction(p) == Named(p, "async") /\ Peek(p).k = "function" /\ ~Peek(p).nl

StatementIn(p) ==
    CASE Is(p, "{")      -> ParseBlock(p)
      [] Is(p, ";")      -> Give(Advance(p), Node("EMPTY"))
      [] IsIn(p, {"let", "const"}) -> Semicolon(VarDecl(p))
      [] Is(p, "if")     -> IfStatement(p)
      [] Is(p, "while")  -> WhileStatement(p)
      [] Is(p, "do")     -> DoStatement(p)
      [] Is(p, "for")    -> ForStatement(p)
      [] Is(p, "switch") -> SwitchStatement(p)
      [] Is(p, "try")    -> TryStatement(p)
      [] IsIn(p, {"break", "continue"}) -> ExitStatement(p)
      [] Is(p, "return") -> ReturnStatement(p)
      [] Is(p, "throw")  -> ThrowStatement(p)
      [] Is(p, "function") -> ParseFunction(Advance(p), FALSE, "FUNC_DECL")
      [] IsIn(p, {"import", "export", "RESERVED"}) -> Fail(p)
      [] AsyncFunction(p) -> ParseFunction(Advance(Advance(p)), TRUE, "FUNC_DECL")
      [] Is(p, "IDENT") /\ Peek(p).k = ":" -> LabeledStatement(p)
      [] OTHER           -> ExpressionStatement(p)

ParseStatement(p) == LET q == Deep(p, StatementIn) IN Require(q, q.covers = 0)

---------------------------------------------------------------------------
(* Imports and exports, at the top of a module.                            *)

(* The module's name, for n.                                               *)
Source(p, n) ==
    LET next == Expect(p, "STR")
        attributes == Tok(next).k \in {"IDENT", "RESERVED"} /\ Tok(next).v \in {"assert", "with"}
    IN  Then(next, Semicolon(Give(Require(next, ~(attributes /\ Peek(next).k = "{")),
                                  [n EXCEPT !.name = Tok(p).v])))

From(p, n) == Source(IF Named(p, "from") THEN Advance(p) ELSE Fail(p), n)

Specifier(kind, x, y, flags) == [Leaf(kind, x) EXCEPT !.name2 = y, !.flags = flags]

(* `x` or `x as y`, with y as alias reads it.                              *)
Renamed(p, kind, alias(_)) ==
    LET x == NameAny(p)
        y == IF Named(x, "as") THEN alias(Advance(x)) ELSE x
    IN  Then(x, Then(y, Give(y, Specifier(kind, x.out.name, y.out.name, {}))))

ImportSpecs(p) ==
    LET ns == BindingName(IF Named(Advance(p), "as") THEN Advance(Advance(p)) ELSE Fail(p))
    IN  IF Is(p, "*") THEN Then(ns, Give(ns, <<Specifier("IMPORT_SPEC", "", ns.out.name, {"NS"})>>))
        ELSE ListOf(Expect(p, "{"), "}", LAMBDA q : Renamed(q, "IMPORT_SPEC", BindingName))

ImportItem(p) ==
    LET start == Advance(p)
        own   == BindingName(start)
        first == <<Specifier("IMPORT_SPEC", "", own.out.name, {"DEFAULT"})>>
        more  == ImportSpecs(Advance(own))
        specs == ImportSpecs(start)
    IN  CASE Is(start, "STR") -> Source(start, Listed("IMPORT", <<>>))
          [] Is(start, "IDENT") ->
                Then(own, IF Is(own, ",")
                          THEN Then(more, From(more, Listed("IMPORT", first \o more.out)))
                          ELSE From(own, Listed("IMPORT", first)))
          [] OTHER -> Then(specs, From(specs, Listed("IMPORT", specs.out)))

FunctionAt(p, kind) ==
    IF AsyncFunction(p) THEN ParseFunction(Advance(Advance(p)), TRUE, kind)
    ELSE ParseFunction(Advance(p), FALSE, kind)

ExportItem(p) ==
    LET start == Advance(p)
        func  == Is(start, "function") \/ AsyncFunction(start)
        body  == Advance(start)
        value == IF Is(body, "function") \/ AsyncFunction(body) THEN FunctionAt(body, "FUNC_EXPR")
                 ELSE Semicolon(ParseAssign(body))
        alias == IF Named(body, "as") THEN NameAny(Advance(body)) ELSE Give(body, Ident(""))
        specs == ListOf(body, "}", LAMBDA q : Renamed(q, "EXPORT_SPEC", NameAny))
        named == Listed("EXPORT_NAMED", specs.out)
        decl  == IF func THEN FunctionAt(start, "FUNC_DECL") ELSE Semicolon(VarDecl(start))
    IN  CASE Is(start, "default") -> Then(value, Give(value, Unop("EXPORT_DEFAULT", value.out)))
          [] Is(start, "*") ->
                Then(alias, From(alias, [Node("EXPORT_ALL") EXCEPT !.name2 = alias.out.name]))
          [] Is(start, "{") ->
                Then(specs, IF Named(specs, "from") THEN From(specs, named)
                            ELSE Semicolon(Give(specs, named)))
          [] func \/ IsIn(start, {"let", "const"}) ->
                Then(decl, Give(decl, Unop("EXPORT_NAMED", decl.out)))
          [] OTHER -> Fail(start)

ModuleItems(p, done) ==
    LET q == CASE Is(p, "import") /\ Peek(p).k \notin {"(", "."} -> ImportItem(p)
               [] Is(p, "export") -> ExportItem(p)
               [] OTHER           -> ParseStatement(p)
    IN  IF p.failed \/ Is(p, "EOF") THEN Give(p, done)
        ELSE Then(q, ModuleItems(Require(q, q.covers = 0), Append(done, q.out)))

(* js_parse_module: the module of the tokens, Nil if they are none.  At its*)
(* top level a module may await.                                           *)
Parse(toks) ==
    LET p == ModuleItems(Start(toks), <<>>)
    IN  CASE p.failed -> Nil
          [] p.tla    -> Flag(Module(p.out), "HAS_TLA")
          [] OTHER    -> Module(p.out)
=============================================================================
