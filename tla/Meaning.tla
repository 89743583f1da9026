------------------------------ MODULE Meaning ------------------------------
(***************************************************************************)
(* What a program means: a big-step evaluator of syntax trees, the         *)
(* specification the compiler and the interpreter together implement.  It  *)
(* knows nothing of bytecode, slots, handlers or upvalues: a binding is a  *)
(* location of a store, a block makes its own, and every statement ends in *)
(* a completion, which a finally block may replace.                        *)
(*                                                                         *)
(* The host's answers are given in advance; a program that asks for more   *)
(* stops.  A machine m has the store, the heap, the closures, what was     *)
(* logged and how many answers were used.  An environment e has the        *)
(* locations of the names in scope, `this` and the depth of calls.         *)
(***************************************************************************)
EXTENDS Syntax, Values, Strict, SequencesExt

RECURSIVE Eval(_, _, _), Chain(_, _, _), Bind(_, _, _, _), Run(_, _, _),
          Repeat(_, _, _, _), Each(_, _, _, _, _, _), NamesOf(_)

(* The result of evaluating something: a completion and the machine after. *)
Ends(kind, m, v, l) == [k |-> kind, m |-> m, v |-> v, l |-> l]
Ok(m, v)        == Ends("normal", m, v, "")
Throws(m, e)    == Ends("throw", m, e, "")
Then(r, f(_, _)) == IF r.k = "normal" THEN f(r.m, r.v) ELSE r

(* A step for each element of a list; the value is what the steps gather.  *)
InOrder(list, m, v, step(_, _, _)) ==
    Through(LAMBDA r, x : IF r.k = "normal" THEN step(r.m, r.v, x) ELSE r, Ok(m, v), list)
Indices(list) == [i \in DOMAIN list |-> i]

---------------------------------------------------------------------------
(* Names, patterns and scopes.                                             *)

NamesOf(p) ==
    CASE p.k = "IDENT" -> {p.name}
      [] p.k \in {"DEFAULT", "REST"} -> NamesOf(p.a)
      [] p.k = "PROPERTY" -> NamesOf(p.b)
      [] p.k \in {"ARRAY_PATTERN", "OBJECT_PATTERN"} ->
            UNION {NamesOf(p.items[i]) : i \in DOMAIN p.items}
      [] OTHER -> {}

(* New locations for names, all with value v: the environment and machine. *)
Declare(e, m, names, v) ==
    FoldSet(LAMBDA x, d : [e |-> [d.e EXCEPT !.at = (x :> Len(d.m.store) + 1) @@ @],
                           m |-> [d.m EXCEPT !.store = Append(@, v)]],
            [e |-> e, m |-> m], names)

Closure(m, n, e) ==
    Ok([m EXCEPT !.funs = Append(@, [node |-> n, e |-> e, proto |-> 0])],
       Fn(Len(m.funs) + 1))

(* The scope of a list of statements: let and const wait, functions are    *)
(* there from the start.                                                   *)
Scope(e, m, stmts) ==
    LET lets == UNION {IF stmts[i].k # "LET_DECL" THEN {}
                       ELSE UNION {NamesOf(stmts[i].items[j].a) : j \in DOMAIN stmts[i].items}
                       : i \in DOMAIN stmts}
        funs == SelectSeq(stmts, LAMBDA s : s.k = "FUNC_DECL")
        d    == Declare(e, m, lets \cup {funs[i].name : i \in DOMAIN funs}, Tdz)
        def(acc, f) ==
            LET c == Closure(acc, f, d.e)
            IN  [c.m EXCEPT !.store[d.e.at[f.name]] = c.v]
    IN  [e |-> d.e, m |-> Through(def, d.m, funs)]

Read(e, m, x, soft) ==
    IF x \in DOMAIN e.at
    THEN IF m.store[e.at[x]] = Tdz THEN Throws(m, Error("ReferenceError"))
         ELSE Ok(m, m.store[e.at[x]])
    ELSE IF x \in DOMAIN m.globals THEN Ok(m, m.globals[x])
    ELSE IF soft THEN Ok(m, Undefined) ELSE Throws(m, Error("ReferenceError"))

Set(e, m, x, v) ==
    IF x \in DOMAIN e.at THEN Ok([m EXCEPT !.store[e.at[x]] = v], v)
    ELSE IF x \in DOMAIN m.globals THEN Ok([m EXCEPT !.globals[x] = v], v)
    ELSE Throws(m, Error("ReferenceError"))

---------------------------------------------------------------------------
(* Properties and calls.                                                   *)

Get(m, base, key) ==
    CASE IsNullish(base) -> Throws(m, Error("TypeError"))
      [] base[1] = "fn" /\ key = Str("prototype") ->
            IF m.funs[base[2]].proto > 0 THEN Ok(m, Obj(m.funs[base[2]].proto))
            ELSE Ok([m EXCEPT !.heap = Append(@, PrototypeOf(base[2])),
                              !.funs[base[2]].proto = Len(m.heap) + 1], Obj(Len(m.heap) + 1))
      [] OTHER -> Ok(m, GetProperty(m.heap, base, key))

Put2(m, base, key, v) ==
    LET fault == SetFault(m.heap, base, key, v)
    IN  CASE fault # NoError -> Throws(m, fault)
          [] base[1] = "obj" -> Ok([m EXCEPT !.heap = SetProperty(@, base[2], key, v)], v)
          [] v[1] = "obj"    -> Ok([m EXCEPT !.funs[base[2]].proto = v[2]], v)
          [] OTHER           -> Ok(m, v)

NewCell(m, cell) == Ok([m EXCEPT !.heap = Append(@, cell)], Obj(Len(m.heap) + 1))

(* The host answers, or the program stops.                                 *)
Ask(m) ==
    IF m.used = Len(m.given) THEN Ends("stop", m, Undefined, "")
    ELSE LET a == m.given[m.used + 1]
             n == [m EXCEPT !.used = @ + 1]
         IN  IF a[1] THEN Ok(n, a[2]) ELSE Throws(n, a[2])

(* The arguments by position, missing ones undefined, the rest in an array.*)
BindArgs(params, args, e, m) ==
    InOrder(Indices(params), m, Undefined, LAMBDA n, u, i :
        IF params[i].k = "REST"
        THEN Then(NewCell(n, ArrayOf(SubSeq(args, i, Len(args)))),
                  LAMBDA o, v : Bind(params[i].a, v, e, o))
        ELSE Bind(params[i], IF i <= Len(args) THEN args[i] ELSE Undefined, e, n))

Apply(m, depth, f, this, args) ==
    CASE f = <<"native", "log">> ->
            Ok([m EXCEPT !.log = Append(@, IF args = <<>> THEN Undefined ELSE args[1])],
               Undefined)
      [] f = <<"native", "h">> -> Ask(m)
      [] f[1] # "fn"           -> Throws(m, Error("TypeError"))
      [] depth >= m.maxDepth   -> Throws(m, Error("RangeError"))
      [] OTHER ->
            LET n  == m.funs[f[2]].node
                e0 == m.funs[f[2]].e
                e1 == [e0 EXCEPT !.depth = depth + 1,
                                 !.this = IF "ARROW" \in n.flags THEN @ ELSE this]
                d  == Declare(e1, m, UNION {NamesOf(n.items[i]) : i \in DOMAIN n.items},
                              Undefined)
                r  == Then(BindArgs(n.items, args, d.e, d.m), LAMBDA o, u :
                          IF "EXPR_BODY" \in n.flags THEN Eval(n.a, d.e, o)
                          ELSE Run(n.a, d.e, o))
            IN  CASE r.k = "return" -> Ok(r.m, r.v)
                  [] r.k = "normal" /\ "EXPR_BODY" \notin n.flags -> Ok(r.m, Undefined)
                  [] OTHER -> r

MakeNew(m, depth, f, args) ==
    IF f[1] # "fn" THEN Apply(m, depth, f, Undefined, args)
    ELSE IF "ARROW" \in m.funs[f[2]].node.flags THEN Throws(m, Error("TypeError"))
    ELSE IF depth >= m.maxDepth THEN Throws(m, Error("RangeError"))
    ELSE Then(Get(m, f, Str("prototype")), LAMBDA n, p :
         Then(NewCell(n, PlainObject(p)), LAMBDA o, this :
         Then(Apply(o, depth, f, this, args), LAMBDA q, v :
             Ok(q, IF v[1] = "obj" THEN v ELSE this))))

---------------------------------------------------------------------------
(* Expressions.                                                            *)

KeyOf(n, e, m)  == IF "COMPUTED" \in n.flags THEN Eval(n.b, e, m) ELSE Ok(m, Str(n.name))
PropKey(p, e, m) ==
    CASE "COMPUTED" \in p.flags -> Eval(p.a, e, m)
      [] p.a.k = "NUMBER"       -> Ok(m, Num(p.a.num))
      [] OTHER                  -> Ok(m, Str(p.a.name))

(* The values of a list of expressions; a spread gives several.            *)
EvalList(list, e, m) ==
    InOrder(list, m, <<>>, LAMBDA n, acc, x :
        IF x.k = "HOLE" THEN Ok(n, Append(acc, Undefined))
        ELSE Then(Eval(IF x.k = "SPREAD" THEN x.a ELSE x, e, n), LAMBDA q, v :
             IF x.k # "SPREAD" THEN Ok(q, Append(acc, v))
             ELSE IF ~Iterable(q.heap, v) THEN Throws(q, Error("TypeError"))
             ELSE Ok(q, acc \o Elements(q.heap, v))))

EvalProps(list, e, m, o) ==
    InOrder(list, m, o, LAMBDA n, u, p :
        IF p.k = "SPREAD"
        THEN Then(Eval(p.a, e, n), LAMBDA q, v :
             Ok([q EXCEPT !.heap = SpreadInto(@, o[2], v)], o))
        ELSE Then(PropKey(p, e, n), LAMBDA q, key : Then(Eval(p.b, e, q), LAMBDA r, v :
             Then(Put2(r, o, key, v), LAMBDA t, w : Ok(t, o)))))

(* A link of an optional chain: a nullish base ends the whole chain.       *)
Link(n, m, base, f(_, _)) ==
    IF "OPTIONAL" \in n.flags /\ IsNullish(base) THEN Ends("short", m, Undefined, "")
    ELSE f(m, base)

Chain(n, e, m) ==
    CASE n.k = "MEMBER" ->
            Then(Chain(n.a, e, m), LAMBDA q, base : Link(n, q, base, LAMBDA r, b :
            Then(KeyOf(n, e, r), LAMBDA s, key : Get(s, b, key))))
      [] n.k = "CALL" /\ n.a.k = "MEMBER" ->
            Then(Chain(n.a.a, e, m), LAMBDA q, this : Link(n.a, q, this, LAMBDA r, t :
            Then(KeyOf(n.a, e, r), LAMBDA s, key : Then(Get(s, t, key), LAMBDA u, f :
            Link(n, u, f, LAMBDA w, g : Then(EvalList(n.items, e, w), LAMBDA x, args :
            Apply(x, e.depth, g, t, args)))))))
      [] n.k = "CALL" ->
            Then(Chain(n.a, e, m), LAMBDA u, f : Link(n, u, f, LAMBDA w, g :
            Then(EvalList(n.items, e, w), LAMBDA x, args :
            Apply(x, e.depth, g, Undefined, args))))
      [] OTHER -> Eval(n, e, m)

ShortCuts(op, v) ==
    CASE op \in {"&&", "&&="} -> ~ToBoolean(v)
      [] op \in {"||", "||="} -> ToBoolean(v)
      [] OTHER               -> ~IsNullish(v)

(* Read, combine, write: t op= x, where new(m, old) is the value to write. *)
Modify(t, e, m, op, new(_, _)) ==
    IF t.k = "IDENT"
    THEN Then(Read(e, m, t.name, FALSE), LAMBDA n, old :
         IF op \in LogicalAssign /\ ShortCuts(op, old) THEN Ok(n, old)
         ELSE Then(new(n, old), LAMBDA q, v : Set(e, q, t.name, v)))
    ELSE Then(Eval(t.a, e, m), LAMBDA n, base : Then(KeyOf(t, e, n), LAMBDA q, key :
         Then(Get(q, base, key), LAMBDA r, old :
         IF op \in LogicalAssign /\ ShortCuts(op, old) THEN Ok(r, old)
         ELSE Then(new(r, old), LAMBDA s, v : Put2(s, base, key, v)))))

PlainOp == ("+=" :> "+") @@ ("-=" :> "-") @@ ("*=" :> "*")

EvalAssign(n, e, m) ==
    LET t == n.a
    IN  CASE n.op = "=" /\ t.k = "IDENT" ->
               Then(Eval(n.b, e, m), LAMBDA q, v : Set(e, q, t.name, v))
          [] n.op = "=" /\ t.k = "MEMBER" ->
               Then(Eval(t.a, e, m), LAMBDA q, base : Then(KeyOf(t, e, q), LAMBDA r, key :
               Then(Eval(n.b, e, r), LAMBDA s, v : Put2(s, base, key, v))))
          [] n.op = "=" ->
               Then(Eval(n.b, e, m), LAMBDA q, v :
               Then(Bind(t, v, e, q), LAMBDA r, u : Ok(r, v)))
          [] n.op \in LogicalAssign -> Modify(t, e, m, n.op, LAMBDA q, old : Eval(n.b, e, q))
          [] OTHER -> Modify(t, e, m, n.op, LAMBDA q, old :
               Then(Eval(n.b, e, q), LAMBDA r, v : Ok(r, BinaryOp(PlainOp[n.op], old, v))))

EvalUpdate(n, e, m) ==
    LET by(old) == BinaryOp(IF n.op = "++" THEN "+" ELSE "-", ToNumber(old), Num(1))
        r == Modify(n.a, e, m, n.op, LAMBDA q, old : Ok(q, by(old)))
        undo(v) == IF v = NaN THEN NaN ELSE Num(v[2] + (IF n.op = "++" THEN -1 ELSE 1))
    IN  IF "PREFIX" \in n.flags THEN r ELSE Then(r, LAMBDA q, v : Ok(q, undo(v)))

EvalUnary(n, e, m) ==
    CASE n.op = "typeof" /\ n.a.k = "IDENT" ->
            Then(Read(e, m, n.a.name, TRUE), LAMBDA q, v : Ok(q, UnaryOp("typeof", v)))
      [] n.op = "void" -> Then(Eval(n.a, e, m), LAMBDA q, v : Ok(q, Undefined))
      [] n.op = "delete" /\ n.a.k # "MEMBER" ->
            Then(Eval(n.a, e, m), LAMBDA q, v : Ok(q, Bool(TRUE)))
      [] n.op = "delete" ->
            Then(Eval(n.a.a, e, m), LAMBDA q, base : Then(KeyOf(n.a, e, q), LAMBDA r, key :
            IF IsNullish(base) THEN Throws(r, Error("TypeError"))
            ELSE IF base[1] # "obj" THEN Ok(r, Bool(TRUE))
            ELSE Ok([r EXCEPT !.heap = DeleteProperty(@, base[2], key)], Bool(TRUE))))
      [] OTHER -> Then(Eval(n.a, e, m), LAMBDA q, v : Ok(q, UnaryOp(n.op, v)))

EvalBinary(n, e, m) ==
    Then(Eval(n.a, e, m), LAMBDA q, u : Then(Eval(n.b, e, q), LAMBDA r, v :
        IF n.op # "in" THEN Ok(r, BinaryOp(n.op, u, v))
        ELSE IF v[1] # "obj" THEN Throws(r, Error("TypeError"))
        ELSE Ok(r, Bool(HasProperty(r.heap, v[2], u)))))

(* A template: text, and expressions made text.                            *)
EvalTemplate(n, e, m) ==
    InOrder(Indices(n.items), m, Str(""), LAMBDA q, s, i :
        IF i % 2 = 1 THEN Ok(q, Str(s[2] \o n.items[i].name))
        ELSE Then(Eval(n.items[i], e, q), LAMBDA o, v : Ok(o, Str(s[2] \o ToStr(v)))))

Eval(n, e, m) ==
    CASE n.k = "NUMBER"    -> Ok(m, Num(n.num))
      [] n.k = "STRING"    -> Ok(m, Str(n.name))
      [] n.k = "NULL_LIT"  -> Ok(m, Null)
      [] n.k = "BOOL_LIT"  -> Ok(m, Bool("TRUE" \in n.flags))
      [] n.k = "THIS"      -> Ok(m, e.this)
      [] n.k = "IDENT"     -> Read(e, m, n.name, FALSE)
      [] n.k = "TEMPLATE"  -> EvalTemplate(n, e, m)
      [] n.k = "ARRAY"     ->
            Then(EvalList(n.items, e, m), LAMBDA q, vs : NewCell(q, ArrayOf(vs)))
      [] n.k = "OBJECT"    ->
            Then(NewCell(m, PlainObject(Null)), LAMBDA q, o : EvalProps(n.items, e, q, o))
      [] n.k \in {"MEMBER", "CALL"} ->
            LET r == Chain(n, e, m) IN IF r.k = "short" THEN Ok(r.m, Undefined) ELSE r
      [] n.k = "NEW" ->
            Then(Eval(n.a, e, m), LAMBDA q, f : Then(EvalList(n.items, e, q),
            LAMBDA r, args : MakeNew(r, e.depth, f, args)))
      [] n.k = "FUNC_EXPR" -> Closure(m, n, e)
      [] n.k = "SEQUENCE"  ->
            Then(EvalList(n.items, e, m), LAMBDA q, vs : Ok(q, Last(vs)))
      [] n.k = "COND" ->
            Then(Eval(n.a, e, m), LAMBDA q, v : Eval(IF ToBoolean(v) THEN n.b ELSE n.c, e, q))
      [] n.k = "LOGICAL" ->
            Then(Eval(n.a, e, m), LAMBDA q, v :
                IF ShortCuts(n.op, v) THEN Ok(q, v) ELSE Eval(n.b, e, q))
      [] n.k = "BINARY" -> EvalBinary(n, e, m)
      [] n.k = "UNARY"  -> EvalUnary(n, e, m)
      [] n.k = "UPDATE" -> EvalUpdate(n, e, m)
      [] n.k = "ASSIGN" -> EvalAssign(n, e, m)
      [] n.k = "AWAIT"  -> Then(Eval(n.a, e, m), LAMBDA q, v : Ask(q))

---------------------------------------------------------------------------
(* A value is taken apart by a pattern whose names are in scope.           *)

BindElems(list, v, e, m) ==
    InOrder(Indices(list), m, v, LAMBDA n, u, i :
        CASE list[i].k = "HOLE" -> Ok(n, v)
          [] list[i].k = "REST" ->
               LET es == Elements(n.heap, v)
               IN  Then(NewCell(n, ArrayOf(SubSeq(es, i, Len(es)))),
                        LAMBDA q, a : Bind(list[i].a, a, e, q))
          [] OTHER -> Then(Get(n, v, Num(i - 1)), LAMBDA q, x : Bind(list[i], x, e, q)))

BindProps(list, v, e, m) ==
    InOrder(list, m, v, LAMBDA n, u, p :
        Then(PropKey(p, e, n), LAMBDA q, key : Then(Get(q, v, key), LAMBDA r, x :
        Bind(p.b, x, e, r))))

Bind(p, v, e, m) ==
    CASE p.k = "IDENT" -> Set(e, m, p.name, v)
      [] p.k = "MEMBER" ->
            Then(Eval(p.a, e, m), LAMBDA q, base : Then(KeyOf(p, e, q), LAMBDA r, key :
            Put2(r, base, key, v)))
      [] p.k = "DEFAULT" ->
            IF v # Undefined THEN Bind(p.a, v, e, m)
            ELSE Then(Eval(p.b, e, m), LAMBDA q, d : Bind(p.a, d, e, q))
      [] p.k = "ARRAY_PATTERN"  -> BindElems(p.items, v, e, m)
      [] p.k = "OBJECT_PATTERN" -> BindProps(p.items, v, e, m)

---------------------------------------------------------------------------
(* Statements.                                                             *)

RunList(list, e, m) == InOrder(list, m, Undefined, LAMBDA q, u, s : Run(s, e, q))

(* What a loop makes of the completion of its body: go on or be done.      *)
GoesOn(r, label)  == r.k = "normal" \/ (r.k = "continue" /\ r.l \in {"", label})
LoopEnd(r, label) == IF r.k = "break" /\ r.l \in {"", label} THEN Ok(r.m, Undefined) ELSE r

(* A loop with a condition: `while`, the rest of a `do`, and the rest of a *)
(* `for`, whose let bindings are copied for each iteration.                *)
Copied(n, e, m) ==
    IF n.k # "FOR" \/ n.a.k # "LET_DECL" THEN [e |-> e, m |-> m]
    ELSE LET names == UNION {NamesOf(n.a.items[i].a) : i \in DOMAIN n.a.items}
             d == Declare(e, m, names, Undefined)
         IN  [d EXCEPT !.m.store =
                 FoldSet(LAMBDA x, st : [st EXCEPT ![d.e.at[x]] = m.store[e.at[x]]],
                         @, names)]

Repeat(n, label, e, m) ==
    LET test == CASE n.k = "DO_WHILE" -> n.b [] n.k = "FOR" -> n.b [] OTHER -> n.a
        body == CASE n.k = "DO_WHILE" -> n.a [] n.k = "FOR" -> n.d [] OTHER -> n.b
        again(r) ==
            IF ~GoesOn(r, label) THEN LoopEnd(r, label)
            ELSE LET c == Copied(n, e, r.m)
                 IN  Then(IF n.k = "FOR" /\ n.c # Nil THEN Eval(n.c, c.e, c.m)
                          ELSE Ok(c.m, Undefined),
                          LAMBDA q, v : Repeat(n, label, c.e, q))
    IN  Then(IF test = Nil THEN Ok(m, Bool(TRUE)) ELSE Eval(test, e, m), LAMBDA q, v :
            IF ToBoolean(v) THEN again(Run(body, e, q)) ELSE Ok(q, Undefined))

Each(n, label, v, i, e, m) ==
    IF i > Len(Elements(m.heap, v)) THEN Ok(m, Undefined)
    ELSE LET d == IF "DECL" \in n.flags THEN Declare(e, m, NamesOf(n.a), Undefined)
                  ELSE [e |-> e, m |-> m]
             r == Then(Bind(n.a, Elements(m.heap, v)[i], d.e, d.m), LAMBDA q, u :
                      Run(n.c, d.e, q))
         IN  IF GoesOn(r, label) THEN Each(n, label, v, i + 1, e, r.m) ELSE LoopEnd(r, label)

RunLoop(n, label, e, m) ==
    CASE n.k = "WHILE" -> Repeat(n, label, e, m)
      [] n.k = "DO_WHILE" ->
            LET r == Run(n.a, e, m)
            IN  IF GoesOn(r, label) THEN Repeat(n, label, e, r.m) ELSE LoopEnd(r, label)
      [] n.k = "FOR" ->
            LET s == IF n.a.k = "LET_DECL" THEN Scope(e, m, <<n.a>>) ELSE [e |-> e, m |-> m]
            IN  Then(IF n.a = Nil THEN Ok(m, Undefined) ELSE Run(n.a, s.e, s.m),
                     LAMBDA q, v : Repeat(n, label, s.e, q))
      [] n.k = "FOR_OF" ->
            Then(Eval(n.b, e, m), LAMBDA q, v :
                IF ~Iterable(q.heap, v) THEN Throws(q, Error("TypeError"))
                ELSE Each(n, label, v, 1, e, q))

RunSwitch(n, e, m) ==
    LET all == Through(LAMBDA s, k : s \o k.items, <<>>, n.items)
        s   == Scope(e, m, all)
        from(i) == Through(LAMBDA l, k : l \o k.items, <<>>, SubSeq(n.items, i, Len(n.items)))
        default == SelectInSeq(n.items, LAMBDA k : k.a = Nil)
        \* the first case equal to v, then the default, then none
        pick(r, i) ==
            IF r.k # "normal" \/ r.v[2] > 0 \/ n.items[i].a = Nil THEN r
            ELSE Then(Eval(n.items[i].a, s.e, r.m), LAMBDA q, u :
                     Ok(q, <<r.v[1], IF StrictEquals(r.v[1], u) THEN i ELSE 0>>))
        found == Then(Eval(n.a, s.e, s.m), LAMBDA q, v :
                     Through(pick, Ok(q, <<v, 0>>), [i \in DOMAIN n.items |-> i]))
        start(i) == IF i > 0 THEN i ELSE IF default > 0 THEN default ELSE Len(n.items) + 1
        r == Then(found, LAMBDA q, v : RunList(from(start(v[2])), s.e, q))
    IN  LoopEnd(r, "")

(* A completion of the finally block other than the normal one replaces    *)
(* that of the rest.                                                       *)
RunTry(n, e, m) ==
    LET body == Run(n.a, e, m)
        d    == Declare(e, body.m, NamesOf(n.b), Undefined)
        r    == IF body.k = "throw" /\ n.c # Nil
                THEN Then(IF n.b = Nil THEN Ok(body.m, Undefined)
                          ELSE Bind(n.b, body.v, d.e, d.m),
                          LAMBDA q, v : Run(n.c, IF n.b = Nil THEN e ELSE d.e, q))
                ELSE body
        f    == Run(n.d, e, r.m)
    IN  IF n.d = Nil \/ r.k = "stop" THEN r
        ELSE IF f.k = "normal" THEN [r EXCEPT !.m = f.m] ELSE f

Run(n, e, m) ==
    CASE n.k \in {"EMPTY", "FUNC_DECL"} -> Ok(m, Undefined)
      [] n.k = "BLOCK" ->
            LET s == Scope(e, m, n.items) IN RunList(n.items, s.e, s.m)
      [] n.k = "EXPR_STMT" ->
            Then(Eval(n.a, e, m), LAMBDA q, v :
                Ok(IF e.depth = 1 THEN [q EXCEPT !.last = v] ELSE q, v))
      [] n.k = "LET_DECL" ->
            InOrder(n.items, m, Undefined, LAMBDA q, u, d :
                Then(IF d.b = Nil THEN Ok(q, Undefined) ELSE Eval(d.b, e, q), LAMBDA o, v :
                    Bind(d.a, v, e, o)))
      [] n.k = "IF" ->
            Then(Eval(n.a, e, m), LAMBDA q, v :
                IF ToBoolean(v) THEN Run(n.b, e, q)
                ELSE IF n.c = Nil THEN Ok(q, Undefined) ELSE Run(n.c, e, q))
      [] n.k \in {"WHILE", "DO_WHILE", "FOR", "FOR_OF"} -> RunLoop(n, "", e, m)
      [] n.k = "SWITCH"   -> RunSwitch(n, e, m)
      [] n.k = "TRY"      -> RunTry(n, e, m)
      [] n.k = "BREAK"    -> Ends("break", m, Undefined, n.name)
      [] n.k = "CONTINUE" -> Ends("continue", m, Undefined, n.name)
      [] n.k = "RETURN"   ->
            Then(IF n.a = Nil THEN Ok(m, Undefined) ELSE Eval(n.a, e, m), LAMBDA q, v :
                Ends("return", q, v, ""))
      [] n.k = "THROW" -> Then(Eval(n.a, e, m), LAMBDA q, v : Throws(q, v))
      [] n.k = "LABELED" ->
            LET r == IF n.a.k \in {"WHILE", "DO_WHILE", "FOR", "FOR_OF"}
                     THEN RunLoop(n.a, n.name, e, m) ELSE Run(n.a, e, m)
            IN  IF r.k = "break" /\ r.l = n.name THEN Ok(r.m, Undefined) ELSE r

---------------------------------------------------------------------------
(* The outcome of a module, given the host's answers.                      *)

Outcome(module, predefined, given, maxDepth) ==
    LET m0 == [store |-> <<>>, heap |-> <<>>, funs |-> <<>>, globals |-> predefined, log |-> <<>>,
               used |-> 0, given |-> given, maxDepth |-> maxDepth, last |-> Undefined]
        e0 == [at |-> [x \in {} |-> 0], this |-> Undefined, depth |-> 1]
        s  == Scope(e0, m0, module.items)
        r  == RunList(module.items, s.e, s.m)
    IN  [k |-> r.k, v |-> IF r.k = "normal" THEN r.m.last ELSE r.v, log |-> r.m.log,
         used |-> r.m.used]
=============================================================================
