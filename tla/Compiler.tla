------------------------------ MODULE Compiler ------------------------------
(***************************************************************************)
(* The compiler from syntax trees to bytecode (frontend/js_compiler.c).    *)
(*                                                                         *)
(* The C compiler mutates a JsCompiler; here every operation takes one, cx,*)
(* and returns the next.  cx.fns is the chain of functions being compiled, *)
(* the innermost last; a finished function moves to cx.protos, where a     *)
(* constant <<"proto", i>> names it.  An instruction is an opcode with two *)
(* operands and occupies one address, so a jump's operand is an index into *)
(* the code.  Constants stay in a pool and instructions name them by index,*)
(* as in the C.  Left out: the REPL's lexical bindings, bindings of module *)
(* exports and imports, regular expressions, import() and source positions.*)
(***************************************************************************)
EXTENDS Syntax, Values, Strict, SequencesExt

RECURSIVE ResolveUpvalue(_, _, _), PatternDeclare(_, _, _, _, _), Expr(_, _),
          PatternStore(_, _, _), Function(_, _), Stmt(_, _), MemberChain(_, _)

NoSlot == -1
StackSlack == 8     \* what a function reserves beyond the depth counted

(* A JsFuncState.  Slots count from 0.  A loop's `exits` are the addresses *)
(* of the jumps to patch to its end, `nexts` those to its continue point.  *)
NewFunction(is_module, is_arrow, slots) ==
    [code |-> <<>>, consts |-> <<>>, locals |-> <<>>, slots |-> slots,
     slotMax |-> slots, scratch |-> NoSlot, depth |-> 0, maxDepth |-> 0,
     loops |-> <<>>, fins |-> <<>>, upvals |-> <<>>, params |-> 0,
     rest |-> FALSE, module |-> is_module, arrow |-> is_arrow]

Cur(cx)    == cx.fns[Len(cx.fns)]
Put(cx, f) == [cx EXCEPT !.fns[Len(cx.fns)] = f]
Fail(cx)   == [cx EXCEPT !.failed = TRUE]
Here(cx)   == Len(Cur(cx).code) + 1
Max2(i, j) == IF i < j THEN j ELSE i

(* c once b is compiled; a failure ends the compilation.                   *)
After(b, c) == IF b.failed THEN b ELSE c

---------------------------------------------------------------------------
(* Emission.  The compiler keeps the depth the operand stack has at the    *)
(* instruction about to be emitted, and the largest depth met.             *)

SetDepth(cx, d) ==
    [cx EXCEPT !.fns[Len(cx.fns)] = [@ EXCEPT !.depth = d, !.maxDepth = Max2(@, d)]]

(* Mutation of EmitWith: the largest depth is not kept.                    *)
EmitUncounted(cx, op, x, y, delta) ==
    [cx EXCEPT !.fns[Len(cx.fns)] =
        [@ EXCEPT !.code = Append(@, [op |-> op, x |-> x, y |-> y]), !.depth = @ + delta]]

EmitWith(cx, op, x, y, delta) ==
    [cx EXCEPT !.fns[Len(cx.fns)] =
        [@ EXCEPT !.code = Append(@, [op |-> op, x |-> x, y |-> y]),
                  !.depth = @ + delta,
                  !.maxDepth = Max2(@, cx.fns[Len(cx.fns)].depth + delta)]]

Emit(cx, op, delta)     == EmitWith(cx, op, 0, 0, delta)
EmitArg(cx, op, x, delta) == EmitWith(cx, op, x, 0, delta)

(* Several instructions without operands: a list of <<opcode, delta>>.     *)
EmitAll(cx, ops) == Through(LAMBDA c, o : Emit(c, o[1], o[2]), cx, ops)

PatchTo(cx, offs, target) ==
    [cx EXCEPT !.fns[Len(cx.fns)].code =
        [i \in DOMAIN @ |-> IF i \in offs THEN [@[i] EXCEPT !.x = target] ELSE @[i]]]
PatchHere(cx, offs) == PatchTo(cx, offs, Here(cx))

(* A constant is in the pool once.                                         *)
WithConst(consts, v) ==
    IF \E i \in DOMAIN consts : consts[i] = v THEN consts ELSE Append(consts, v)
ConstantIndex(f, v) == CHOOSE i \in DOMAIN f.consts : f.consts[i] = v

Constant(cx, v) == [cx EXCEPT !.fns[Len(cx.fns)].consts = WithConst(@, v)]

EmitConst(cx, op, v, y, delta) ==
    LET c == Constant(cx, v)
    IN  After(c, EmitWith(c, op, ConstantIndex(Cur(c), v), y, delta))

Literal(cx, v)       == EmitConst(cx, "CONST", v, 0, 1)
Atom(cx, op, x, delta) == EmitConst(cx, op, Str(x), 0, delta)

---------------------------------------------------------------------------
(* Locals and scopes.                                                      *)

ScopeMark(cx) == [locals |-> Len(Cur(cx).locals), slots |-> Cur(cx).slots]

ScopeLeave(cx, m) ==
    LET gone == SubSeq(Cur(cx).locals, m.locals + 1, Len(Cur(cx).locals))
        c    == Put(cx, [Cur(cx) EXCEPT !.locals = SubSeq(@, 1, m.locals),
                                        !.slots = m.slots,
                                        !.scratch = IF @ >= m.slots THEN NoSlot ELSE @])
    IN  After(cx, IF \E i \in DOMAIN gone : gone[i].captured
                  THEN EmitArg(c, "CLOSE_UPVALS", m.slots, 0) ELSE c)

(* The innermost local of that name; 0 if there is none.                   *)
ResolveLocal(f, x) == SelectLastInSeq(f.locals, LAMBDA l : l.name = x)

TakeSlot(f) == [f EXCEPT !.slots = @ + 1, !.slotMax = Max2(@, f.slots + 1)]

DeclareLocal(cx, x, const, floor) ==
    LET f == Cur(cx)
    IN  IF \E i \in DOMAIN f.locals : i > floor /\ f.locals[i].name = x THEN Fail(cx)
        ELSE Put(cx, [TakeSlot(f) EXCEPT !.locals =
                 Append(@, [name |-> x, slot |-> f.slots, const |-> const,
                            captured |-> FALSE])])

GetScratch(cx) ==
    LET f == Cur(cx)
    IN  IF f.scratch >= 0 THEN cx
        ELSE Put(cx, [TakeSlot(f) EXCEPT !.scratch = f.slots])

---------------------------------------------------------------------------
(* Upvalues.  ResolveUpvalue returns cx with the captures recorded, the    *)
(* index in function `l` of the chain, 0 for a name nobody declares, and   *)
(* whether the binding is constant.                                        *)

UpvalAdd(cx, l, idx, from_local, const) ==
    LET f    == cx.fns[l]
        have == SelectInSeq(f.upvals, LAMBDA u : u.idx = idx /\ u.fromLocal = from_local)
        new  == [idx |-> idx, fromLocal |-> from_local]
    IN  IF have > 0 THEN [cx |-> cx, idx |-> have, const |-> const]
        ELSE [cx  |-> [cx EXCEPT !.fns[l].upvals = Append(@, new)],
              idx |-> Len(f.upvals) + 1, const |-> const]

ResolveUpvalue(cx, l, x) ==
    IF l = 1 THEN [cx |-> cx, idx |-> 0, const |-> FALSE]
    ELSE LET i == ResolveLocal(cx.fns[l-1], x)
         IN  IF i > 0
             THEN UpvalAdd([cx EXCEPT !.fns[l-1].locals[i].captured = TRUE], l,
                           cx.fns[l-1].locals[i].slot, TRUE, cx.fns[l-1].locals[i].const)
             ELSE LET up == ResolveUpvalue(cx, l - 1, x)
                  IN  IF up.idx = 0 THEN up
                      ELSE UpvalAdd(up.cx, l, up.idx, FALSE, up.const)

---------------------------------------------------------------------------
(* Declarations are hoisted to the top of their block: `let` and `const`   *)
(* uninitialized, functions by name.                                       *)

PatternDeclare(cx, pat, const, floor, tdz) ==
    LET many(c, list) ==
            Through(LAMBDA d, p : PatternDeclare(d, p, const, floor, tdz), c, list)
    IN  CASE pat.k = "IDENT" ->
               LET c == DeclareLocal(cx, pat.name, const, floor)
               IN  IF tdz THEN EmitArg(c, "TDZ", Cur(cx).slots, 0) ELSE c
          [] pat.k \in {"DEFAULT", "REST"} -> many(cx, <<pat.a>>)
          [] pat.k = "PROPERTY" -> many(cx, <<pat.b>>)
          [] pat.k = "HOLE" -> cx
          [] OTHER -> many(cx, pat.items)

Prescan(cx, stmts, floor) ==
    Through(LAMBDA c, s :
        CASE s.k = "LET_DECL" ->
               Through(LAMBDA d, decl :
                   PatternDeclare(d, decl.a, "CONST" \in s.flags, floor, TRUE), c, s.items)
          [] s.k = "FUNC_DECL" -> DeclareLocal(c, s.name, FALSE, floor)
          [] OTHER -> c,
        cx, stmts)
---------------------------------------------------------------------------
(* Loops and exits.  `entry` and `cont` are the depths a break and a       *)
(* continue restore; `target` is the continue point, 0 while it is ahead.  *)

LoopPush(cx, is_loop, label, label_only) ==
    LET f == Cur(cx)
    IN  Put(cx, [f EXCEPT !.loops = Append(@,
            [isLoop |-> is_loop, label |-> label, labelOnly |-> label_only,
             entry |-> f.depth, cont |-> f.depth, target |-> 0,
             finFloor |-> Len(f.fins), slot |-> NoSlot, breaks |-> {}, nexts |-> {}])])

Loop(cx)       == Last(Cur(cx).loops)
SetLoop(cx, l) == LET f == Cur(cx) IN Put(cx, [f EXCEPT !.loops = Append(Front(@), l)])

LoopPop(cx) ==
    LET f == Cur(cx)
    IN  Put(PatchHere(cx, Loop(cx).breaks),
            [Cur(PatchHere(cx, Loop(cx).breaks)) EXCEPT !.loops = Front(f.loops)])

FindLoop(cx, label, need_loop) ==
    SelectLastInSeq(Cur(cx).loops, LAMBDA l :
        /\ need_loop => l.isLoop
        /\ IF label = "" THEN ~l.labelOnly ELSE l.label = label)

(* The operands above a depth are popped; the code that follows the jump   *)
(* still has them.                                                         *)
(* Mutation of EmitPopsTo: the operands stay.                              *)
EmitPopsNot(cx, d) == cx

EmitPopsTo(cx, d) ==
    LET f == Cur(cx)
        c == Through(LAMBDA k, i : Emit(k, "POP", -1), cx, [i \in 1..(f.depth - d) |-> i])
    IN  SetDepth(c, f.depth)

(* An exit runs the finally blocks it leaves, innermost first.             *)
FinallyGosubs(cx, floor) ==
    LET n == Len(Cur(cx).fins)
        gosub(c, i) ==
            LET j == n + 1 - i
                e == EmitArg(c, "GOSUB", 0, 0)
            IN  Put(e, [Cur(e) EXCEPT !.fins[j] = @ \cup {Here(c)}])
    IN  Through(gosub, cx, [i \in 1..(n - floor) |-> i])

---------------------------------------------------------------------------
(* Identifiers and member accesses.                                        *)

IdentLoad(cx, x) ==
    LET f  == Cur(cx)
        i  == ResolveLocal(f, x)
        up == ResolveUpvalue(cx, Len(cx.fns), x)
    IN  IF i > 0 THEN EmitArg(cx, "GET_LOCAL", f.locals[i].slot, 1)
        ELSE IF up.idx > 0 THEN EmitArg(up.cx, "GET_UPVAL", up.idx, 1)
        ELSE Atom(cx, "GET_GLOBAL", x, 1)

IdentStore(cx, x) ==
    LET f  == Cur(cx)
        i  == ResolveLocal(f, x)
        up == ResolveUpvalue(cx, Len(cx.fns), x)
    IN  IF i > 0
        THEN IF f.locals[i].const THEN Fail(cx)
             ELSE EmitArg(cx, "SET_LOCAL", f.locals[i].slot, 0)
        ELSE IF up.idx > 0
        THEN IF up.const THEN Fail(cx) ELSE EmitArg(up.cx, "SET_UPVAL", up.idx, 0)
        ELSE Atom(cx, "SET_GLOBAL", x, 0)

Computed(n)      == "COMPUTED" \in n.flags
GetMember(cx, m) == IF Computed(m) THEN Emit(Expr(cx, m.b), "GET_PROP", -1)
                    ELSE Atom(cx, "GET_PROP_ATOM", m.name, 0)
SetMember(cx, m) == IF Computed(m) THEN Emit(cx, "SET_PROP", -2)
                    ELSE Atom(cx, "SET_PROP_ATOM", m.name, -1)

(* The base of an assignment's target, and its key when it is computed.    *)
TargetBase(cx, m) == IF Computed(m) THEN Expr(Expr(cx, m.a), m.b) ELSE Expr(cx, m.a)

(* The base twice: once to read the property, once to write it.            *)
ReadTarget(cx, m) ==
    IF Computed(m)
    THEN EmitAll(TargetBase(cx, m), <<<<"DUP2", 2>>, <<"GET_PROP", -1>>>>)
    ELSE Atom(Emit(TargetBase(cx, m), "DUP", 1), "GET_PROP_ATOM", m.name, 0)

(* A chain of accesses with the jumps of its `?.`, to patch to its end.    *)
OptionalLink(m, n) ==
    IF "OPTIONAL" \in n.flags
    THEN [cx |-> Emit(m.cx, "OPT_CHAIN", 0), opt |-> m.opt \cup {Here(m.cx)}]
    ELSE m

MemberChain(cx, n) ==
    IF n.k # "MEMBER" THEN [cx |-> Expr(cx, n), opt |-> {}]
    ELSE LET m == OptionalLink(MemberChain(cx, n.a), n)
         IN  [cx |-> GetMember(m.cx, n), opt |-> m.opt]

MemberExpr(cx, n) == LET m == MemberChain(cx, n) IN PatchHere(m.cx, m.opt)

---------------------------------------------------------------------------
(* Patterns: the value is on the stack and is consumed.                    *)

(* An undefined value is replaced by the default.                          *)
DefaultValue(cx, x) ==
    LET c == EmitAll(cx, <<<<"DUP", 1>>, <<"UNDEFINED", 1>>, <<"===", -1>>>>)
        d == EmitAll(c, <<<<"JUMP_IF_FALSE", -1>>, <<"POP", -1>>>>)
    IN  After(c, PatchHere(Expr(d, x), {Here(c)}))

StoreTarget(cx, x, declaring) ==
    LET f == Cur(cx)
    IN  Emit(IF declaring
             THEN EmitArg(cx, "SET_LOCAL", f.locals[ResolveLocal(f, x)].slot, 0)
             ELSE IdentStore(cx, x), "POP", -1)

Key(cx, p) == CASE Computed(p)        -> Expr(cx, p.a)
                [] p.a.k = "NUMBER"   -> Literal(cx, Num(p.a.num))
                [] OTHER              -> Literal(cx, Str(p.a.name))

PatternStore(cx, pat, declaring) ==
    LET element(c, i) ==
            LET el == pat.items[i]
                e  == Literal(Emit(c, "DUP", 1), Num(i - 1))
            IN  CASE el.k = "REST" -> PatternStore(Emit(e, "ARRAY_REST", -1), el.a, declaring)
                  [] el.k = "HOLE" -> c
                  [] OTHER -> PatternStore(Emit(e, "GET_PROP", -1), el, declaring)
        property(c, p) ==
            LET d == Emit(c, "DUP", 1)
            IN  IF p.k = "REST" THEN Fail(c)
                ELSE PatternStore(
                    IF Computed(p) \/ p.a.k = "NUMBER" THEN Emit(Key(d, p), "GET_PROP", -1)
                    ELSE Atom(d, "GET_PROP_ATOM", p.a.name, 0), p.b, declaring)
    IN  CASE pat.k = "IDENT" -> StoreTarget(cx, pat.name, declaring)
          [] pat.k = "MEMBER" ->
               IF declaring THEN Fail(cx)
               ELSE Emit(SetMember(Emit(TargetBase(cx, pat),
                                        IF Computed(pat) THEN "ROT3" ELSE "SWAP", 0), pat),
                         "POP", -1)
          [] pat.k = "DEFAULT" -> PatternStore(DefaultValue(cx, pat.b), pat.a, declaring)
          [] pat.k = "ARRAY_PATTERN" ->
               Emit(Through(element, cx, [i \in DOMAIN pat.items |-> i]), "POP", -1)
          [] pat.k = "OBJECT_PATTERN" -> Emit(Through(property, cx, pat.items), "POP", -1)
          [] OTHER -> Fail(cx)

---------------------------------------------------------------------------
(* Assignments and updates.                                                *)

PeekJump(op) == CASE op \in {"&&", "&&="} -> "JF_PEEK"
              [] op \in {"||", "||="} -> "JT_PEEK"
              [] OTHER               -> "JNN_PEEK"

(* The operator of a compound assignment.                                  *)
Plain == ("+=" :> "+") @@ ("-=" :> "-") @@ ("*=" :> "*") @@ ("/=" :> "/") @@ ("%=" :> "%")
    @@ ("**=" :> "**") @@ ("&=" :> "&") @@ ("|=" :> "|") @@ ("^=" :> "^") @@ ("<<=" :> "<<")
    @@ (">>=" :> ">>") @@ (">>>=" :> ">>>")

LogicalAssignment(cx, op, t, x) ==
    IF t.k = "IDENT"
    THEN LET c == IdentLoad(cx, t.name)
             d == EmitAll(c, <<<<PeekJump(op), 0>>, <<"POP", -1>>>>)
         IN  After(c, PatchHere(IdentStore(Expr(d, x), t.name), {Here(c)}))
    ELSE LET c    == ReadTarget(cx, t)
             d    == EmitAll(c, <<<<PeekJump(op), 0>>, <<"POP", -1>>>>)
             set  == SetMember(Expr(d, x), t)
             over == Emit(set, "JUMP", 0)
             \* short circuit: the value is on top of the base (and the key)
             keep == PatchHere(SetDepth(over, Cur(c).depth), {Here(c)})
             drop == IF Computed(t)
                     THEN <<<<"ROT3", 0>>, <<"POP", -1>>, <<"SWAP", 0>>, <<"POP", -1>>>>
                     ELSE <<<<"SWAP", 0>>, <<"POP", -1>>>>
         IN  After(c, After(set, PatchHere(EmitAll(keep, drop), {Here(set)})))

Assignment(cx, op, t, x) ==
    CASE op = "=" /\ t.k = "IDENT"  -> IdentStore(Expr(cx, x), t.name)
      [] op = "=" /\ t.k = "MEMBER" -> SetMember(Expr(TargetBase(cx, t), x), t)
      [] op = "=" -> PatternStore(Emit(Expr(cx, x), "DUP", 1), t, FALSE)
      [] t.k \notin {"IDENT", "MEMBER"} -> Fail(cx)
      [] op \in LogicalAssign -> LogicalAssignment(cx, op, t, x)
      [] t.k = "IDENT" ->
            IdentStore(Emit(Expr(IdentLoad(cx, t.name), x), Plain[op], -1), t.name)
      [] OTHER -> SetMember(Emit(Expr(ReadTarget(cx, t), x), Plain[op], -1), t)

(* The old value of a postfix update of a property waits in a scratch slot.*)
Update(cx, op, t, prefix) ==
    LET arith == IF op = "++" THEN "+" ELSE "-"
        step(c) == Emit(Literal(c, Num(1)), arith, -1)
        old  == Emit(ReadTarget(cx, t), "POS", 0)
        kept == GetScratch(old)
        slot == Cur(kept).scratch
        var  == Emit(IdentLoad(cx, t.name), "POS", 0)
    IN  CASE t.k = "IDENT" /\ prefix -> IdentStore(step(var), t.name)
          [] t.k = "IDENT" -> Emit(IdentStore(step(Emit(var, "DUP", 1)), t.name), "POP", -1)
          [] t.k # "MEMBER" -> Fail(cx)
          [] prefix -> SetMember(step(old), t)
          [] OTHER -> EmitArg(Emit(SetMember(step(EmitArg(kept, "SET_LOCAL", slot, 0)), t),
                                   "POP", -1), "GET_LOCAL", slot, 1)

---------------------------------------------------------------------------
(* Literals and calls.                                                     *)

(* An array is built an element at a time.                                 *)
ArrayElements(cx, list) ==
    Through(LAMBDA c, el :
        CASE el.k = "HOLE"   -> EmitAll(c, <<<<"UNDEFINED", 1>>, <<"ARRAY_APPEND", -1>>>>)
          [] el.k = "SPREAD" -> Emit(Expr(c, el.a), "ARRAY_SPREAD", -1)
          [] OTHER           -> Emit(Expr(c, el), "ARRAY_APPEND", -1),
        EmitArg(cx, "NEW_ARRAY", 0, 1), list)

ObjectProperties(cx, list) ==
    Through(LAMBDA c, p :
        IF p.k = "SPREAD" THEN Emit(Expr(c, p.a), "OBJ_SPREAD", -1)
        ELSE Emit(Expr(Key(c, p), p.b), "DEFINE_PROP", -2),
        Emit(cx, "NEW_OBJECT", 1), list)

(* Text at the odd positions, expressions between them.                    *)
TemplateParts(cx, parts) ==
    Through(LAMBDA c, i :
        IF i % 2 = 0
        THEN EmitAll(Expr(c, parts[i]), <<<<"TO_STRING", 0>>, <<"+", -1>>>>)
        ELSE IF parts[i].name = "" THEN c
        ELSE Emit(Literal(c, Str(parts[i].name)), "+", -1),
        Literal(cx, Str(parts[1].name)), [i \in 1..(Len(parts) - 1) |-> i + 1])

(* With a spread among them the arguments are passed as one array.         *)
HasSpread(args) == \E i \in DOMAIN args : args[i].k = "SPREAD"

Arguments(cx, op, args) ==
    IF HasSpread(args) THEN Emit(ArrayElements(cx, args), op \o "_VARARGS", -2)
    ELSE EmitArg(Through(LAMBDA c, a : Expr(c, a), cx, args), op, Len(args),
                 -(1 + Len(args)))

Invocation(cx, n) ==
    LET callee == n.a
        recv   == OptionalLink(MemberChain(cx, callee.a), callee)
        fun    == MemberChain(cx, callee)
        m == IF callee.k = "MEMBER"
             THEN [recv EXCEPT !.cx = Emit(GetMember(Emit(recv.cx, "DUP", 1), callee), "SWAP", 0)]
             ELSE [fun EXCEPT !.cx = Emit(fun.cx, "UNDEFINED", 1)]
        asked == Emit(m.cx, "OPT_CALL_CHECK", 0)
        done  == Arguments(asked, "CALL", n.items)
        over  == Emit(done, "JUMP", 0)
        none  == Emit(PatchHere(over, {Here(m.cx)}), "UNDEFINED", 1)
        both  == PatchHere(SetDepth(none, Cur(none).depth - 1), {Here(done)})
    IN  After(m.cx,
            IF "OPTIONAL" \in n.flags
            THEN After(done, PatchHere(SetDepth(both, Cur(both).depth + 1), m.opt))
            ELSE PatchHere(Arguments(m.cx, "CALL", n.items), m.opt))
---------------------------------------------------------------------------
(* Expressions.                                                            *)

UnaryOpcode == ("-" :> "NEG") @@ ("+" :> "POS") @@ ("!" :> "NOT") @@ ("~" :> "BITNOT")

TypeofExpr(cx, x) ==
    LET unbound == /\ x.k = "IDENT" /\ ResolveLocal(Cur(cx), x.name) = 0
                   /\ ResolveUpvalue(cx, Len(cx.fns), x.name).idx = 0
    IN  Emit(IF unbound THEN Atom(cx, "GET_GLOBAL_SOFT", x.name, 1) ELSE Expr(cx, x),
             "TYPEOF", 0)

DeleteExpr(cx, x) ==
    CASE x.k # "MEMBER" -> EmitAll(Expr(cx, x), <<<<"POP", -1>>, <<"TRUE", 1>>>>)
      [] "OPTIONAL" \in x.flags -> Fail(cx)
      [] OTHER -> Emit(IF Computed(x) THEN TargetBase(cx, x)
                       ELSE Literal(TargetBase(cx, x), Str(x.name)), "DELETE_PROP", -1)

Expr(cx, n) ==
    CASE cx.failed         -> cx
      [] n.k = "NUMBER"    -> Literal(cx, Num(n.num))
      [] n.k = "STRING"    -> Literal(cx, Str(n.name))
      [] n.k = "NULL_LIT"  -> Emit(cx, "NULL", 1)
      [] n.k = "BOOL_LIT"  -> Emit(cx, IF "TRUE" \in n.flags THEN "TRUE" ELSE "FALSE", 1)
      [] n.k = "THIS"      -> Emit(cx, "GET_THIS", 1)
      [] n.k = "IDENT"     -> IdentLoad(cx, n.name)
      [] n.k = "TEMPLATE"  -> TemplateParts(cx, n.items)
      [] n.k = "ARRAY"     -> ArrayElements(cx, n.items)
      [] n.k = "OBJECT"    -> ObjectProperties(cx, n.items)
      [] n.k = "MEMBER"    -> MemberExpr(cx, n)
      [] n.k = "CALL"      -> Invocation(cx, n)
      [] n.k = "NEW"       -> Arguments(Emit(Expr(cx, n.a), "UNDEFINED", 1), "NEW", n.items)
      [] n.k = "FUNC_EXPR" -> Function(cx, n)
      [] n.k = "SEQUENCE"  ->
            Through(LAMBDA c, x : Expr(Emit(c, "POP", -1), x), Expr(cx, Head(n.items)),
                     Tail(n.items))
      [] n.k = "COND" ->
            LET test == Expr(cx, n.a)
                yes  == Expr(Emit(test, "JUMP_IF_FALSE", -1), n.b)
                no   == SetDepth(Emit(yes, "JUMP", 0), Cur(cx).depth)
            IN  After(test, After(yes,
                    PatchHere(Expr(PatchHere(no, {Here(test)}), n.c), {Here(yes)})))
      [] n.k = "LOGICAL" ->
            LET c == Expr(cx, n.a)
                d == EmitAll(c, <<<<PeekJump(n.op), 0>>, <<"POP", -1>>>>)
            IN  After(c, PatchHere(Expr(d, n.b), {Here(c)}))
      [] n.k = "BINARY" ->
            LET left == Expr(cx, n.a) IN After(left, Emit(Expr(left, n.b), n.op, -1))
      [] n.k = "UNARY" /\ n.op \in DOMAIN UnaryOpcode ->
            Emit(Expr(cx, n.a), UnaryOpcode[n.op], 0)
      [] n.k = "UNARY" /\ n.op = "void" ->
            EmitAll(Expr(cx, n.a), <<<<"POP", -1>>, <<"UNDEFINED", 1>>>>)
      [] n.k = "UNARY" /\ n.op = "typeof" -> TypeofExpr(cx, n.a)
      [] n.k = "UNARY" /\ n.op = "delete" -> DeleteExpr(cx, n.a)
      [] n.k = "UPDATE" -> Update(cx, n.op, n.a, "PREFIX" \in n.flags)
      [] n.k = "ASSIGN" -> Assignment(cx, n.op, n.a, n.b)
      [] n.k = "AWAIT"  -> Emit(Expr(cx, n.a), "AWAIT", 0)
      [] OTHER -> Fail(cx)

---------------------------------------------------------------------------
(* Functions.                                                              *)

Param(p)     == IF p.k \in {"DEFAULT", "REST"} THEN p.a ELSE p
IsPattern(p) == p.k \in {"ARRAY_PATTERN", "OBJECT_PATTERN"}

(* One slot a parameter, without a name for a pattern; then the names in   *)
(* the patterns; then the code for defaults and patterns.                  *)
BindParams(cx, params) ==
    LET slot(c, p) ==
            IF p.k = "REST" /\ p.a.k # "IDENT" THEN Fail(c)
            ELSE DeclareLocal(c, Param(p).name, FALSE, 0)
        names(c, p) ==
            IF IsPattern(Param(p)) THEN PatternDeclare(c, Param(p), FALSE, 0, FALSE) ELSE c
        bind(c, i) ==
            LET p    == params[i]
                home == Cur(c).locals[i].slot
                got  == EmitArg(c, "GET_LOCAL", home, 1)
                v    == IF p.k = "DEFAULT" THEN DefaultValue(got, p.b) ELSE got
            IN  CASE IsPattern(Param(p)) -> PatternStore(v, Param(p), TRUE)
                  [] p.k = "DEFAULT" -> Emit(EmitArg(v, "SET_LOCAL", home, 0), "POP", -1)
                  [] OTHER -> c
        named == Through(names, Through(slot, cx, params), params)
    IN  After(named, Through(bind, named, [i \in DOMAIN params |-> i]))

(* The finished function of the innermost state.                           *)
Finished(f, params) ==
    [code |-> f.code, consts |-> f.consts, upvals |-> f.upvals, params |-> Len(params),
     rest |-> \E i \in DOMAIN params : params[i].k = "REST",
     nLocals |-> f.slotMax, maxStack |-> f.maxDepth + StackSlack]

Function(cx, n) ==
    LET arrow == "ARROW" \in n.flags
        in    == BindParams([cx EXCEPT !.fns = Append(@, NewFunction(FALSE, arrow, 0))], n.items)
        out   == IF "EXPR_BODY" \in n.flags THEN Emit(Expr(in, n.a), "RETURN", -1)
                 ELSE EmitAll(Stmt(in, n.a), <<<<"UNDEFINED", 1>>, <<"RETURN", -1>>>>)
        done  == [out EXCEPT !.fns = Front(@),
                             !.protos = Append(@, Finished(Cur(out), n.items))]
        proto == <<"proto", Len(done.protos)>>
    IN  After(in, After(out, EmitConst(done, "CLOSURE", proto, IF arrow THEN 1 ELSE 0, 1)))

---------------------------------------------------------------------------
(* Statements.                                                             *)

LetDecl(cx, list) ==
    Through(LAMBDA c, d :
        PatternStore(IF d.b = Nil THEN Emit(c, "UNDEFINED", 1) ELSE Expr(c, d.b), d.a, TRUE),
        cx, list)

HoistFunctions(cx, stmts) ==
    Through(LAMBDA c, s :
        IF s.k = "FUNC_DECL" THEN StoreTarget(Function(c, s), s.name, TRUE) ELSE c,
        cx, stmts)

Stmts(cx, list) == Through(LAMBDA c, s : Stmt(c, s), cx, list)

BlockStmts(cx, list) ==
    LET m == ScopeMark(cx)
        d == HoistFunctions(Prescan(cx, list, m.locals), list)
    IN  After(d, ScopeLeave(Stmts(d, list), m))

(* The continues that wait for their target get it.                        *)
PatchNexts(cx) == PatchHere(cx, Loop(cx).nexts)

ForOfStmt(cx, n, label) ==
    LET m     == ScopeMark(cx)
        iter  == LoopPush(Emit(Expr(cx, n.b), "ITER_NEW", 1), TRUE, label, FALSE)
        top   == Here(iter)
        body  == ScopeMark(iter)
        loop  == SetLoop(iter, [Loop(iter) EXCEPT !.entry = @ - 2, !.target = top,
                                                  !.slot = body.slots])
        next  == Emit(loop, "ITER_NEXT", 1)
        bound == IF "DECL" \in n.flags
                 THEN PatternStore(PatternDeclare(next, n.a, "CONST" \in n.flags,
                                                  body.locals, FALSE), n.a, TRUE)
                 ELSE PatternStore(next, n.a, FALSE)
        again == EmitArg(ScopeLeave(Stmt(bound, n.c), body), "JUMP", top, 0)
    IN  After(iter, After(bound, After(again,
            ScopeLeave(LoopPop(PatchHere(SetDepth(again, Loop(loop).entry), {top})), m))))

ForStmt(cx, n, label) ==
    LET m    == ScopeMark(cx)
        lets == n.a.k = "LET_DECL"
        init == CASE n.a = Nil -> cx
                  [] lets ->
                       LetDecl(Through(LAMBDA c, d :
                           PatternDeclare(c, d.a, "CONST" \in n.a.flags, m.locals, FALSE),
                           cx, n.a.items), n.a.items)
                  [] OTHER -> Emit(Expr(cx, n.a.a), "POP", -1)
        push == LoopPush(init, TRUE, label, FALSE)
        loop == IF lets THEN SetLoop(push, [Loop(push) EXCEPT !.slot = m.slots]) ELSE push
        top  == Here(loop)
        test == IF n.b = Nil THEN loop ELSE Expr(loop, n.b)
        into == IF n.b = Nil THEN test ELSE Emit(test, "JUMP_IF_FALSE", -1)
        body == PatchNexts(Stmt(into, n.d))
        \* a fresh binding each iteration for the closures that captured it
        cut  == IF lets THEN EmitArg(body, "CLOSE_UPVALS", m.slots, 0) ELSE body
        step == IF n.c = Nil THEN cut ELSE Emit(Expr(cut, n.c), "POP", -1)
        back == EmitArg(step, "JUMP", top, 0)
        exit == IF n.b = Nil THEN back ELSE PatchHere(back, {Here(test)})
    IN  After(loop, After(into, After(body, ScopeLeave(LoopPop(exit), m))))

WhileStmt(cx, n, label) ==
    LET push == LoopPush(cx, TRUE, label, FALSE)
        top  == Here(push)
        loop == SetLoop(push, [Loop(push) EXCEPT !.target = top])
        test == Expr(loop, n.a)
        body == Stmt(Emit(test, "JUMP_IF_FALSE", -1), n.b)
    IN  After(test, After(body,
            LoopPop(PatchHere(EmitArg(body, "JUMP", top, 0), {Here(test)}))))

DoWhileStmt(cx, n, label) ==
    LET loop == LoopPush(cx, TRUE, label, FALSE)
        body == PatchNexts(Stmt(loop, n.a))
    IN  After(body, LoopPop(EmitArg(Expr(body, n.b), "JUMP_IF_TRUE", Here(loop), -1)))

SwitchStmt(cx, n) ==
    LET m     == ScopeMark(cx)
        all   == Through(LAMBDA s, k : s \o k.items, <<>>, n.items)
        disc  == Expr(HoistFunctions(Prescan(cx, all, m.locals), all), n.a)
        push  == LoopPush(disc, FALSE, "", FALSE)
        sw    == SetLoop(push, [Loop(push) EXCEPT !.entry = Cur(disc).depth - 1])
        \* the comparisons, and where each case's jump is
        tests == Through(LAMBDA t, k :
                     IF k.a = Nil THEN [t EXCEPT !.at = Append(@, 0)]
                     ELSE LET e == Expr(t.cx, k.a)
                          IN  [cx |-> Emit(e, "CASE", -1), at |-> Append(t.at, Here(e))],
                     [cx |-> sw, at |-> <<>>], n.items)
        pop   == Emit(tests.cx, "POP", -1)
        none  == Here(pop)
        \* without a match: the default case, or the end
        from(i) == {IF n.items[i].a = Nil THEN none ELSE tests.at[i]}
        body  == Through(LAMBDA c, i :
                     Stmts(PatchHere(SetDepth(c, Cur(pop).depth), from(i)), n.items[i].items),
                     Emit(pop, "JUMP", 0), [i \in DOMAIN n.items |-> i])
        end   == IF \E i \in DOMAIN n.items : n.items[i].a = Nil THEN body
                 ELSE PatchHere(body, {none})
    IN  After(disc, After(tests.cx, After(body, ScopeLeave(LoopPop(end), m))))

(* try: the body under a handler, the handler, and the finally block as a  *)
(* subroutine that every way out calls.                                    *)
TryStmt(cx, n) ==
    LET d       == Cur(cx).depth
        catches == n.c # Nil
        finally == n.d # Nil
        gosub(c) == IF finally THEN FinallyGosubs(c, Len(Cur(c).fins) - 1) ELSE c
        start == IF finally THEN Put(cx, [Cur(cx) EXCEPT !.fins = Append(@, {})]) ELSE cx
        body  == gosub(Emit(Stmt(Emit(start, "TRY_PUSH", 0), n.a), "TRY_POP", 0))
        over  == Emit(body, "JUMP", 0)
        thrown == PatchHere(SetDepth(over, d + 1), {Here(start)})
        \* the catch block, itself guarded when there is a finally block
        guard == IF finally THEN Emit(thrown, "TRY_PUSH", 0) ELSE thrown
        m     == ScopeMark(guard)
        bound == IF n.b = Nil THEN Emit(guard, "POP", -1)
                 ELSE PatternStore(PatternDeclare(guard, n.b, FALSE, m.locals, FALSE), n.b, TRUE)
        left  == ScopeLeave(Stmt(bound, n.c), m)
        done  == gosub(IF finally THEN Emit(left, "TRY_POP", 0) ELSE left)
        caught == IF finally THEN PatchHere(SetDepth(Emit(done, "JUMP", 0), d + 1), {Here(thrown)})
                  ELSE Emit(done, "JUMP", 0)
        after == IF catches THEN caught ELSE thrown
        \* no catch, or an exception in it: run the block, throw again
        again == Emit(gosub(SetDepth(after, d + 1)), "THROW", -1)
        fins  == Cur(again).fins
        open  == PatchHere(Put(again, [Cur(again) EXCEPT !.fins = Front(@)]), Last(fins))
        sub   == Emit(Stmt(SetDepth(open, d + 1), n.d), "RET_SUB", -1)
        end   == IF finally THEN sub ELSE after
        outs  == {Here(body)} \cup IF catches THEN {Here(done)} ELSE {}
    IN  After(body, After(after, After(end, PatchHere(SetDepth(end, d), outs))))

LabeledStmt(cx, n) ==
    CASE n.a.k = "WHILE"    -> WhileStmt(cx, n.a, n.name)
      [] n.a.k = "DO_WHILE" -> DoWhileStmt(cx, n.a, n.name)
      [] n.a.k = "FOR"      -> ForStmt(cx, n.a, n.name)
      [] n.a.k = "FOR_OF"   -> ForOfStmt(cx, n.a, n.name)
      [] OTHER -> LoopPop(Stmt(LoopPush(cx, FALSE, n.name, TRUE), n.a))

IfStmt(cx, n) ==
    LET test == Expr(cx, n.a)
        yes  == Stmt(Emit(test, "JUMP_IF_FALSE", -1), n.b)
        no   == Stmt(PatchHere(Emit(yes, "JUMP", 0), {Here(test)}), n.c)
    IN  After(test, After(yes,
            IF n.c = Nil THEN PatchHere(yes, {Here(test)}) ELSE PatchHere(no, {Here(yes)})))

(* A break or continue: through the finally blocks, down to the depth the  *)
(* loop needs, and out.                                                    *)
ExitStmt(cx, n) ==
    LET break == n.k = "BREAK"
        i     == FindLoop(cx, n.name, ~break)
        l     == Cur(cx).loops[i]
        c     == EmitPopsTo(FinallyGosubs(cx, l.finFloor), IF break THEN l.entry ELSE l.cont)
        cut   == IF l.slot >= 0 THEN EmitArg(c, "CLOSE_UPVALS", l.slot, 0) ELSE c
        jump  == Emit(c, "JUMP", 0)
    IN  CASE i = 0 -> Fail(cx)
          [] break -> Put(jump, [Cur(jump) EXCEPT !.loops[i].breaks = @ \cup {Here(c)}])
          [] l.target > 0 -> EmitArg(cut, "JUMP", l.target, 0)
          [] OTHER -> Put(jump, [Cur(jump) EXCEPT !.loops[i].nexts = @ \cup {Here(c)}])

(* Mutation of ReturnStmt: no finally block runs.                          *)
ReturnAtOnce(cx, n) ==
    LET v == IF n.a = Nil THEN Emit(cx, "UNDEFINED", 1) ELSE Expr(cx, n.a)
    IN  IF Cur(cx).module THEN Fail(cx) ELSE Emit(v, "RETURN", -1)

ReturnStmt(cx, n) ==
    LET v == IF n.a = Nil THEN Emit(cx, "UNDEFINED", 1) ELSE Expr(cx, n.a)
    IN  IF Cur(cx).module THEN Fail(cx) ELSE Emit(FinallyGosubs(v, 0), "RETURN", -1)

Stmt(cx, n) ==
    CASE cx.failed \/ n.k \in {"EMPTY", "FUNC_DECL"} -> cx
      [] n.k = "BLOCK"     -> BlockStmts(cx, n.items)
      [] n.k = "EXPR_STMT" ->
            LET e == Expr(cx, n.a)
            IN  Emit(IF Cur(cx).module THEN EmitArg(e, "SET_LOCAL", 0, 0) ELSE e, "POP", -1)
      [] n.k = "LET_DECL"  -> LetDecl(cx, n.items)
      [] n.k = "IF"        -> IfStmt(cx, n)
      [] n.k = "WHILE"     -> WhileStmt(cx, n, "")
      [] n.k = "DO_WHILE"  -> DoWhileStmt(cx, n, "")
      [] n.k = "FOR"       -> ForStmt(cx, n, "")
      [] n.k = "FOR_OF"    -> ForOfStmt(cx, n, "")
      [] n.k = "SWITCH"    -> SwitchStmt(cx, n)
      [] n.k = "TRY"       -> TryStmt(cx, n)
      [] n.k \in {"BREAK", "CONTINUE"} -> ExitStmt(cx, n)
      [] n.k = "RETURN"    -> ReturnStmt(cx, n)
      [] n.k = "THROW"     -> Emit(Expr(cx, n.a), "THROW", -1)
      [] n.k = "LABELED"   -> LabeledStmt(cx, n)
      [] OTHER -> Fail(cx)

(* js_compile_ast: slot 0 of the module's function keeps the value of the  *)
(* last expression statement.  The module's own function is the last proto.*)
Compile(module) ==
    LET out == Emit(EmitArg(BlockStmts([fns |-> <<NewFunction(TRUE, FALSE, 1)>>,
                                        protos |-> <<>>, failed |-> FALSE], module.items),
                            "GET_LOCAL", 0, 1), "RETURN", -1)
    IN  [failed |-> out.failed, protos |-> Append(out.protos, Finished(Cur(out), <<>>))]
=============================================================================
