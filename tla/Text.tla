-------------------------------- MODULE Text --------------------------------
(***************************************************************************)
(* What the source text of a syntax tree is, by the grammar of ECMAScript: *)
(* the tokens the parser has to make the tree of again.  Parentheses stand *)
(* only where the grammar demands them.  There are two styles: `full` ends *)
(* every statement with a semicolon and writes properties out; `terse`     *)
(* ends statements with their lines where that is enough, and uses         *)
(* shorthands, methods and parameters without parentheses.                 *)
(***************************************************************************)
EXTENDS Parser, SequencesExt

RECURSIVE Text(_, _, _), Written(_, _), Pattern(_, _), Statement(_, _), Bare(_), Calls(_)

Styles == {"full", "terse"}

Token(k, v)  == [k |-> k, v |-> v, nl |-> FALSE, cont |-> FALSE]
T(k)         == <<Token(k, k)>>
Word(x)      == IF x \in Keywords THEN T(x) ELSE <<Token("IDENT", x)>>
Soft         == T("SOFT")       \* where a statement ends

Join(lists)  == LET all == lists \o <<>> IN FlattenSeq(all)
In(open, list, close) == T(open) \o list \o T(close)

(* Texts with commas between them; after a hole there is always one.       *)
Separated(texts) ==
    LET all == texts \o <<>>
    IN  Join([i \in DOMAIN all |->
            IF i < Len(all) \/ all[i] = <<>> THEN all[i] \o T(",") ELSE all[i]])

---------------------------------------------------------------------------
(* Expressions by how tightly they hold together.  Binary operators are    *)
(* from 3 to 14.                                                           *)

Assigning == 1
Deciding  == 2
Unaried   == 15
Updated   == 16
Called    == 17
Accessed  == 18
Atomic    == 19

Tightness ==
    LET level(n, ops) == [op \in ops |-> n]
    IN  level(3, {"??"}) @@ level(4, {"||"}) @@ level(5, {"&&"}) @@ level(6, {"|"})
        @@ level(7, {"^"}) @@ level(8, {"&"}) @@ level(9, {"===", "!==", "==", "!="})
        @@ level(10, {"<", "<=", ">", ">=", "in"}) @@ level(11, {"<<", ">>", ">>>"})
        @@ level(12, {"+", "-"}) @@ level(13, {"*", "/", "%"}) @@ level(14, {"**"})

(* A chain of accesses with a call or a `?.` in it.                        *)
Calls(n) == CASE n.k = "CALL"   -> TRUE
              [] n.k = "MEMBER" -> "OPTIONAL" \in n.flags \/ Calls(n.a)
              [] OTHER          -> FALSE

Rank(n) ==
    CASE n.k = "SEQUENCE" -> 0
      [] n.k = "ASSIGN" \/ "ARROW" \in n.flags -> Assigning
      [] n.k = "COND" -> Deciding
      [] n.k \in {"BINARY", "LOGICAL"} -> Tightness[n.op]
      [] n.k \in {"UNARY", "AWAIT"} \/ "PREFIX" \in n.flags -> Unaried
      [] n.k = "UPDATE" -> Updated
      [] Calls(n) -> Called
      [] n.k \in {"MEMBER", "NEW"} -> Accessed
      [] OTHER -> Atomic

Text(st, n, min) == IF Rank(n) < min THEN In("(", Written(st, n), ")") ELSE Written(st, n)

(* How tightly the operands of a binary operator hold.                     *)
LeftOf(n)  == CASE n.op = "**" -> Updated
                [] n.op = "??" /\ n.a.op # "??" -> Tightness["|"]
                [] OTHER -> Tightness[n.op]
RightOf(n) == CASE n.op = "**" -> Tightness["**"]
                [] n.op = "??" -> Tightness["|"]
                [] OTHER -> Tightness[n.op] + 1

Item(st, n) == CASE n.k = "HOLE"   -> <<>>
                 [] n.k = "SPREAD" -> T("...") \o Text(st, n.a, Assigning)
                 [] OTHER          -> Text(st, n, Assigning)

Items(st, list) == Separated([i \in DOMAIN list |-> Item(st, list[i])])

Key(st, n) == CASE "COMPUTED" \in n.flags -> In("[", Text(st, n.a, Assigning), "]")
                [] n.a.k = "NUMBER" -> <<Token("NUM", n.a.num)>>
                [] n.a.k = "STRING" -> <<Token("STR", n.a.name)>>
                [] OTHER -> Word(n.a.name)

ParamsText(st, list) == In("(", Separated([i \in DOMAIN list |-> Pattern(st, list[i])]), ")")
AsyncWord(n)         == IF "ASYNC" \in n.flags THEN Word("async") ELSE <<>>
Braced(st, n)        == Statement(st, n)

FunctionText(st, n) ==
    AsyncWord(n) \o T("function") \o (IF n.name = "" THEN <<>> ELSE Word(n.name))
        \o ParamsText(st, n.items) \o Braced(st, n.a)

ArrowText(st, n) ==
    LET one  == st = "terse" /\ Len(n.items) = 1 /\ n.items[1].k = "IDENT"
        body == Text(st, n.a, Assigning)
    IN  AsyncWord(n) \o (IF one THEN Word(n.items[1].name) ELSE ParamsText(st, n.items)) \o T("=>")
        \o CASE "EXPR_BODY" \notin n.flags -> Braced(st, n.a)
             [] body[1].k = "{" -> In("(", body, ")")
             [] OTHER -> body

(* A property and the text of its value.                                   *)
PropertyText(st, n, target, value) ==
    LET same == /\ st = "terse" /\ "COMPUTED" \notin n.flags /\ n.a.k = "IDENT"
                /\ target.k = "IDENT" /\ target.name = n.a.name
    IN  IF same THEN value ELSE Key(st, n) \o T(":") \o value

ObjectItem(st, n) ==
    CASE n.k = "SPREAD" -> Item(st, n)
      [] /\ st = "terse" /\ n.b.k = "FUNC_EXPR" /\ n.b.name = "" /\ "ARROW" \notin n.b.flags ->
            AsyncWord(n.b) \o Key(st, n) \o ParamsText(st, n.b.items) \o Braced(st, n.b.a)
      [] OTHER -> PropertyText(st, n, n.b, Text(st, n.b, Assigning))

TemplateText(st, parts) ==
    LET chunk(i) == <<[k    |-> IF i = 1 THEN "TEMPLATE" ELSE "}", v |-> parts[i].name,
                       nl   |-> FALSE, cont |-> i < Len(parts)]>>
    IN  Join([i \in DOMAIN parts |-> IF i % 2 = 1 THEN chunk(i) ELSE Text(st, parts[i], 0)])

MemberText(st, n) ==
    LET optional == "OPTIONAL" \in n.flags
    IN  Text(st, n.a, Called)
        \o (IF optional THEN T("?.") ELSE IF "COMPUTED" \in n.flags THEN <<>> ELSE T("."))
        \o IF "COMPUTED" \in n.flags THEN In("[", Text(st, n.b, 0), "]") ELSE Word(n.name)

Written(st, n) ==
    CASE n.k = "IDENT"     -> Word(n.name)
      [] n.k = "NUMBER"    -> <<Token("NUM", n.num)>>
      [] n.k = "STRING"    -> <<Token("STR", n.name)>>
      [] n.k = "NULL_LIT"  -> T("null")
      [] n.k = "BOOL_LIT"  -> T(IF "TRUE" \in n.flags THEN "true" ELSE "false")
      [] n.k = "THIS"      -> T("this")
      [] n.k = "TEMPLATE"  -> TemplateText(st, n.items)
      [] n.k = "ARRAY"     -> In("[", Items(st, n.items), "]")
      [] n.k = "OBJECT"    ->
            In("{", Separated([i \in DOMAIN n.items |-> ObjectItem(st, n.items[i])]), "}")
      [] n.k = "FUNC_EXPR" -> IF "ARROW" \in n.flags THEN ArrowText(st, n) ELSE FunctionText(st, n)
      [] n.k = "MEMBER"    -> MemberText(st, n)
      [] n.k = "CALL"      ->
            Text(st, n.a, Called) \o (IF "OPTIONAL" \in n.flags THEN T("?.") ELSE <<>>)
                \o In("(", Items(st, n.items), ")")
      [] n.k = "NEW"       -> T("new") \o Text(st, n.a, Accessed) \o In("(", Items(st, n.items), ")")
      [] n.k = "UNARY"     -> T(n.op) \o Text(st, n.a, Unaried)
      [] n.k = "AWAIT"     -> T("await") \o Text(st, n.a, Unaried)
      [] n.k = "UPDATE"    -> IF "PREFIX" \in n.flags THEN T(n.op) \o Text(st, n.a, Unaried)
                              ELSE Text(st, n.a, Called) \o T(n.op)
      [] n.k \in {"BINARY", "LOGICAL"} ->
            Text(st, n.a, LeftOf(n)) \o T(n.op) \o Text(st, n.b, RightOf(n))
      [] n.k = "COND"      -> Text(st, n.a, Deciding + 1) \o T("?") \o Text(st, n.b, Assigning)
                              \o T(":") \o Text(st, n.c, Assigning)
      [] n.k = "ASSIGN"    -> Pattern(st, n.a) \o T(n.op) \o Text(st, n.b, Assigning)
      [] n.k = "SEQUENCE"  -> Items(st, n.items)

(* Patterns, and the targets of assignments.                               *)
Pattern(st, n) ==
    LET parts == Separated([i \in DOMAIN n.items |-> Pattern(st, n.items[i])])
    IN  CASE n.k = "HOLE"    -> <<>>
          [] n.k = "REST"    -> T("...") \o Pattern(st, n.a)
          [] n.k = "DEFAULT" -> Pattern(st, n.a) \o T("=") \o Text(st, n.b, Assigning)
          [] n.k = "ARRAY_PATTERN"  -> In("[", parts, "]")
          [] n.k = "OBJECT_PATTERN" -> In("{", parts, "}")
          [] n.k = "PROPERTY" ->
                PropertyText(st, n, IF n.b.k = "DEFAULT" THEN n.b.a ELSE n.b, Pattern(st, n.b))
          [] OTHER -> Text(st, n, Called)

---------------------------------------------------------------------------
(* Statements.                                                             *)

(* An expression where a `{` or a `function` would start something else.   *)
Starting(st, x) ==
    LET text == Text(st, x, 0)
        second == IF text[1].k = "IDENT" /\ Len(text) > 1 THEN text[2].k ELSE ""
    IN  IF text[1].k \in {"{", "function"} \/ second = "function"
        THEN In("(", text, ")") ELSE text

Declared(st, n) ==
    LET one(d) == Pattern(st, d.a)
                  \o IF d.b = Nil THEN <<>> ELSE T("=") \o Text(st, d.b, Assigning)
    IN  T(IF "CONST" \in n.flags THEN "const" ELSE "let")
        \o Separated([i \in DOMAIN n.items |-> one(n.items[i])])

Optionally(n, text) == IF n = Nil THEN <<>> ELSE text
Whole(st, list)     == Join([i \in DOMAIN list |-> Statement(st, list[i])])
Condition(st, x)    == In("(", Text(st, x, 0), ")")

ForHead(st, n) ==
    CASE n.k = "FOR" ->
           (CASE n.a = Nil -> <<>> [] n.a.k = "LET_DECL" -> Declared(st, n.a)
              [] OTHER -> Text(st, n.a.a, 0))
           \o T(";") \o Optionally(n.b, Text(st, n.b, 0))
           \o T(";") \o Optionally(n.c, Text(st, n.c, 0))
      [] OTHER ->
           (CASE "DECL" \notin n.flags -> <<>>
              [] "CONST" \in n.flags -> T("const") [] OTHER -> T("let"))
           \o Pattern(st, n.a) \o Word("of") \o Text(st, n.b, Assigning)

SpecText(n) ==
    LET from == IF "DEFAULT" \in n.flags THEN <<>> ELSE IF "NS" \in n.flags THEN T("*")
                ELSE Word(n.name)
    IN  CASE from = <<>> -> Word(n.name2)
          [] n.name = n.name2 -> from
          [] OTHER -> from \o Word("as") \o Word(n.name2)

Specs(list) ==
    LET plain(n) == {"DEFAULT", "NS"} \cap n.flags = {}
        named    == SelectSeq(list, plain)
        others   == SelectSeq(list, LAMBDA n : ~plain(n))
        texts(s) == [i \in DOMAIN s |-> SpecText(s[i])]
    IN  Separated(texts(others) \o IF named = <<>> /\ others # <<>> THEN <<>>
                                   ELSE <<In("{", Separated(texts(named)), "}")>>)

FromText(n) == Word("from") \o <<Token("STR", n.name)>>

Statement(st, n) ==
    CASE n.k = "BLOCK"     -> In("{", Whole(st, n.items), "}")
      [] n.k = "EMPTY"     -> T(";")
      [] n.k = "EXPR_STMT" -> Starting(st, n.a) \o Soft
      [] n.k = "LET_DECL"  -> Declared(st, n) \o Soft
      [] n.k = "IF"        -> T("if") \o Condition(st, n.a) \o Statement(st, n.b)
                              \o Optionally(n.c, T("else") \o Statement(st, n.c))
      [] n.k = "WHILE"     -> T("while") \o Condition(st, n.a) \o Statement(st, n.b)
      [] n.k = "DO_WHILE"  -> T("do") \o Statement(st, n.a) \o T("while") \o Condition(st, n.b)
                              \o IF st = "terse" THEN <<>> ELSE T(";")
      [] n.k \in {"FOR", "FOR_OF"} ->
            T("for") \o In("(", ForHead(st, n), ")") \o Statement(st, IF n.k = "FOR" THEN n.d ELSE n.c)
      [] n.k = "SWITCH"    ->
            LET one(c) == (IF c.a = Nil THEN T("default") ELSE T("case") \o Text(st, c.a, 0))
                          \o T(":") \o Whole(st, c.items)
            IN  T("switch") \o Condition(st, n.a)
                \o In("{", Join([i \in DOMAIN n.items |-> one(n.items[i])]), "}")
      [] n.k = "TRY"       ->
            T("try") \o Statement(st, n.a)
            \o Optionally(n.c, T("catch") \o Optionally(n.b, In("(", Pattern(st, n.b), ")"))
                               \o Statement(st, n.c))
            \o Optionally(n.d, T("finally") \o Statement(st, n.d))
      [] n.k \in {"BREAK", "CONTINUE"} ->
            T(IF n.k = "BREAK" THEN "break" ELSE "continue")
            \o (IF n.name = "" THEN <<>> ELSE Word(n.name)) \o Soft
      [] n.k = "RETURN"    -> T("return") \o Optionally(n.a, Text(st, n.a, 0)) \o Soft
      [] n.k = "THROW"     -> T("throw") \o Text(st, n.a, 0) \o Soft
      [] n.k = "LABELED"   -> Word(n.name) \o T(":") \o Statement(st, n.a)
      [] n.k = "FUNC_DECL" -> FunctionText(st, n)
      [] n.k = "IMPORT"    ->
            T("import") \o (IF n.items = <<>> THEN <<Token("STR", n.name)>>
                            ELSE Specs(n.items) \o FromText(n)) \o Soft
      [] n.k = "EXPORT_ALL" ->
            T("export") \o T("*") \o (IF n.name2 = "" THEN <<>> ELSE Word("as") \o Word(n.name2))
            \o FromText(n) \o Soft
      [] n.k = "EXPORT_DEFAULT" ->
            T("export") \o T("default")
            \o IF n.a.k = "FUNC_EXPR" /\ "ARROW" \notin n.a.flags THEN Written(st, n.a)
               ELSE Text(st, n.a, Assigning) \o Soft
      [] n.k = "EXPORT_NAMED" ->
            T("export") \o IF n.a # Nil THEN Statement(st, n.a)
                           ELSE Specs(n.items) \o (IF n.name = "" THEN <<>> ELSE FromText(n)) \o Soft

(* Where a line's end does not end a statement: the token goes on with it. *)
GoesOn == {"(", "[", "TEMPLATE", "+", "-", "/"}

(* The tokens of a module.                                                 *)
Tokens(st, module) ==
    LET raw  == Whole(st, module.items) \o T("EOF")
        soft(i) == i \in DOMAIN raw /\ raw[i].k = "SOFT"
        hard(i) == soft(i) /\ (st = "full" \/ raw[i+1].k \in GoesOn)
        out  == [i \in DOMAIN raw |->
                    CASE hard(i) -> Token(";", ";")
                      [] st = "terse" /\ soft(i - 1) /\ ~soft(i) -> [raw[i] EXCEPT !.nl = TRUE]
                      [] OTHER -> raw[i]]
    IN  SelectSeq(out, LAMBDA t : t.k # "SOFT")

---------------------------------------------------------------------------
(* A tree without the flags that only say how it was written.              *)
Bare(n) ==
    IF n = Nil THEN n
    ELSE [n EXCEPT !.flags = @ \ {"PAREN", "SHORTHAND", "METHOD", "PROP_ASYNC", "HAS_TLA"},
                   !.a = Bare(@), !.b = Bare(@), !.c = Bare(@), !.d = Bare(@),
                   !.items = [i \in DOMAIN @ |-> Bare(@[i])] \o <<>>]

(* What the parser makes of a tree's texts.                                *)
Reread(n) == {Bare(Parse(Tokens(st, n))) : st \in Styles}
=============================================================================
