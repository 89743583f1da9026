------------------------------- MODULE Values -------------------------------
(***************************************************************************)
(* The values a program computes with, as far as control flow depends on   *)
(* them: conversions, comparisons, operators and property access           *)
(* (runtime/js_interp.c).  A value is a tuple that starts with its type.   *)
(* Strings stand for themselves, numbers are the integers and NaN; an      *)
(* object is its index in a heap, a sequence of plain objects and arrays.  *)
(* Left out: the methods of strings, arrays and numbers, text that is a    *)
(* number, properties of the host's functions and of the engine's errors.  *)
(***************************************************************************)
EXTENDS Integers, Sequences, TLC

Undefined == <<"undefined">>
Null      == <<"null">>
NaN       == <<"nan">>
Tdz       == <<"tdz">>          \* JS_SPECIAL_TDZ: declared, not initialized
Bool(b)   == <<"bool", b>>
Num(n)    == <<"num", n>>
Str(s)    == <<"str", s>>
Obj(o)    == <<"obj", o>>       \* a cell of the heap
Fn(c)     == <<"fn", c>>        \* a closure
Native(h) == <<"native", h>>    \* a function of the host
Error(e)  == <<"err", e>>       \* an error the engine raised, by its class
NoError   == <<"none">>

(* The host's functions, and a variable of the embedder's.                 *)
Globals == [x \in {"h", "log", "undefined", "g"} |->
                IF x \in {"h", "log"} THEN Native(x) ELSE Undefined]

IsNullish(v)  == v \in {Undefined, Null}
IsFunction(v) == v[1] \in {"fn", "native"}
IsNumber(v)   == v[1] \in {"num", "nan"}
Cells         == {"obj", "err", "fn", "native"}

ToBoolean(v) ==
    /\ v \notin {Undefined, Null, NaN, Bool(FALSE), Num(0), Str("")}

ToNumber(v) ==
    CASE v[1] = "num"  -> v
      [] v = Null      -> Num(0)
      [] v[1] = "bool" -> Num(IF v[2] THEN 1 ELSE 0)
      [] OTHER         -> NaN     \* undefined, NaN, and text that is no number

ToStr(v) ==
    CASE v[1] = "str"  -> v[2]
      [] v[1] = "num"  -> ToString(v[2])
      [] v[1] = "bool" -> IF v[2] THEN "true" ELSE "false"
      [] v[1] = "nan"  -> "NaN"
      [] v[1] = "err"  -> v[2]
      [] v[1] = "obj"  -> "object"
      [] IsFunction(v) -> "function"
      [] OTHER         -> v[1]

TypeOf(v) ==
    CASE IsNumber(v)            -> "number"
      [] v[1] = "str"           -> "string"
      [] v[1] = "bool"          -> "boolean"
      [] v[1] = "undefined"     -> "undefined"
      [] IsFunction(v)          -> "function"
      [] OTHER                  -> "object"

StrictEquals(u, v) == u = v /\ u # NaN

LooseEquals(u, v) ==
    IF IsNullish(u) \/ IsNullish(v) THEN IsNullish(u) /\ IsNullish(v)
    ELSE IF u[1] = v[1] \/ {u[1], v[1]} \subseteq Cells THEN StrictEquals(u, v)
    ELSE StrictEquals(ToNumber(u), ToNumber(v))

(* The units of a string, each a string of its own.                        *)
Units(v) ==
    IF v[1] = "str" /\ Len(v[2]) \in Nat
    THEN [i \in 1..Len(v[2]) |-> Str(SubSeq(v[2], i, i))] ELSE <<>>

(* What the programs' strings that are compared are made of, in order.     *)
Alphabet == "0123456789abcdefghijklmnopqrstuvwxyz"
UnitRank(unit) == CHOOSE i \in 1..Len(Alphabet) : Units(Str(Alphabet))[i] = unit

(* The first units that differ decide, or which of the two is longer.      *)
TextLess(s, t) ==
    \/ Len(s) < Len(t) /\ s = SubSeq(t, 1, Len(s))
    \/ \E n \in DOMAIN s \cap DOMAIN t :
          /\ SubSeq(s, 1, n - 1) = SubSeq(t, 1, n - 1)
          /\ UnitRank(s[n]) < UnitRank(t[n])

(* js_compare_values: strings as text, anything else as numbers.           *)
Less(u, v)  == IF u[1] = "str" /\ v[1] = "str" THEN TextLess(Units(u), Units(v))
               ELSE /\ ToNumber(u) # NaN /\ ToNumber(v) # NaN
                    /\ ToNumber(u)[2] < ToNumber(v)[2]
Same(u, v)  == IF u[1] = "str" /\ v[1] = "str" THEN u = v
               ELSE ToNumber(u) # NaN /\ ToNumber(u) = ToNumber(v)

Add(u, v) ==
    IF {u[1], v[1]} \cap ({"str"} \cup Cells) # {}
    THEN Str(ToStr(u) \o ToStr(v))
    ELSE IF NaN \in {ToNumber(u), ToNumber(v)} THEN NaN
    ELSE Num(ToNumber(u)[2] + ToNumber(v)[2])

Arith(u, v, r(_, _)) ==
    IF NaN \in {ToNumber(u), ToNumber(v)} THEN NaN
    ELSE Num(r(ToNumber(u)[2], ToNumber(v)[2]))

(* The result of a binary opcode on its operands.  The programs do not     *)
(* compute with / % ** & | ^ << >> >>>, which only the parser, the compiler*)
(* and the loader meet.                                                    *)
Calculated == {"+", "-", "*", "===", "!==", "==", "!=", "<", ">", "<=", ">="}

BinaryOp(op, u, v) ==
    CASE op = "+"   -> Add(u, v)
      [] op = "-"   -> Arith(u, v, LAMBDA x, y : x - y)
      [] op = "*"   -> Arith(u, v, LAMBDA x, y : x * y)
      [] op = "===" -> Bool(StrictEquals(u, v))
      [] op = "!==" -> Bool(~StrictEquals(u, v))
      [] op = "=="  -> Bool(LooseEquals(u, v))
      [] op = "!="  -> Bool(~LooseEquals(u, v))
      [] op = "<"   -> Bool(Less(u, v))
      [] op = ">"   -> Bool(Less(v, u))
      [] op = "<="  -> Bool(Less(u, v) \/ Same(u, v))
      [] op = ">="  -> Bool(Less(v, u) \/ Same(u, v))

UnaryOp(op, v) ==
    CASE op = "!"      -> Bool(~ToBoolean(v))
      [] op = "-"      -> IF ToNumber(v) = NaN THEN NaN ELSE Num(-ToNumber(v)[2])
      [] op = "+"      -> ToNumber(v)
      [] op = "typeof" -> Str(TypeOf(v))
      [] op = "str"    -> Str(ToStr(v))       \* TO_STRING

---------------------------------------------------------------------------
(* The heap.  An object has properties, a function from names to values; a *)
(* cell with elements is an array.  `proto` is a value.                    *)

NoProps      == [x \in {} |-> Undefined]
PlainObject(proto) == [array |-> FALSE, elems |-> <<>>, props |-> NoProps, proto |-> proto]
ArrayOf(s)   == [array |-> TRUE, elems |-> s, props |-> NoProps, proto |-> Undefined]

(* What closure_prototype makes for closure c.                             *)
PrototypeOf(c) == [PlainObject(Null) EXCEPT !.props = [x \in {"constructor"} |-> Fn(c)]]

IsArray(objs, v)  == v[1] = "obj" /\ objs[v[2]].array

(* What can be iterated and spread, and what it gives.                     *)
Iterable(objs, v) == v[1] = "str" \/ IsArray(objs, v)
Elements(objs, v) == IF IsArray(objs, v) THEN objs[v[2]].elems ELSE Units(v)

(* value_to_index: an element index of an array.                           *)
IsIndex(v) == v[1] = "num" /\ v[2] >= 0

(* key_to_index: the text of an index is one, too (here one of a digit).   *)
Digits == 0..9
AsIndex(key) ==
    IF \E i \in Digits : key = Str(ToString(i))
    THEN Num(CHOOSE i \in Digits : key = Str(ToString(i))) ELSE key

(* The cell of an object's chain of prototypes that has the property, if   *)
(* one has: at most as many steps as there are cells.                      *)
Holders(objs, o, key) ==
    LET next[h \in DOMAIN objs] ==
            IF key \notin DOMAIN objs[h].props /\ objs[h].proto[1] = "obj"
            THEN objs[h].proto[2] ELSE h
        at[i \in 0..Len(objs)] == IF i = 0 THEN o ELSE next[at[i-1]]
    IN  {h \in {at[Len(objs)]} \cap DOMAIN objs : key \in DOMAIN objs[h].props}

Lookup(objs, o, key) ==
    LET hs == Holders(objs, o, key)
    IN  IF hs = {} THEN Undefined ELSE objs[CHOOSE h \in hs : TRUE].props[key]

(* get_property, of a base that is neither undefined nor null.             *)
GetProperty(objs, base, k) ==
    LET key == AsIndex(k)
        es  == Elements(objs, base)
    IN  IF Iterable(objs, base) /\ IsIndex(key)
        THEN IF key[2] < Len(es) THEN es[key[2] + 1] ELSE Undefined
        ELSE IF Iterable(objs, base) /\ key = Str("length") THEN Num(Len(es))
        ELSE IF base[1] = "obj" THEN Lookup(objs, base[2], ToStr(key)) ELSE Undefined

(* Properties, some of them given anew.                                    *)
Merged(ps, qs) ==
    [x \in DOMAIN ps \cup DOMAIN qs |-> IF x \in DOMAIN ps THEN ps[x] ELSE qs[x]]

(* What set_property refuses: a base that has no properties, and a length  *)
(* that is none.                                                           *)
SetFault(objs, base, key, v) ==
    IF base[1] # "obj" /\ ~(base[1] = "fn" /\ key = Str("prototype")) THEN Error("TypeError")
    ELSE IF IsArray(objs, base) /\ key = Str("length") /\ ~IsIndex(ToNumber(v))
    THEN Error("RangeError") ELSE NoError

(* A sequence made longer or shorter.                                      *)
Resized(s, n) == [i \in 1..n |-> IF i <= Len(s) THEN s[i] ELSE Undefined]

(* set_property, of an object: an index past the end grows an array.       *)
SetProperty(objs, o, k, v) ==
    LET cell == objs[o]
        key  == AsIndex(k)
        len  == Len(cell.elems)
    IN  IF cell.array /\ IsIndex(key)
        THEN [objs EXCEPT ![o].elems =
                 [Resized(@, IF key[2] < len THEN len ELSE key[2] + 1) EXCEPT ![key[2] + 1] = v]]
        ELSE IF cell.array /\ key = Str("length")
        THEN [objs EXCEPT ![o].elems = Resized(@, ToNumber(v)[2])]
        ELSE [objs EXCEPT ![o].props = Merged([x \in {ToStr(key)} |-> v], @)]

(* js_spread_into_object: elements and units by the text of their index,   *)
(* then the properties.                                                    *)
ByIndex(s) ==
    [x \in {ToString(i - 1) : i \in DOMAIN s} |->
        s[CHOOSE i \in DOMAIN s : ToString(i - 1) = x]]

SpreadInto(objs, o, v) ==
    LET given == Merged(ByIndex(Elements(objs, v)), objs[o].props)
    IN  [objs EXCEPT ![o].props =
            IF v[1] = "obj" THEN Merged(objs[v[2]].props, given) ELSE given]

(* DELETE_PROP takes only a number for an index.                           *)
DeleteProperty(objs, o, key) ==
    IF objs[o].array /\ IsIndex(key)
    THEN IF key[2] < Len(objs[o].elems)
         THEN [objs EXCEPT ![o].elems[key[2] + 1] = Undefined] ELSE objs
    ELSE [objs EXCEPT ![o].props =
             [x \in DOMAIN @ \ {ToStr(key)} |-> @[x]]]

(* has_property, of an object.                                             *)
HasProperty(objs, o, k) ==
    LET key == AsIndex(k)
    IN  \/ objs[o].array /\ IsIndex(key) /\ key[2] < Len(objs[o].elems)
        \/ objs[o].array /\ key = Str("length")
        \/ Holders(objs, o, ToStr(key)) # {}
=============================================================================
