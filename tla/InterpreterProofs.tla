------------------------- MODULE InterpreterProofs -------------------------
(***************************************************************************)
(* What is proved about the interpreter for any code: that an interrupted  *)
(* program does nothing more and fails, that handlers stay in the order of *)
(* their frames, and, for any code the loader accepts, whoever wrote it,   *)
(* that the loader's proof of the operand stack holds in every frame and   *)
(* at every handler while it runs.                                         *)
(***************************************************************************)
EXTENDS Interpreter, SequenceTheorems, FiniteSetTheorems, TLAPS

---------------------------------------------------------------------------
(* Interruption.                                                           *)

(* An interrupted program runs on to its error, waits, or has ended with   *)
(* the error.                                                              *)
Stopping == interrupted => status \in {"run", "suspended", "error"}

(* Once the flag is up no instruction takes effect: each raises.           *)
LEMMA StoppedRaises ==
    ASSUME interrupted
    PROVE  /\ Raised # NoError
           /\ \A ops : ~Can(ops)
BY DEF Can, Raised, Stops, NoError, Error

(* The only step of a program that has been interrupted is the raising.    *)
LEMMA StoppedStep ==
    ASSUME interrupted, Next
    PROVE  Raise
<1>1. \A ops : ~Can(ops)
    BY StoppedRaises
<1>2. ~Resume
    BY DEF Resume
<1>3. ~Interrupt
    BY DEF Interrupt
<1>4. ~(TryPush \/ TryPop \/ Compute \/ SetUpval \/ SetGlobal \/ Jump \/ RetSub)
    BY <1>1 DEF TryPush, TryPop, Compute, SetUpval, SetGlobal, Jump, RetSub
<1>5. ~(\/ NewObject \/ NewArray \/ ArrayRest \/ Write
        \/ GetPrototype \/ SetPrototype \/ MakeClosure)
    BY <1>1 DEF NewObject, NewArray, ArrayRest, Write, GetPrototype, SetPrototype, MakeClosure
<1>6. ~(CloseUpvals \/ CallClosure \/ Construct \/ ReturnOp \/ Suspend)
    BY <1>1 DEF CloseUpvals, CallClosure, Construct, ReturnOp, Suspend
<1>7. ~(CallLog \/ CallHost \/ CallHostOver)
    BY <1>1 DEF CallLog, CallHost, CallHostOver, Calls
<1>8. QED
    BY <1>2, <1>3, <1>4, <1>5, <1>6, <1>7 DEF Next, Step

(* Raising ends the program or goes on in a handler.                       *)
LEMMA RaiseStops ==
    ASSUME Raise
    PROVE  /\ status' \in {"run", "error"}
           /\ UNCHANGED <<log, answers, globals, heap, interrupted>>
BY DEF Raise, OnError, Running, control

(* Every other step that leaves the flag up found the program running.     *)
LEMMA StoppingStep ==
    ASSUME Stopping, [Next]_vars
    PROVE  Stopping'
<1>1. CASE UNCHANGED vars
    BY <1>1 DEF vars, Stopping
<1>2. CASE Next /\ interrupted
    BY <1>2, StoppedStep, RaiseStops DEF Stopping
<1>3. CASE Next /\ ~interrupted
    <2> SUFFICES ASSUME interrupted' PROVE status' \in {"run", "suspended", "error"}
        BY DEF Stopping
    <2>1. interrupted' # interrupted
        BY <1>3
    <2>2. CASE Step
        <3>1. CASE Raise
            BY <3>1, RaiseStops
        <3>2. CASE CallHostOver
            BY <3>2 DEF CallHostOver, Calls, Can, Running, Returns
        <3>3. ~(TryPush \/ TryPop \/ Compute \/ SetUpval \/ SetGlobal \/ Jump \/ RetSub)
            BY <2>1 DEF TryPush, TryPop, Compute, SetUpval, SetGlobal, Jump, RetSub, control
        <3>4. ~(\/ NewObject \/ NewArray \/ ArrayRest \/ Write
                \/ GetPrototype \/ SetPrototype \/ MakeClosure)
            BY <2>1 DEF NewObject, NewArray, ArrayRest, Write, GetPrototype, SetPrototype,
                        MakeClosure, Allocate, control
        <3>5. ~(CloseUpvals \/ CallClosure \/ Construct \/ ReturnOp \/ Suspend)
            BY <2>1 DEF CloseUpvals, CallClosure, Construct, Enter, ReturnOp, Suspend, control
        <3>6. ~(CallLog \/ CallHost)
            BY <2>1 DEF CallLog, CallHost
        <3>7. QED
            BY <2>2, <3>1, <3>2, <3>3, <3>4, <3>5, <3>6 DEF Step
    <2>3. CASE Resume
        BY <2>1, <2>3 DEF Resume
    <2>4. CASE Interrupt
        BY <2>4 DEF Interrupt
    <2>5. QED
        BY <1>3, <2>2, <2>3, <2>4 DEF Next
<1>4. QED
    BY <1>1, <1>2, <1>3

LEMMA AlwaysStopping == Spec => []Stopping
<1>1. Init => Stopping
    BY DEF Init, Stopping
<1>2. QED
    BY <1>1, StoppingStep, PTL DEF Spec

(* A program that has been interrupted does not end but with the error,    *)
(* whatever handlers and finally blocks it is inside of, for any code      *)
(* (run_fiber, the check before each instruction).                         *)
THEOREM InterruptedFails == Spec => []StopFails
<1>1. Stopping => StopFails
    BY DEF Stopping, StopFails, Over
<1>2. QED
    BY <1>1, AlwaysStopping, PTL

(* From the moment it is interrupted a program calls no one, and writes no *)
(* object and no global variable, for any code (run_fiber).                *)
THEOREM InterruptedActsNoMore == Spec => StopKept
<1>1. [Next]_vars =>
          [interrupted => UNCHANGED <<log, answers, globals, heap>>]_vars
    <2> SUFFICES ASSUME Next, interrupted
                 PROVE  UNCHANGED <<log, answers, globals, heap>>
        OBVIOUS
    <2>1. QED
        BY StoppedStep, RaiseStops
<1>2. QED
    BY <1>1, PTL DEF Spec, StopKept

---------------------------------------------------------------------------
(* Sequences of values.                                                    *)

Sq(s) == s \in Seq(Range(s))

(* A value refers to closures and objects that there are.                  *)
Live(v, nc, no) ==
    /\ v[1] = "fn"  => v[2] \in 1..nc
    /\ v[1] = "obj" => v[2] \in 1..no
    /\ v[1] = "num" => v[2] \in Int

AllLive(s, nc, no) == \A i \in DOMAIN s : Live(s[i], nc, no)

Good(s, nc, no) == Sq(s) /\ AllLive(s, nc, no)

LEMMA SqOf ==
    ASSUME NEW S, NEW s \in Seq(S)
    PROVE  Sq(s)
<1>1. s \in [1..Len(s) -> Range(s)] /\ Len(s) \in Nat
    BY LenProperties DEF Range
<1>2. QED
    BY <1>1 DEF Sq

LEMMA SqFacts ==
    ASSUME NEW s, Sq(s)
    PROVE  /\ Len(s) \in Nat
           /\ DOMAIN s = 1..Len(s)
           /\ s = [i \in 1..Len(s) |-> s[i]]
BY LenProperties DEF Sq

LEMMA SqFunction ==
    ASSUME NEW n \in Nat, NEW s, DOMAIN s = 1..n, s = [i \in 1..n |-> s[i]]
    PROVE  Sq(s) /\ Len(s) = n
<1>1. s \in [1..n -> Range(s)]
    BY DEF Range
<1>2. s \in Seq(Range(s))
    BY <1>1
<1>3. QED
    BY <1>2, LenProperties DEF Sq

LEMMA SqAppend ==
    ASSUME NEW s, Sq(s), NEW v
    PROVE  /\ Sq(Append(s, v))
           /\ Len(Append(s, v)) = Len(s) + 1
           /\ \A i \in 1..Len(s) : Append(s, v)[i] = s[i]
           /\ Append(s, v)[Len(s) + 1] = v
<1> DEFINE S == Range(s) \cup {v}
<1>1. s \in Seq(S)
    BY SeqMonotonic DEF Sq
<1>2. Append(s, v) \in Seq(S)
    BY <1>1
<1>3. Sq(Append(s, v))
    BY <1>2, SqOf
<1> HIDE DEF S
<1>4. QED
    BY <1>1, <1>2, <1>3, AppendProperties

LEMMA SqCat ==
    ASSUME NEW s, NEW t, Sq(s), Sq(t)
    PROVE  /\ Sq(s \o t)
           /\ Len(s \o t) = Len(s) + Len(t)
           /\ \A i \in 1..Len(s) : (s \o t)[i] = s[i]
           /\ \A i \in 1..Len(t) : (s \o t)[Len(s) + i] = t[i]
<1> DEFINE S == Range(s) \cup Range(t)
<1>1. s \in Seq(S) /\ t \in Seq(S)
    BY SeqMonotonic DEF Sq
<1> HIDE DEF S
<1>2. s \o t \in Seq(S)
    BY <1>1
<1>3. Sq(s \o t)
    BY <1>2, SqOf
<1>4. QED
    BY <1>1, <1>2, <1>3, ConcatProperties, LenProperties

LEMMA SqSub ==
    ASSUME NEW s, Sq(s), NEW m \in Nat, NEW n \in Nat, m >= 1, n <= Len(s)
    PROVE  /\ Sq(SubSeq(s, m, n))
           /\ Len(SubSeq(s, m, n)) = IF m <= n THEN n - m + 1 ELSE 0
           /\ \A i \in 1..Len(SubSeq(s, m, n)) : SubSeq(s, m, n)[i] = s[m + i - 1]
<1>1. s \in Seq(Range(s))
    BY DEF Sq
<1>2. SubSeq(s, m, n) \in Seq(Range(s))
    BY <1>1, SqFacts
<1>3. Sq(SubSeq(s, m, n))
    BY <1>2, SqOf
<1>4. QED
    BY <1>1, <1>3, SqFacts, SubSeqProperties

LEMMA SqExcept ==
    ASSUME NEW s, Sq(s), NEW i, NEW v
    PROVE  /\ Sq([s EXCEPT ![i] = v])
           /\ Len([s EXCEPT ![i] = v]) = Len(s)
           /\ DOMAIN [s EXCEPT ![i] = v] = DOMAIN s
           /\ \A j \in DOMAIN s : [s EXCEPT ![i] = v][j] = IF j = i THEN v ELSE s[j]
<1> DEFINE t == [s EXCEPT ![i] = v]
<1>1. Len(s) \in Nat /\ DOMAIN s = 1..Len(s)
    BY SqFacts
<1>2. DOMAIN t = 1..Len(s) /\ t = [j \in 1..Len(s) |-> t[j]]
    BY <1>1, SqFacts
<1>3. \A j \in DOMAIN s : t[j] = IF j = i THEN v ELSE s[j]
    OBVIOUS
<1> HIDE DEF t
<1>4. Sq(t) /\ Len(t) = Len(s)
    BY <1>1, <1>2, SqFunction
<1>5. QED
    BY <1>1, <1>2, <1>3, <1>4 DEF t

LEMMA SqTuples ==
    /\ Sq(<<>>) /\ Len(<<>>) = 0
    /\ \A a : Sq(<<a>>) /\ Len(<<a>>) = 1
    /\ \A a, b : Sq(<<a, b>>) /\ Len(<<a, b>>) = 2
    /\ \A a, b, c : Sq(<<a, b, c>>) /\ Len(<<a, b, c>>) = 3
<1>1. Sq(<<>>)
    <2>1. <<>> \in Seq({})
        OBVIOUS
    <2>2. QED
        BY <2>1, SqOf
<1>2. \A a : Sq(<<a>>)
    <2> TAKE a
    <2>1. <<a>> \in Seq({a})
        OBVIOUS
    <2>2. QED
        BY <2>1, SqOf
<1>3. \A a, b : Sq(<<a, b>>)
    <2> TAKE a, b
    <2>1. <<a, b>> \in Seq({a, b})
        OBVIOUS
    <2>2. QED
        BY <2>1, SqOf
<1>4. \A a, b, c : Sq(<<a, b, c>>)
    <2> TAKE a, b, c
    <2>1. <<a, b, c>> \in Seq({a, b, c})
        OBVIOUS
    <2>2. QED
        BY <2>1, SqOf
<1>5. QED
    BY <1>1, <1>2, <1>3, <1>4

LEMMA LiveMonotone ==
    ASSUME NEW nc \in Nat, NEW no \in Nat, NEW mc \in Nat, NEW mo \in Nat,
           nc <= mc, no <= mo
    PROVE  /\ \A v : Live(v, nc, no) => Live(v, mc, mo)
           /\ \A s : AllLive(s, nc, no) => AllLive(s, mc, mo)
           /\ \A s : Good(s, nc, no) => Good(s, mc, mo)
<1>1. \A v : Live(v, nc, no) => Live(v, mc, mo)
    BY DEF Live
<1>2. QED
    BY <1>1 DEF AllLive, Good

LEMMA GoodFacts ==
    ASSUME NEW s, NEW nc, NEW no, Good(s, nc, no)
    PROVE  /\ Len(s) \in Nat /\ DOMAIN s = 1..Len(s)
           /\ \A i \in 1..Len(s) : Live(s[i], nc, no)
BY SqFacts DEF Good, AllLive

LEMMA GoodAppend ==
    ASSUME NEW s, NEW v, NEW nc, NEW no, Good(s, nc, no), Live(v, nc, no)
    PROVE  Good(Append(s, v), nc, no) /\ Len(Append(s, v)) = Len(s) + 1
<1>1. Sq(s) /\ Len(s) \in Nat /\ \A i \in 1..Len(s) : Live(s[i], nc, no)
    BY GoodFacts DEF Good
<1>2. DOMAIN Append(s, v) = 1..(Len(s) + 1)
    BY <1>1, SqAppend, SqFacts
<1>3. \A i \in 1..(Len(s) + 1) : Live(Append(s, v)[i], nc, no)
    <2> TAKE i \in 1..(Len(s) + 1)
    <2>1. i \in 1..Len(s) \/ i = Len(s) + 1
        BY <1>1
    <2>2. QED
        BY <1>1, <2>1, SqAppend
<1>4. QED
    BY <1>1, <1>2, <1>3, SqAppend DEF Good, AllLive

LEMMA GoodCat ==
    ASSUME NEW s, NEW t, NEW nc, NEW no, Good(s, nc, no), Good(t, nc, no)
    PROVE  Good(s \o t, nc, no) /\ Len(s \o t) = Len(s) + Len(t)
<1>1. /\ Sq(s) /\ Len(s) \in Nat /\ \A i \in 1..Len(s) : Live(s[i], nc, no)
      /\ Sq(t) /\ Len(t) \in Nat /\ \A i \in 1..Len(t) : Live(t[i], nc, no)
    BY GoodFacts DEF Good
<1>2. DOMAIN (s \o t) = 1..(Len(s) + Len(t))
    BY <1>1, SqCat, SqFacts
<1>3. \A i \in 1..(Len(s) + Len(t)) : Live((s \o t)[i], nc, no)
    <2> TAKE i \in 1..(Len(s) + Len(t))
    <2>1. CASE i <= Len(s)
        BY <1>1, <2>1, SqCat
    <2>2. CASE i > Len(s)
        <3>1. i - Len(s) \in 1..Len(t) /\ i = Len(s) + (i - Len(s))
            BY <1>1, <2>2
        <3>2. QED
            BY <1>1, <3>1, SqCat
    <2>3. QED
        BY <1>1, <2>1, <2>2
<1>4. QED
    BY <1>1, <1>2, <1>3, SqCat DEF Good, AllLive

LEMMA GoodSub ==
    ASSUME NEW s, NEW nc, NEW no, Good(s, nc, no),
           NEW m \in Nat, NEW n \in Nat, m >= 1, n <= Len(s)
    PROVE  /\ Good(SubSeq(s, m, n), nc, no)
           /\ Len(SubSeq(s, m, n)) = IF m <= n THEN n - m + 1 ELSE 0
<1> DEFINE t == SubSeq(s, m, n)
<1>1. Sq(s) /\ Len(s) \in Nat /\ \A i \in 1..Len(s) : Live(s[i], nc, no)
    BY GoodFacts DEF Good
<1>2. /\ Sq(t) /\ Len(t) = (IF m <= n THEN n - m + 1 ELSE 0)
      /\ \A i \in 1..Len(t) : t[i] = s[m + i - 1]
    BY <1>1, SqSub
<1>3. \A i \in 1..Len(t) : m + i - 1 \in 1..Len(s)
    BY <1>1, <1>2
<1>4. DOMAIN t = 1..Len(t)
    BY <1>2, SqFacts
<1>5. \A i \in DOMAIN t : Live(t[i], nc, no)
    BY <1>1, <1>2, <1>3, <1>4
<1>6. QED
    BY <1>2, <1>5 DEF Good, AllLive

LEMMA GoodExcept ==
    ASSUME NEW s, NEW i, NEW v, NEW nc, NEW no, Good(s, nc, no), Live(v, nc, no)
    PROVE  /\ Good([s EXCEPT ![i] = v], nc, no)
           /\ Len([s EXCEPT ![i] = v]) = Len(s)
<1>1. Sq(s) /\ \A j \in DOMAIN s : Live(s[j], nc, no)
    BY DEF Good, AllLive
<1>2. QED
    BY <1>1, SqExcept DEF Good, AllLive

LEMMA GoodTuples ==
    ASSUME NEW nc, NEW no
    PROVE  /\ Good(<<>>, nc, no) /\ Len(<<>>) = 0
           /\ \A a : Live(a, nc, no) => Good(<<a>>, nc, no) /\ Len(<<a>>) = 1
           /\ \A a, b : Live(a, nc, no) /\ Live(b, nc, no) =>
                  Good(<<a, b>>, nc, no) /\ Len(<<a, b>>) = 2
           /\ \A a, b, c : Live(a, nc, no) /\ Live(b, nc, no) /\ Live(c, nc, no) =>
                  Good(<<a, b, c>>, nc, no) /\ Len(<<a, b, c>>) = 3
BY SqTuples DEF Good, AllLive


(* All of a sequence but the last.                                         *)
LEMMA FrontOk ==
    ASSUME NEW s, Sq(s), s # <<>>
    PROVE  /\ \E q \in Nat : /\ q = Len(s) - 1 /\ Sq(Front(s)) /\ Len(Front(s)) = q
                             /\ \A i \in 1..q : Front(s)[i] = s[i]
           /\ Last(s) = s[Len(s)] /\ Len(s) \in DOMAIN s
<1>1. Len(s) \in Nat /\ DOMAIN s = 1..Len(s)
    BY SqFacts
<1>2. Len(s) # 0
    BY EmptySeq DEF Sq
<1>3. PICK n \in Nat : n = Len(s)
    BY <1>1
<1>4. PICK q \in Nat : q = n - 1
    BY <1>2, <1>3
<1>5. 1 <= q + 1 /\ q <= Len(s) /\ 1 \in Nat
    BY <1>3, <1>4
<1>6. /\ Sq(SubSeq(s, 1, q))
      /\ Len(SubSeq(s, 1, q)) = IF 1 <= q THEN q - 1 + 1 ELSE 0
      /\ \A i \in 1..Len(SubSeq(s, 1, q)) : SubSeq(s, 1, q)[i] = s[1 + i - 1]
    BY <1>5, SqSub
<1>7. Front(s) = SubSeq(s, 1, q)
    BY <1>3, <1>4 DEF Front
<1> DEFINE f == Front(s)
<1>8. /\ Sq(f) /\ Len(f) = IF 1 <= q THEN q - 1 + 1 ELSE 0
      /\ \A i \in 1..Len(f) : f[i] = s[1 + i - 1]
    BY <1>6, <1>7
<1> HIDE DEF f
<1>9. Len(f) = q /\ \A i \in 1..q : f[i] = s[i]
    BY <1>8
<1>10. Len(s) \in DOMAIN s /\ Last(s) = s[Len(s)]
    BY <1>1, <1>2 DEF Last
<1>11. q = Len(s) - 1
    BY <1>3, <1>4
<1>12. QED
    BY <1>8, <1>9, <1>10, <1>11 DEF f
---------------------------------------------------------------------------
(* Operators on values.                                                    *)

LEMMA LiveConstants ==
    ASSUME NEW nc, NEW no
    PROVE  /\ Live(Undefined, nc, no) /\ Live(Null, nc, no) /\ Live(NaN, nc, no)
           /\ Live(Tdz, nc, no) /\ Live(Stale, nc, no)
           /\ \A x : Live(Bool(x), nc, no) /\ Live(Str(x), nc, no) /\ Live(Error(x), nc, no)
                     /\ Live(Native(x), nc, no)
           /\ \A n \in Int : Live(Num(n), nc, no)
           /\ \A c \in 1..nc : Live(Fn(c), nc, no)
           /\ \A o \in 1..no : Live(Obj(o), nc, no)
           /\ \A v : Primitive(v) => Live(v, nc, no)
BY DEF Live, Undefined, Null, NaN, Tdz, Stale, Bool, Str, Error, Native, Num, Fn, Obj, Primitive

LEMMA NumberIsInt ==
    ASSUME NEW v, NEW nc, NEW no, Live(v, nc, no), ToNumber(v) # NaN
    PROVE  ToNumber(v)[2] \in Int
BY DEF ToNumber, Live, Num, NaN, Null

LEMMA BinaryLive ==
    ASSUME NEW op \in Calculated, NEW u, NEW v, NEW nc, NEW no,
           Live(u, nc, no), Live(v, nc, no)
    PROVE  Live(BinaryOp(op, u, v), nc, no)
<1>1. \A x : Live(Bool(x), nc, no) /\ Live(Str(x), nc, no)
    BY LiveConstants
<1>2. Live(NaN, nc, no) /\ \A n \in Int : Live(Num(n), nc, no)
    BY LiveConstants
<1>3. ToNumber(u) # NaN /\ ToNumber(v) # NaN =>
          ToNumber(u)[2] \in Int /\ ToNumber(v)[2] \in Int
    BY NumberIsInt
<1>4. CASE op = "+"
    <2>1. Live(Add(u, v), nc, no)
        BY <1>1, <1>2, <1>3 DEF Add
    <2>2. QED
        BY <1>4, <2>1 DEF BinaryOp
<1>5. CASE op = "-"
    <2>1. BinaryOp(op, u, v) = IF NaN \in {ToNumber(u), ToNumber(v)} THEN NaN
                               ELSE Num(ToNumber(u)[2] - ToNumber(v)[2])
        BY <1>5 DEF BinaryOp, Arith
    <2>2. QED
        BY <1>2, <1>3, <2>1
<1>6. CASE op = "*"
    <2>1. BinaryOp(op, u, v) = IF NaN \in {ToNumber(u), ToNumber(v)} THEN NaN
                               ELSE Num(ToNumber(u)[2] * ToNumber(v)[2])
        BY <1>6 DEF BinaryOp, Arith
    <2>2. QED
        BY <1>2, <1>3, <2>1
<1>7. CASE op \notin {"+", "-", "*"}
    <2>1. \E x : BinaryOp(op, u, v) = Bool(x)
        BY <1>7 DEF BinaryOp, Calculated
    <2>2. QED
        BY <1>1, <2>1
<1>8. QED
    BY <1>4, <1>5, <1>6, <1>7

LEMMA UnaryLive ==
    ASSUME NEW op \in {"!", "-", "+", "typeof", "str"}, NEW v, NEW nc, NEW no, Live(v, nc, no)
    PROVE  Live(UnaryOp(op, v), nc, no)
<1>1. \A x : Live(Bool(x), nc, no) /\ Live(Str(x), nc, no)
    BY LiveConstants
<1>2. Live(NaN, nc, no) /\ \A n \in Int : Live(Num(n), nc, no)
    BY LiveConstants
<1>3. ToNumber(v) # NaN => ToNumber(v)[2] \in Int
    BY NumberIsInt
<1>4. Live(ToNumber(v), nc, no)
    BY <1>2 DEF ToNumber
<1>5. CASE op = "-"
    BY <1>2, <1>3, <1>5 DEF UnaryOp
<1>6. CASE op # "-"
    BY <1>1, <1>4, <1>6 DEF UnaryOp
<1>7. QED
    BY <1>5, <1>6

LEMMA UnitsGood ==
    ASSUME NEW v, NEW nc, NEW no
    PROVE  Good(Units(v), nc, no)
<1>1. CASE v[1] = "str" /\ Len(v[2]) \in Nat
    <2>1. PICK n \in Nat : n = Len(v[2])
        BY <1>1
    <2> DEFINE s == [i \in 1..n |-> Str(SubSeq(v[2], i, i))]
    <2>2. Units(v) = s
        BY <1>1, <2>1 DEF Units
    <2>3. DOMAIN s = 1..n /\ s = [i \in 1..n |-> s[i]]
        OBVIOUS
    <2>4. \A i \in 1..n : Live(s[i], nc, no)
        BY LiveConstants
    <2> HIDE DEF s
    <2>5. Sq(s)
        BY <2>3, SqFunction
    <2>6. QED
        BY <2>2, <2>3, <2>4, <2>5 DEF Good, AllLive
<1>2. CASE ~(v[1] = "str" /\ Len(v[2]) \in Nat)
    <2>1. Units(v) = <<>>
        BY <1>2, Zenon DEF Units
    <2>2. QED
        BY <2>1, GoodTuples
<1>3. QED
    BY <1>1, <1>2

(* A key is an index as it stands, or by its text.                         *)
LEMMA IndexLive ==
    ASSUME NEW key, NEW nc, NEW no, Live(key, nc, no)
    PROVE  /\ Live(AsIndex(key), nc, no)
           /\ IsIndex(AsIndex(key)) => AsIndex(key)[2] \in Nat
           /\ AsIndex(key) = Str("length") => key = Str("length")
<1>1. CASE \E i \in Digits : key = Str(ToString(i))
    <2>1. PICK i \in Digits : AsIndex(key) = Num(i)
        BY <1>1 DEF AsIndex
    <2>2. i \in Nat
        BY <2>1 DEF Digits
    <2>3. QED
        BY <2>1, <2>2 DEF Live, Num, Str
<1>2. CASE ~\E i \in Digits : key = Str(ToString(i))
    <2>1. AsIndex(key) = key
        BY <1>2 DEF AsIndex
    <2>2. QED
        BY <2>1 DEF IsIndex, Live
<1>3. QED
    BY <1>1, <1>2

LEMMA ResizedGood ==
    ASSUME NEW s, NEW n \in Nat, NEW nc, NEW no, Good(s, nc, no)
    PROVE  Good(Resized(s, n), nc, no)
<1>1. Len(s) \in Nat /\ \A i \in 1..Len(s) : Live(s[i], nc, no)
    BY GoodFacts
<1> DEFINE t == [i \in 1..n |-> IF i <= Len(s) THEN s[i] ELSE Undefined]
<1>2. DOMAIN t = 1..n /\ t = [i \in 1..n |-> t[i]]
    OBVIOUS
<1>3. \A i \in 1..n : Live(t[i], nc, no)
    <2> TAKE i \in 1..n
    <2>1. CASE i <= Len(s)
        <3>1. i \in 1..Len(s)
            BY <1>1, <2>1
        <3>2. QED
            BY <1>1, <2>1, <3>1
    <2>2. CASE ~(i <= Len(s))
        BY <2>2, LiveConstants
    <2>3. QED
        BY <2>1, <2>2
<1>4. Resized(s, n) = t
    BY DEF Resized
<1> HIDE DEF t
<1>5. Sq(t)
    BY <1>2, SqFunction
<1>6. QED
    BY <1>2, <1>3, <1>4, <1>5 DEF Good, AllLive

---------------------------------------------------------------------------
(* The heap.                                                               *)

ObjectOk(h, nc, no) ==
    /\ h = [array |-> h.array, elems |-> h.elems, props |-> h.props, proto |-> h.proto]
    /\ h.array \in BOOLEAN
    /\ Good(h.elems, nc, no)
    /\ AllLive(h.props, nc, no)

HeapLive(objs, nc, no) ==
    /\ Sq(objs)
    /\ \A o \in DOMAIN objs : ObjectOk(objs[o], nc, no)

LEMMA HeapMonotone ==
    ASSUME NEW nc \in Nat, NEW no \in Nat, NEW mc \in Nat, NEW mo \in Nat,
           nc <= mc, no <= mo, NEW objs, HeapLive(objs, nc, no)
    PROVE  HeapLive(objs, mc, mo)
BY LiveMonotone DEF HeapLive, ObjectOk

LEMMA NewCells ==
    ASSUME NEW nc, NEW no
    PROVE  /\ \A p : ObjectOk(PlainObject(p), nc, no)
           /\ \A s : Good(s, nc, no) => ObjectOk(ArrayOf(s), nc, no)
           /\ \A c \in 1..nc : ObjectOk(PrototypeOf(c), nc, no)
<1>1. \A p : ObjectOk(PlainObject(p), nc, no)
    BY GoodTuples DEF ObjectOk, PlainObject, AllLive, NoProps
<1>2. \A s : Good(s, nc, no) => ObjectOk(ArrayOf(s), nc, no)
    BY DEF ObjectOk, ArrayOf, AllLive, NoProps
<1>3. ASSUME NEW c \in 1..nc PROVE ObjectOk(PrototypeOf(c), nc, no)
    <2> DEFINE ps == [x \in {"constructor"} |-> Fn(c)]
    <2>1. PrototypeOf(c) = [array |-> FALSE, elems |-> <<>>, props |-> ps, proto |-> Null]
        <3>1. PrototypeOf(c) = [PlainObject(Null) EXCEPT !.props = ps]
            BY DEF PrototypeOf
        <3> HIDE DEF ps
        <3>2. QED
            BY <3>1 DEF PlainObject
    <2>2. Live(Fn(c), nc, no)
        BY LiveConstants
    <2>3. AllLive(ps, nc, no)
        <3> SUFFICES ASSUME NEW x \in DOMAIN ps PROVE Live(ps[x], nc, no)
            BY DEF AllLive
        <3>1. ps[x] = Fn(c)
            OBVIOUS
        <3>2. QED
            BY <2>2, <3>1
    <2> HIDE DEF ps
    <2>4. QED
        BY <2>1, <2>3, GoodTuples DEF ObjectOk
<1>4. QED
    BY <1>1, <1>2, <1>3

LEMMA HeapAppend ==
    ASSUME NEW objs, NEW h, NEW nc, NEW no, HeapLive(objs, nc, no), ObjectOk(h, nc, no)
    PROVE  HeapLive(Append(objs, h), nc, no) /\ Len(Append(objs, h)) = Len(objs) + 1
<1>1. Sq(objs) /\ Len(objs) \in Nat /\ DOMAIN objs = 1..Len(objs)
    BY SqFacts DEF HeapLive
<1>2. DOMAIN Append(objs, h) = 1..(Len(objs) + 1)
    BY <1>1, SqAppend, SqFacts
<1>3. \A o \in 1..(Len(objs) + 1) : ObjectOk(Append(objs, h)[o], nc, no)
    <2> TAKE o \in 1..(Len(objs) + 1)
    <2>1. o \in 1..Len(objs) \/ o = Len(objs) + 1
        BY <1>1
    <2>2. QED
        BY <1>1, <2>1, SqAppend DEF HeapLive
<1>4. QED
    BY <1>1, <1>2, <1>3, SqAppend DEF HeapLive

(* One object changes.                                                     *)
LEMMA HeapExcept ==
    ASSUME NEW objs, NEW o, NEW h, NEW nc, NEW no, HeapLive(objs, nc, no), ObjectOk(h, nc, no)
    PROVE  HeapLive([objs EXCEPT ![o] = h], nc, no) /\ Len([objs EXCEPT ![o] = h]) = Len(objs)
BY SqExcept DEF HeapLive

LEMMA ElemsChange ==
    ASSUME NEW objs, NEW o \in DOMAIN objs, NEW s, NEW nc, NEW no,
           HeapLive(objs, nc, no), Good(s, nc, no)
    PROVE  /\ HeapLive([objs EXCEPT ![o].elems = s], nc, no)
           /\ Len([objs EXCEPT ![o].elems = s]) = Len(objs)
<1> DEFINE h == [objs[o] EXCEPT !.elems = s]
<1>1. ObjectOk(objs[o], nc, no)
    BY DEF HeapLive
<1>2. h = [array |-> objs[o].array, elems |-> s, props |-> objs[o].props, proto |-> objs[o].proto]
    BY <1>1 DEF ObjectOk
<1>3. ObjectOk(h, nc, no)
    BY <1>1, <1>2 DEF ObjectOk
<1>4. [objs EXCEPT ![o].elems = s] = [objs EXCEPT ![o] = h]
    OBVIOUS
<1> HIDE DEF h
<1>5. QED
    BY <1>3, <1>4, HeapExcept

LEMMA PropsChange ==
    ASSUME NEW objs, NEW o \in DOMAIN objs, NEW ps, NEW nc, NEW no,
           HeapLive(objs, nc, no), AllLive(ps, nc, no)
    PROVE  /\ HeapLive([objs EXCEPT ![o].props = ps], nc, no)
           /\ Len([objs EXCEPT ![o].props = ps]) = Len(objs)
<1> DEFINE h == [objs[o] EXCEPT !.props = ps]
<1>1. ObjectOk(objs[o], nc, no)
    BY DEF HeapLive
<1>2. h = [array |-> objs[o].array, elems |-> objs[o].elems, props |-> ps, proto |-> objs[o].proto]
    BY <1>1 DEF ObjectOk
<1>3. ObjectOk(h, nc, no)
    BY <1>1, <1>2 DEF ObjectOk
<1>4. [objs EXCEPT ![o].props = ps] = [objs EXCEPT ![o] = h]
    OBVIOUS
<1> HIDE DEF h
<1>5. QED
    BY <1>3, <1>4, HeapExcept

LEMMA LookupLive ==
    ASSUME NEW objs, NEW o, NEW key, NEW nc, NEW no, HeapLive(objs, nc, no)
    PROVE  Live(Lookup(objs, o, key), nc, no)
<1> DEFINE hs == Holders(objs, o, key)
<1>1. \A h \in hs : h \in DOMAIN objs /\ key \in DOMAIN objs[h].props
    BY DEF Holders
<1> HIDE DEF hs
<1>2. CASE hs = {}
    BY <1>2, LiveConstants DEF Lookup, hs
<1>3. CASE hs # {}
    <2>1. (CHOOSE h \in hs : TRUE) \in hs
        BY <1>3
    <2>2. Lookup(objs, o, key) = objs[CHOOSE h \in hs : TRUE].props[key]
        BY <1>3 DEF Lookup, hs
    <2>3. QED
        BY <1>1, <2>1, <2>2 DEF HeapLive, ObjectOk, AllLive
<1>4. QED
    BY <1>2, <1>3

LEMMA ElementsGood ==
    ASSUME NEW objs, NEW v, NEW nc, NEW no, no = Len(objs),
           HeapLive(objs, nc, no), Live(v, nc, no)
    PROVE  Good(Elements(objs, v), nc, no)
<1>1. CASE IsArray(objs, v)
    <2>1. v[2] \in DOMAIN objs
        BY <1>1, SqFacts DEF IsArray, Live, HeapLive
    <2>2. QED
        BY <1>1, <2>1 DEF Elements, HeapLive, ObjectOk
<1>2. CASE ~IsArray(objs, v)
    BY <1>2, UnitsGood DEF Elements
<1>3. QED
    BY <1>1, <1>2

LEMMA GetPropertyLive ==
    ASSUME NEW objs, NEW base, NEW k, NEW nc, NEW no, no = Len(objs),
           HeapLive(objs, nc, no), Live(base, nc, no), Live(k, nc, no)
    PROVE  Live(GetProperty(objs, base, k), nc, no)
<1>1. PICK key, es : key = AsIndex(k) /\ es = Elements(objs, base)
    OBVIOUS
<1>2. Len(es) \in Nat /\ \A i \in 1..Len(es) : Live(es[i], nc, no)
    BY <1>1, ElementsGood, GoodFacts
<1>3. CASE Iterable(objs, base) /\ IsIndex(key)
    <2>1. key[2] \in Nat
        BY <1>1, <1>3, IndexLive
    <2>2. key[2] < Len(es) => key[2] + 1 \in 1..Len(es)
        BY <1>2, <2>1
    <2>3. GetProperty(objs, base, k) =
              IF key[2] < Len(es) THEN es[key[2] + 1] ELSE Undefined
        BY <1>1, <1>3 DEF GetProperty
    <2>4. QED
        BY <1>2, <2>2, <2>3, LiveConstants
<1>4. CASE ~(Iterable(objs, base) /\ IsIndex(key))
    <2>1. GetProperty(objs, base, k) \in
              {Num(Len(es)), Lookup(objs, base[2], ToStr(key)), Undefined}
        BY <1>1, <1>4 DEF GetProperty
    <2>2. Live(Num(Len(es)), nc, no)
        BY <1>2 DEF Live, Num
    <2>3. QED
        BY <2>1, <2>2, LookupLive, LiveConstants
<1>5. QED
    BY <1>3, <1>4

(* What a write that is not refused has for a base and for a length.       *)
LEMMA NotRefused ==
    ASSUME NEW objs, NEW base, NEW key, NEW v, NEW nc, NEW no, Live(v, nc, no),
           SetFault(objs, base, key, v) = NoError
    PROVE  /\ base[1] = "obj" \/ (base[1] = "fn" /\ key = Str("prototype"))
           /\ IsArray(objs, base) /\ key = Str("length") => ToNumber(v)[2] \in Nat
<1>1. \A e : Error(e) # NoError
    BY DEF Error, NoError
<1>2. base[1] = "obj" \/ (base[1] = "fn" /\ key = Str("prototype"))
    BY <1>1 DEF SetFault
<1>3. IsArray(objs, base) /\ key = Str("length") => IsIndex(ToNumber(v))
    BY <1>1, <1>2 DEF SetFault
<1>4. IsIndex(ToNumber(v)) => ToNumber(v)[2] \in Nat
    <2>1. IsIndex(ToNumber(v)) => ToNumber(v) # NaN
        BY DEF IsIndex, NaN
    <2>2. QED
        BY <2>1, NumberIsInt DEF IsIndex
<1>5. QED
    BY <1>2, <1>3, <1>4

LEMMA SetPropertyLive ==
    ASSUME NEW objs, NEW base, NEW k, NEW v, NEW nc, NEW no,
           base[1] = "obj", base[2] \in DOMAIN objs, SetFault(objs, base, k, v) = NoError,
           HeapLive(objs, nc, no), Live(k, nc, no), Live(v, nc, no)
    PROVE  /\ HeapLive(SetProperty(objs, base[2], k, v), nc, no)
           /\ Len(SetProperty(objs, base[2], k, v)) = Len(objs)
<1>1. PICK o \in DOMAIN objs : o = base[2]
    OBVIOUS
<1>2. PICK key, es : key = AsIndex(k) /\ es = objs[o].elems
    OBVIOUS
<1>3. Good(es, nc, no) /\ AllLive(objs[o].props, nc, no)
    BY <1>2 DEF HeapLive, ObjectOk
<1>4. Len(es) \in Nat
    BY <1>3, GoodFacts
<1>5. CASE objs[o].array /\ IsIndex(key)
    <2>1. key[2] \in Nat
        BY <1>2, <1>5, IndexLive
    <2>2. PICK n \in Nat : n = IF key[2] < Len(es) THEN Len(es) ELSE key[2] + 1
        BY <1>4, <2>1
    <2>3. PICK s : s = [Resized(es, n) EXCEPT ![key[2] + 1] = v]
        OBVIOUS
    <2>4. Good(s, nc, no)
        BY <1>3, <2>3, ResizedGood, GoodExcept
    <2>5. SetProperty(objs, o, k, v) = [objs EXCEPT ![o].elems = s]
        BY <1>2, <1>5, <2>2, <2>3 DEF SetProperty
    <2>6. QED
        BY <1>1, <2>4, <2>5, ElemsChange
<1>6. CASE ~(objs[o].array /\ IsIndex(key)) /\ objs[o].array /\ key = Str("length")
    <2>1. IsArray(objs, base) /\ k = Str("length")
        BY <1>1, <1>2, <1>6, IndexLive DEF IsArray
    <2>2. PICK n \in Nat : n = ToNumber(v)[2]
        BY <2>1, NotRefused
    <2>3. PICK s : s = Resized(es, n)
        OBVIOUS
    <2>4. Good(s, nc, no)
        BY <1>3, <2>3, ResizedGood
    <2>5. SetProperty(objs, o, k, v) = [objs EXCEPT ![o].elems = s]
        BY <1>2, <1>6, <2>2, <2>3 DEF SetProperty
    <2>6. QED
        BY <1>1, <2>4, <2>5, ElemsChange
<1>7. CASE ~(objs[o].array /\ IsIndex(key)) /\ ~(objs[o].array /\ key = Str("length"))
    <2>1. PICK ps : ps = Merged([x \in {ToStr(key)} |-> v], objs[o].props)
        OBVIOUS
    <2>2. AllLive(ps, nc, no)
        BY <1>3, <2>1 DEF AllLive, Merged
    <2>3. SetProperty(objs, o, k, v) = [objs EXCEPT ![o].props = ps]
        BY <1>2, <1>7, <2>1 DEF SetProperty
    <2>4. QED
        BY <1>1, <2>2, <2>3, PropsChange
<1>8. QED
    BY <1>5, <1>6, <1>7

LEMMA SpreadIntoLive ==
    ASSUME NEW objs, NEW o \in DOMAIN objs, NEW v, NEW nc, NEW no, no = Len(objs),
           HeapLive(objs, nc, no), Live(v, nc, no)
    PROVE  /\ HeapLive(SpreadInto(objs, o, v), nc, no)
           /\ Len(SpreadInto(objs, o, v)) = Len(objs)
<1>1. PICK es, listed : es = Elements(objs, v) /\ listed = ByIndex(es)
    OBVIOUS
<1>2. \A i \in DOMAIN es : Live(es[i], nc, no)
    BY <1>1, ElementsGood DEF Good, AllLive
<1>3. AllLive(listed, nc, no)
    <2> SUFFICES ASSUME NEW x \in DOMAIN listed PROVE Live(listed[x], nc, no)
        BY DEF AllLive
    <2>1. x \in {ToString(i - 1) : i \in DOMAIN es}
        BY <1>1 DEF ByIndex
    <2>2. PICK j : j = CHOOSE i \in DOMAIN es : ToString(i - 1) = x
        OBVIOUS
    <2>3. j \in DOMAIN es
        BY <2>1, <2>2
    <2>4. listed[x] = es[j]
        BY <1>1, <2>1, <2>2 DEF ByIndex
    <2>5. QED
        BY <1>2, <2>3, <2>4
<1>4. \A p \in DOMAIN objs : AllLive(objs[p].props, nc, no)
    BY DEF HeapLive, ObjectOk
<1>5. PICK given : given = Merged(listed, objs[o].props)
    OBVIOUS
<1>6. AllLive(given, nc, no)
    BY <1>3, <1>4, <1>5 DEF AllLive, Merged
<1>7. PICK ps : ps = IF v[1] = "obj" THEN Merged(objs[v[2]].props, given) ELSE given
    OBVIOUS
<1>8. AllLive(ps, nc, no)
    <2>1. CASE v[1] = "obj"
        <3>1. v[2] \in DOMAIN objs
            BY <2>1, SqFacts DEF Live, HeapLive
        <3>2. PICK qs : qs = objs[v[2]].props /\ AllLive(qs, nc, no)
            BY <1>4, <3>1
        <3>3. AllLive(Merged(qs, given), nc, no)
            BY <1>6, <3>2 DEF AllLive, Merged
        <3>4. QED
            BY <1>7, <2>1, <3>2, <3>3
    <2>2. CASE v[1] # "obj"
        BY <1>6, <1>7, <2>2
    <2>3. QED
        BY <2>1, <2>2
<1>9. SpreadInto(objs, o, v) = [objs EXCEPT ![o].props = ps]
    BY <1>1, <1>5, <1>7 DEF SpreadInto
<1>10. /\ HeapLive([objs EXCEPT ![o].props = ps], nc, no)
       /\ Len([objs EXCEPT ![o].props = ps]) = Len(objs)
    BY <1>8, PropsChange
<1>11. QED
    BY <1>9, <1>10

LEMMA DeletePropertyLive ==
    ASSUME NEW objs, NEW o \in DOMAIN objs, NEW key, NEW nc, NEW no,
           HeapLive(objs, nc, no), Live(key, nc, no)
    PROVE  /\ HeapLive(DeleteProperty(objs, o, key), nc, no)
           /\ Len(DeleteProperty(objs, o, key)) = Len(objs)
<1> DEFINE cell == objs[o]
           set   == [cell.elems EXCEPT ![key[2] + 1] = Undefined]
           ps    == [x \in DOMAIN cell.props \ {ToStr(key)} |-> cell.props[x]]
<1>1. Good(cell.elems, nc, no) /\ AllLive(cell.props, nc, no)
    BY DEF HeapLive, ObjectOk
<1>2. CASE objs[o].array /\ IsIndex(key)
    <2>1. Good(set, nc, no)
        BY <1>1, LiveConstants, GoodExcept
    <2>2. DeleteProperty(objs, o, key) \in {[objs EXCEPT ![o].elems = set], objs}
        BY <1>2 DEF DeleteProperty
    <2> HIDE DEF set
    <2>3. QED
        BY <2>1, <2>2, ElemsChange
<1>3. CASE ~(objs[o].array /\ IsIndex(key))
    <2>1. AllLive(ps, nc, no)
        BY <1>1 DEF AllLive
    <2>2. DeleteProperty(objs, o, key) = [objs EXCEPT ![o].props = ps]
        BY <1>3 DEF DeleteProperty
    <2> HIDE DEF ps
    <2>8. /\ HeapLive([objs EXCEPT ![o].props = ps], nc, no)
          /\ Len([objs EXCEPT ![o].props = ps]) = Len(objs)
        BY <2>1, PropsChange
    <2>9. QED
        BY <2>2, <2>8
<1>4. QED
    BY <1>2, <1>3

---------------------------------------------------------------------------
(* The invariant of a loaded program: every reference names something that *)
(* exists, and what StackProved says, with what keeps frames, handlers and *)
(* open upvalues in order.                                                 *)

Protos == Code[prog].protos
NC     == Len(closures)
NO     == Len(heap)

Decoded == prog \in DOMAIN Code /\ Loads(prog)

(* No finally block to return from.                                        *)
Plain == \A n \in DOMAIN Protos : \A i \in DOMAIN Protos[n].code :
             Protos[n].code[i].op # "RET_SUB"

(* The program was loaded from bytecode, or compiled to bytecode the       *)
(* loader would accept.  RET_SUB tests where it goes only in loaded code.  *)
Vouched == loaded \/ (Loads(prog) /\ Plain)

StackOk == Good(stack, NC, NO)

HeapOk == HeapLive(heap, NC, NO) /\ AllLive(globals, NC, NO)

ClosureOk(c) ==
    /\ c = [fn |-> c.fn, hasThis |-> c.hasThis, arrow |-> c.arrow, this |-> c.this,
            ups |-> c.ups, proto |-> c.proto]
    /\ c.fn \in DOMAIN Protos
    /\ Live(c.this, NC, NO)
    /\ c.proto \in 0..NO
    /\ Sq(c.ups) /\ Len(c.ups) = Len(Protos[c.fn].upvals)
    /\ \A u \in DOMAIN c.ups : c.ups[u] \in DOMAIN cells

ClosuresOk == Sq(closures) /\ \A c \in DOMAIN closures : ClosureOk(closures[c])

FrameOk(f) ==
    /\ f = [fn |-> f.fn, closure |-> f.closure, ip |-> f.ip, base |-> f.base,
            construct |-> f.construct]
    /\ f.closure \in DOMAIN closures
    /\ f.fn = closures[f.closure].fn
    /\ f.base \in Nat /\ f.base >= 2

FramesOk ==
    /\ Sq(frames) /\ frames # <<>>
    /\ \A i \in DOMAIN frames : FrameOk(frames[i])
    /\ \A i, j \in DOMAIN frames : i < j => FloorOf(i) < frames[j].base
    /\ \A i \in DOMAIN frames :
          TopOf(i) >= FloorOf(i) /\ Found(i, frames[i].ip, TopOf(i) - FloorOf(i))

HandlerOk(t) ==
    /\ t.frames \in DOMAIN frames
    /\ t.sp \in Nat /\ t.sp >= FloorOf(t.frames)
    /\ Found(t.frames, t.target, t.sp + 1 - FloorOf(t.frames))

HandlersOk ==
    /\ Sq(trys)
    /\ \A k \in DOMAIN trys : HandlerOk(trys[k])
    /\ \A j, k \in DOMAIN trys : j < k => trys[j].frames <= trys[k].frames

(* The slot is a local of a frame.                                         *)
Local(slot) ==
    \E i \in DOMAIN frames : slot - frames[i].base \in 1..FrameFun(i).nLocals

CellOk(c) ==
    /\ c = [open |-> c.open, slot |-> c.slot, val |-> c.val]
    /\ c.open \in BOOLEAN
    /\ Live(c.val, NC, NO)
    /\ c.open => c.slot \in Nat /\ Local(c.slot)

CellsOk ==
    /\ Sq(cells)
    /\ \A c \in DOMAIN cells : CellOk(cells[c])
    /\ \A c, d \in DOMAIN cells :
          cells[c].open /\ cells[d].open /\ cells[c].slot = cells[d].slot => c = d

Inv == Decoded /\ StackOk /\ HeapOk /\ ClosuresOk /\ FramesOk /\ HandlersOk /\ CellsOk

---------------------------------------------------------------------------
(* What the loader has checked, at the frames.                             *)

LEMMA Loaded ==
    ASSUME Decoded, NEW n \in DOMAIN Protos
    PROVE  /\ FunctionRead(Protos, Protos[n])
           /\ Accepted(Protos, n, Verified[prog][n])
BY CodeAssumption, VerdictAssumption DEF Decoded, Loads, Protos

LEMMA Sizes ==
    ASSUME Inv
    PROVE  /\ NC \in Nat /\ DOMAIN closures = 1..NC
           /\ NO \in Nat /\ DOMAIN heap = 1..NO
           /\ Len(stack) \in Nat /\ DOMAIN stack = 1..Len(stack)
           /\ \A i \in 1..Len(stack) : Live(stack[i], NC, NO)
           /\ Len(cells) \in Nat /\ DOMAIN cells = 1..Len(cells)
           /\ Len(trys) \in Nat /\ DOMAIN trys = 1..Len(trys)
           /\ Len(frames) \in Nat /\ DOMAIN frames = 1..Len(frames)
           /\ Len(frames) \in DOMAIN frames
<1>1. Sq(closures) /\ Sq(heap) /\ Sq(cells) /\ Sq(trys) /\ Sq(frames)
    BY DEF Inv, ClosuresOk, HeapOk, HeapLive, CellsOk, HandlersOk, FramesOk
<1>2. Good(stack, NC, NO)
    BY DEF Inv, StackOk
<1>3. Len(frames) # 0
    <2>1. frames # <<>>
        BY DEF Inv, FramesOk
    <2>2. QED
        BY <1>1, <2>1, EmptySeq DEF Sq
<1>4. Len(frames) \in Nat /\ DOMAIN frames = 1..Len(frames)
    BY <1>1, SqFacts
<1>5. Len(frames) \in DOMAIN frames
    BY <1>3, <1>4
<1>6. Len(stack) \in Nat /\ DOMAIN stack = 1..Len(stack)
      /\ \A i \in 1..Len(stack) : Live(stack[i], NC, NO)
    BY <1>2, GoodFacts
<1>7. QED
    BY <1>1, <1>4, <1>5, <1>6, SqFacts DEF NC, NO

LEMMA AtFrame ==
    ASSUME Inv, NEW i \in DOMAIN frames
    PROVE  /\ frames[i].fn \in DOMAIN Protos
           /\ FrameFun(i) = Protos[frames[i].fn]
           /\ FunctionRead(Protos, FrameFun(i))
           /\ Accepted(Protos, frames[i].fn, Verified[prog][frames[i].fn])
           /\ FrameFun(i).nLocals \in Nat
           /\ FloorOf(i) \in Nat /\ FloorOf(i) = frames[i].base + FrameFun(i).nLocals
           /\ frames[i].base \in Nat /\ frames[i].base >= 2
           /\ TopOf(i) \in Nat /\ TopOf(i) >= FloorOf(i)
<1>1. FrameOk(frames[i]) /\ TopOf(i) >= FloorOf(i)
    BY DEF Inv, FramesOk
<1>2. ClosureOk(closures[frames[i].closure])
    BY <1>1 DEF Inv, ClosuresOk, FrameOk
<1>3. frames[i].fn \in DOMAIN Protos
    BY <1>1, <1>2 DEF FrameOk, ClosureOk
<1>4. FunctionRead(Protos, FrameFun(i)) /\ FrameFun(i) = Protos[frames[i].fn]
      /\ Accepted(Protos, frames[i].fn, Verified[prog][frames[i].fn])
    BY <1>3, Loaded DEF Inv, FrameFun, Protos
<1>5. FrameFun(i).nLocals \in Nat
    BY <1>4 DEF FunctionRead
<1>6. frames[i].base \in Nat /\ frames[i].base >= 2
    BY <1>1 DEF FrameOk
<1>7. TopOf(i) \in Nat
    <2>1. CASE i = Len(frames)
        BY <2>1, Sizes DEF TopOf
    <2>2. CASE i # Len(frames)
        <3>1. i + 1 \in DOMAIN frames
            BY <2>2, Sizes
        <3>2. FrameOk(frames[i + 1])
            BY <3>1 DEF Inv, FramesOk
        <3>3. QED
            BY <2>2, <3>2 DEF TopOf, FrameOk
    <2>3. QED
        BY <2>1, <2>2
<1>8. QED
    BY <1>1, <1>3, <1>4, <1>5, <1>6, <1>7 DEF FloorOf

LEMMA AtShape ==
    ASSUME Inv, NEW i \in DOMAIN frames, NEW s \in ShapesOf(i)
    PROVE  /\ s[1] \in DOMAIN FrameFun(i).code
           /\ s[2] >= 0 /\ s[2] >= MinIn(FrameFun(i).code[s[1]])
           /\ Successors(FrameFun(i), s) \subseteq ShapesOf(i)
           /\ OperandOk(Protos, FrameFun(i), FrameFun(i).code[s[1]])
BY AtFrame DEF Accepted, VerifyPass1, VerifyPass2, ShapeOk, ShapesOf

(* The running instruction.                                                *)
LEMMA Here ==
    ASSUME Inv
    PROVE  /\ Frame = frames[Len(frames)]
           /\ Fun = FrameFun(Len(frames)) /\ Fun = Protos[Frame.fn]
           /\ I = Fun.code[Frame.ip] /\ Frame.ip \in DOMAIN Fun.code /\ Frame.ip \in Nat
           /\ Depth = Len(stack) - FloorOf(Len(frames)) /\ Depth \in Nat
           /\ FloorOf(Len(frames)) \in Nat /\ FloorOf(Len(frames)) >= 2
           /\ Len(stack) = FloorOf(Len(frames)) + Depth
           /\ Frame.base \in Nat /\ Frame.base >= 2 /\ Fun.nLocals \in Nat
           /\ FloorOf(Len(frames)) = Frame.base + Fun.nLocals
           /\ OperandOk(Protos, Fun, I)
           /\ Depth >= MinIn(I)
           /\ \E s \in ShapesOf(Len(frames)) :
                 /\ s[1] = Frame.ip /\ s[2] = Depth
                 /\ Successors(Fun, s) \subseteq ShapesOf(Len(frames))
<1> DEFINE n == Len(frames)
<1>1. n \in DOMAIN frames
    BY Sizes
<1>2. Frame = frames[n]
    BY DEF Frame, Last
<1>3. Fun = FrameFun(n) /\ Fun = Protos[Frame.fn]
    BY <1>2 DEF Fun, FrameFun, Protos
<1>4. I = Fun.code[Frame.ip]
    BY DEF I
<1>5. TopOf(n) = Len(stack)
    BY DEF TopOf
<1>6. FrameFun(n).nLocals \in Nat /\ FloorOf(n) \in Nat /\ frames[n].base \in Nat
      /\ FloorOf(n) = frames[n].base + FrameFun(n).nLocals /\ frames[n].base >= 2
      /\ TopOf(n) >= FloorOf(n)
    BY <1>1, AtFrame
<1>7. Found(n, Frame.ip, Len(stack) - FloorOf(n))
    BY <1>1, <1>2, <1>5 DEF Inv, FramesOk
<1>8. PICK s \in ShapesOf(n) : s[1] = Frame.ip /\ s[2] = Len(stack) - FloorOf(n)
    BY <1>7 DEF Found
<1>9. Len(stack) \in Nat
    BY Sizes
<1>10. Depth = Len(stack) - FloorOf(n) /\ Depth \in Nat
    <2>1. Depth = Len(stack) - frames[n].base - FrameFun(n).nLocals
        BY <1>2, <1>3 DEF Depth
    <2> HIDE DEF n
    <2>2. QED
        BY <2>1, <1>5, <1>6, <1>9
<1>11. /\ s[1] \in DOMAIN FrameFun(n).code
       /\ s[2] >= 0 /\ s[2] >= MinIn(FrameFun(n).code[s[1]])
       /\ Successors(FrameFun(n), s) \subseteq ShapesOf(n)
       /\ OperandOk(Protos, FrameFun(n), FrameFun(n).code[s[1]])
    BY <1>1, AtShape
<1>12. Frame.ip \in Nat
    <2>1. FunctionRead(Protos, FrameFun(n))
        BY <1>1, AtFrame
    <2>2. Sq(FrameFun(n).code)
        BY <2>1 DEF FunctionRead, Sq
    <2>3. QED
        BY <1>8, <1>11, <2>2, SqFacts
<1> HIDE DEF n
<1>13. Len(stack) = FloorOf(n) + Depth
    BY <1>6, <1>9, <1>10
<1>14. Depth >= MinIn(I) /\ OperandOk(Protos, Fun, I) /\ Frame.ip \in DOMAIN Fun.code
    BY <1>3, <1>4, <1>8, <1>10, <1>11
<1>15. s[1] = Frame.ip /\ s[2] = Depth /\ Successors(Fun, s) \subseteq ShapesOf(n)
    BY <1>3, <1>8, <1>10, <1>11
<1>16. Fun.nLocals \in Nat /\ Frame.base \in Nat /\ Frame.base >= 2
       /\ FloorOf(n) = Frame.base + Fun.nLocals
    BY <1>2, <1>3, <1>6
<1>17. \E u \in ShapesOf(n) :
          /\ u[1] = Frame.ip /\ u[2] = Depth
          /\ Successors(Fun, u) \subseteq ShapesOf(n)
    BY <1>15
<1>18. Depth = Len(stack) - FloorOf(n) /\ Depth \in Nat /\ FloorOf(n) \in Nat /\ FloorOf(n) >= 2
    BY <1>6, <1>10, <1>16
<1>19. QED
    BY <1>2, <1>3, <1>4, <1>12, <1>13, <1>14, <1>16, <1>17, <1>18 DEF n

---------------------------------------------------------------------------
(* What the verifier's tables say of the running instruction.              *)

LEMMA DepthTable ==
    ASSUME NEW i
    PROVE  /\ i.op \in Pushes => MinIn(i) = 0 /\ Delta(i) = 1
           /\ i.op \in Binary2 => MinIn(i) = 2 /\ Delta(i) = -1
           /\ i.op \in Unary1 => MinIn(i) = 1 /\ Delta(i) = 0
           /\ i.op = "DUP2" => MinIn(i) = 2 /\ Delta(i) = 2
           /\ i.op = "SWAP" => MinIn(i) = 2 /\ Delta(i) = 0
           /\ i.op = "ROT3" => MinIn(i) = 3 /\ Delta(i) = 0
           /\ i.op \in {"DUP", "ITER_NEW"} => MinIn(i) = 1 /\ Delta(i) = 1
           /\ i.op \in {"POP", "JUMP_IF_FALSE", "JUMP_IF_TRUE", "RETURN", "THROW", "RET_SUB"} =>
                  MinIn(i) = 1 /\ Delta(i) = -1
           /\ i.op \in {"TDZ", "CLOSE_UPVALS", "TRY_PUSH", "TRY_POP", "JUMP", "GOSUB"} =>
                  MinIn(i) = 0 /\ Delta(i) = 0
           /\ i.op \in {"JF_PEEK", "JT_PEEK", "JNN_PEEK", "OPT_CHAIN"} =>
                  MinIn(i) = 1 /\ Delta(i) = 0
           /\ i.op = "OPT_CALL_CHECK" => MinIn(i) = 2 /\ Delta(i) = 0
           /\ i.op = "ITER_NEXT" => MinIn(i) = 2 /\ Delta(i) = 1
           /\ i.op \in {"CASE", "ARRAY_APPEND", "ARRAY_SPREAD", "ARRAY_REST", "OBJ_SPREAD",
                        "GET_PROP", "SET_PROP_ATOM", "DELETE_PROP"} =>
                  MinIn(i) = 2 /\ Delta(i) = -1
           /\ i.op \in {"DEFINE_PROP", "SET_PROP", "CALL_VARARGS", "NEW_VARARGS"} =>
                  MinIn(i) = 3 /\ Delta(i) = -2
           /\ i.op \in {"CALL", "NEW"} => MinIn(i) = i.x + 2 /\ Delta(i) = -(i.x + 1)
           /\ i.op = "NEW_ARRAY" => MinIn(i) = i.x /\ Delta(i) = 1 - i.x
BY DEF MinIn, Delta, Pushes, Binary2, Unary1, Ends

(* The counts an instruction has are natural numbers.                      *)
LEMMA CountsNat ==
    ASSUME Inv
    PROVE  I.op \in {"CALL", "NEW", "NEW_ARRAY", "GET_LOCAL", "SET_LOCAL", "TDZ",
                     "CLOSE_UPVALS"} => I.x \in Nat
<1>1. FunctionRead(Protos, FrameFun(Len(frames)))
    BY Sizes, AtFrame
<1>2. FunctionRead(Protos, Fun) /\ I = Fun.code[Frame.ip] /\ Frame.ip \in DOMAIN Fun.code
    BY <1>1, Here
<1>3. QED
    BY <1>2 DEF FunctionRead

(* What the verifier takes for a successor of the running instruction,     *)
(* however many handlers there are.                                        *)
Follows(ip, d) == \A t : <<ip, d, t>> \in Successors(Fun, <<Frame.ip, Depth, t>>)

LEMMA FollowsFound ==
    ASSUME Inv, NEW ip, NEW d, Follows(ip, d)
    PROVE  Found(Len(frames), ip, d)
<1>1. PICK s \in ShapesOf(Len(frames)) :
          /\ s[1] = Frame.ip /\ s[2] = Depth
          /\ Successors(Fun, s) \subseteq ShapesOf(Len(frames))
    BY Here
<1>2. PICK t : t = s[3]
    OBVIOUS
<1>3. Successors(Fun, <<Frame.ip, Depth, t>>) = Successors(Fun, s)
    BY <1>1, <1>2 DEF Successors
<1>4. <<ip, d, t>> \in ShapesOf(Len(frames))
    BY <1>1, <1>3 DEF Follows
<1>5. QED
    BY <1>4 DEF Found

(* An instruction that goes on to the next one.                            *)
LEMMA NextFollows ==
    ASSUME Inv, I.op \notin Ends, I.op \notin {"JUMP", "GOSUB", "TRY_PUSH", "TRY_POP"}
    PROVE  Follows(Frame.ip + 1, Depth + Delta(I))
<1>1. Fun.code[Frame.ip] = I
    BY Here
<1>2. QED
    BY <1>1 DEF Successors, Follows

LEMMA NextFound ==
    ASSUME Inv, I.op \notin Ends, I.op # "JUMP", I.op # "GOSUB"
    PROVE  Found(Len(frames), Frame.ip + 1, Depth + Delta(I))
<1>1. PICK s \in ShapesOf(Len(frames)) :
          /\ s[1] = Frame.ip /\ s[2] = Depth
          /\ Successors(Fun, s) \subseteq ShapesOf(Len(frames))
    BY Here
<1>2. Fun.code[s[1]] = I
    BY <1>1, Here
<1>3. \E u \in Successors(Fun, s) : u[1] = Frame.ip + 1 /\ u[2] = Depth + Delta(I)
    BY <1>1, <1>2 DEF Successors
<1>4. QED
    BY <1>1, <1>3 DEF Found

(* An instruction that jumps.                                              *)
LEMMA BranchFollows ==
    ASSUME Inv, I.op \in Jumps
    PROVE  Follows(I.x,
                   IF I.op \in {"CASE", "OPT_CALL_CHECK", "ITER_NEXT"} THEN Depth - 2
                   ELSE IF I.op \in {"TRY_PUSH", "GOSUB"} THEN Depth + 1
                   ELSE Depth + Delta(I))
<1> DEFINE to == IF I.op \in {"CASE", "OPT_CALL_CHECK", "ITER_NEXT"} THEN Depth - 2
                 ELSE IF I.op \in {"TRY_PUSH", "GOSUB"} THEN Depth + 1
                 ELSE Depth + Delta(I)
<1>1. Fun.code[Frame.ip] = I
    BY Here
<1>2. I.op \notin Ends
    BY DEF Ends, Jumps
<1>3. ASSUME NEW t PROVE <<I.x, to, t>> \in Successors(Fun, <<Frame.ip, Depth, t>>)
    <2>1. CASE I.op = "JUMP"
        BY <1>1, <1>2, <2>1 DEF Successors
    <2>2. CASE I.op # "JUMP"
        BY <1>1, <1>2, <2>2 DEF Successors
    <2>3. QED
        BY <2>1, <2>2
<1> HIDE DEF to
<1>4. Follows(I.x, to)
    BY <1>3 DEF Follows
<1>5. QED
    BY <1>4 DEF to

---------------------------------------------------------------------------
(* A step keeps the frames below the one it works on.                      *)

(* What is said of a frame is said of its function and its base.           *)
LEMMA SameFrame ==
    ASSUME prog' = prog, NEW i, frames'[i].fn = frames[i].fn, frames'[i].base = frames[i].base
    PROVE  /\ FrameFun(i)' = FrameFun(i) /\ FloorOf(i)' = FloorOf(i)
           /\ \A ip, d : Found(i, ip, d)' <=> Found(i, ip, d)
BY DEF FrameFun, FloorOf, Found, ShapesOf

(* Closures keep their function.                                           *)
ClosuresKept ==
    \A c \in DOMAIN closures : c \in DOMAIN closures' /\ closures'[c].fn = closures[c].fn

(* The frames from k up are gone, and k has moved to ip.                   *)
LEMMA CutFrames ==
    ASSUME Inv, prog' = prog, ClosuresKept, NEW k \in DOMAIN frames, NEW ip,
           Sq(frames'), Len(frames') = k,
           \A i \in 1..k : i # k => frames'[i] = frames[i],
           frames'[k] = [frames[k] EXCEPT !.ip = ip],
           Len(stack') \in Nat, Len(stack') >= FloorOf(k), Found(k, ip, Len(stack') - FloorOf(k))
    PROVE  /\ FramesOk'
           /\ DOMAIN frames' = 1..k
           /\ \A i \in 1..k : /\ FrameFun(i)' = FrameFun(i) /\ FloorOf(i)' = FloorOf(i)
                              /\ frames'[i].base = frames[i].base
                              /\ \A p, d : Found(i, p, d)' <=> Found(i, p, d)
<1>1. DOMAIN frames = 1..Len(frames) /\ Len(frames) \in Nat /\ k \in 1..Len(frames) /\ k \in Nat
    BY Sizes
<1>2. DOMAIN frames' = 1..k
    BY SqFacts
<1>3. \A i \in DOMAIN frames : FrameOk(frames[i])
    BY DEF Inv, FramesOk
<1>4. frames'[k] = [fn |-> frames[k].fn, closure |-> frames[k].closure, ip |-> ip,
                    base |-> frames[k].base, construct |-> frames[k].construct]
    BY <1>3 DEF FrameOk
<1>5. \A i \in 1..k : /\ frames'[i].fn = frames[i].fn /\ frames'[i].base = frames[i].base
                      /\ frames'[i].closure = frames[i].closure
    BY <1>4
<1>6. \A i \in 1..k : /\ FrameFun(i)' = FrameFun(i) /\ FloorOf(i)' = FloorOf(i)
                      /\ \A p, d : Found(i, p, d)' <=> Found(i, p, d)
    BY <1>5, SameFrame
<1>7. \A i \in 1..k : FrameOk(frames[i])'
    <2> TAKE i \in 1..k
    <2>1. FrameOk(frames[i])
        BY <1>1, <1>3
    <2>2. frames'[i] = [fn |-> frames'[i].fn, closure |-> frames'[i].closure,
                        ip |-> frames'[i].ip, base |-> frames'[i].base,
                        construct |-> frames'[i].construct]
        BY <2>1, <1>4 DEF FrameOk
    <2>3. QED
        BY <1>5, <2>1, <2>2 DEF FrameOk, ClosuresKept
<1>8. \A i \in 1..k : TopOf(i)' >= FloorOf(i)' /\ Found(i, frames[i].ip, TopOf(i) - FloorOf(i))'
    <2> TAKE i \in 1..k
    <2>1. CASE i = k
        <3>1. TopOf(i)' = Len(stack') /\ frames'[i].ip = ip
            BY <2>1, <1>4 DEF TopOf
        <3>3. QED
            BY <2>1, <3>1, <1>6
    <2>2. CASE i # k
        <3>1. i + 1 \in 1..k /\ i # Len(frames) /\ i \in DOMAIN frames
            BY <1>1, <2>2
        <3>2. TopOf(i)' = TopOf(i)
            BY <2>2, <3>1, <1>5 DEF TopOf
        <3>3. TopOf(i) >= FloorOf(i) /\ Found(i, frames[i].ip, TopOf(i) - FloorOf(i))
            BY <3>1 DEF Inv, FramesOk
        <3>4. QED
            BY <2>2, <3>2, <3>3, <1>6
    <2>3. QED
        BY <2>1, <2>2
<1>9. \A i, j \in 1..k : i < j => FloorOf(i)' < frames'[j].base
    <2> TAKE i, j \in 1..k
    <2>1. i < j => FloorOf(i) < frames[j].base
        BY <1>1 DEF Inv, FramesOk
    <2>2. QED
        BY <2>1, <1>5, <1>6
<1>10. frames' # <<>>
    BY <1>1
<1>11. FramesOk'
    BY <1>2, <1>7, <1>8, <1>9, <1>10 DEF FramesOk
<1>12. QED
    BY <1>2, <1>5, <1>6, <1>11

(* The running frame has moved to ip.                                      *)
LEMMA GoFrames ==
    ASSUME Inv, prog' = prog, ClosuresKept, NEW ip, Go(ip),
           Len(stack') \in Nat, Len(stack') >= FloorOf(Len(frames)),
           Found(Len(frames), ip, Len(stack') - FloorOf(Len(frames)))
    PROVE  /\ FramesOk'
           /\ DOMAIN frames' = 1..Len(frames)
           /\ \A i \in 1..Len(frames) :
                 /\ FrameFun(i)' = FrameFun(i) /\ FloorOf(i)' = FloorOf(i)
                 /\ frames'[i].base = frames[i].base
                 /\ \A p, d : Found(i, p, d)' <=> Found(i, p, d)
<1>1. PICK k \in DOMAIN frames : k = Len(frames)
    BY Sizes
<1>2. Sq(frames)
    BY DEF Inv, FramesOk
<1>3. frames' = [frames EXCEPT ![k] = [frames[k] EXCEPT !.ip = ip]]
    BY <1>1 DEF Go
<1>4. /\ Sq(frames') /\ Len(frames') = k
      /\ \A i \in 1..k : frames'[i] = IF i = k THEN [frames[k] EXCEPT !.ip = ip] ELSE frames[i]
    <2> DEFINE v == [frames[k] EXCEPT !.ip = ip]
    <2>1. frames' = [frames EXCEPT ![k] = v]
        BY <1>3
    <2> HIDE DEF v
    <2>2. /\ Sq([frames EXCEPT ![k] = v]) /\ Len([frames EXCEPT ![k] = v]) = Len(frames)
          /\ \A i \in DOMAIN frames :
                [frames EXCEPT ![k] = v][i] = IF i = k THEN v ELSE frames[i]
        BY <1>2, SqExcept
    <2>3. DOMAIN frames = 1..k
        BY <1>1, Sizes
    <2>4. QED
        BY <1>1, <2>1, <2>2, <2>3 DEF v
<1>5. k \in 1..k
    BY <1>1, Sizes
<1>6. Len(stack') >= FloorOf(k) /\ Found(k, ip, Len(stack') - FloorOf(k))
    BY <1>1
<1>7. QED
    BY <1>1, <1>4, <1>5, <1>6, CutFrames

(* The oldest handlers, and the frames they belong to, are still there.    *)
LEMMA CutHandlers ==
    ASSUME Inv, NEW m \in Nat, m <= Len(frames), 1..m \subseteq DOMAIN frames',
           \A i \in 1..m : /\ FloorOf(i)' = FloorOf(i)
                           /\ \A p, d : Found(i, p, d)' <=> Found(i, p, d),
           NEW q \in Nat, q <= Len(trys), Sq(trys'), Len(trys') = q,
           \A j \in 1..q : trys'[j] = trys[j] /\ trys[j].frames <= m
    PROVE  HandlersOk'
<1>1. DOMAIN trys = 1..Len(trys) /\ Len(trys) \in Nat /\ DOMAIN frames = 1..Len(frames)
      /\ Len(frames) \in Nat
    BY Sizes
<1>2. DOMAIN trys' = 1..q
    BY SqFacts
<1>3. \A j \in 1..q : HandlerOk(trys[j])
    BY <1>1 DEF Inv, HandlersOk
<1>4. \A j \in 1..q : HandlerOk(trys[j])'
    <2> TAKE j \in 1..q
    <2>1. PICK t : t = trys[j]
        OBVIOUS
    <2>2. HandlerOk(t) /\ trys'[j] = t /\ t.frames <= m
        BY <1>3, <2>1
    <2>3. t.frames \in 1..m
        BY <1>1, <2>2 DEF HandlerOk
    <2>4. HandlerOk(t)'
        BY <2>2, <2>3 DEF HandlerOk
    <2>5. QED
        BY <2>2, <2>4 DEF HandlerOk
<1>5. \A j, k \in 1..q : j < k => trys[j].frames <= trys[k].frames
    BY <1>1 DEF Inv, HandlersOk
<1>6. \A j, k \in 1..q : j < k => trys'[j].frames <= trys'[k].frames
    BY <1>5
<1>7. QED
    BY <1>2, <1>4, <1>6 DEF HandlersOk

(* A local of a frame is a slot of the stack.                              *)
LEMMA LocalOnStack ==
    ASSUME Inv, NEW slot \in Nat, Local(slot)
    PROVE  slot \in 1..Len(stack)
<1>1. PICK i \in DOMAIN frames : slot - frames[i].base \in 1..FrameFun(i).nLocals
    BY DEF Local
<1>2. FrameFun(i).nLocals \in Nat /\ frames[i].base \in Nat
      /\ FloorOf(i) \in Nat /\ FloorOf(i) = frames[i].base + FrameFun(i).nLocals
    BY AtFrame
<1>3. slot >= 1 /\ slot <= FloorOf(i)
    BY <1>1, <1>2
<1>4. PICK n \in DOMAIN frames : n = Len(frames)
    BY Sizes
<1>5. TopOf(n) = Len(stack) /\ TopOf(n) >= FloorOf(n) /\ FloorOf(n) \in Nat
      /\ FloorOf(n) >= frames[n].base /\ frames[n].base \in Nat
    <2>1. TopOf(n) = Len(stack)
        BY <1>4 DEF TopOf
    <2>2. FloorOf(n) = frames[n].base + FrameFun(n).nLocals /\ FrameFun(n).nLocals \in Nat
          /\ frames[n].base \in Nat /\ FloorOf(n) \in Nat /\ TopOf(n) >= FloorOf(n)
        BY AtFrame
    <2>3. QED
        BY <2>1, <2>2
<1>6. i = n \/ i < n
    BY <1>4, Sizes
<1>7. i < n => FloorOf(i) < frames[n].base
    BY DEF Inv, FramesOk
<1>8. Len(stack) \in Nat
    BY Sizes
<1>9. FloorOf(i) <= Len(stack)
    BY <1>2, <1>5, <1>6, <1>7, <1>8
<1>10. QED
    BY <1>2, <1>3, <1>8, <1>9

(* A local of a frame that is still there is a local.                      *)
LEMMA LocalKept ==
    ASSUME Inv, NEW m \in Nat, m <= Len(frames), 1..m \subseteq DOMAIN frames',
           \A i \in 1..m : FrameFun(i)' = FrameFun(i) /\ frames'[i].base = frames[i].base,
           NEW slot \in Nat, Local(slot),
           m < Len(frames) => slot <= frames[m + 1].base
    PROVE  Local(slot)'
<1>1. DOMAIN frames = 1..Len(frames) /\ Len(frames) \in Nat
    BY Sizes
<1>2. PICK i \in DOMAIN frames : slot - frames[i].base \in 1..FrameFun(i).nLocals
    BY DEF Local
<1>3. i \in 1..m
    <2> SUFFICES ASSUME i > m PROVE FALSE
        BY <1>1
    <2>1. m + 1 \in DOMAIN frames /\ m < Len(frames)
        BY <1>1
    <2>2. /\ FrameFun(m + 1).nLocals \in Nat /\ frames[m + 1].base \in Nat
          /\ FloorOf(m + 1) = frames[m + 1].base + FrameFun(m + 1).nLocals
          /\ frames[i].base \in Nat
        BY <2>1, AtFrame
    <2>3. i = m + 1 \/ FloorOf(m + 1) < frames[i].base
        <3>1. i = m + 1 \/ m + 1 < i
            BY <1>1
        <3>2. QED
            BY <2>1, <3>1 DEF Inv, FramesOk
    <2>4. frames[m + 1].base <= frames[i].base
        BY <2>2, <2>3
    <2>5. slot > frames[i].base
        BY <1>2, <2>2
    <2>6. QED
        BY <2>1, <2>2, <2>4, <2>5
<1>4. QED
    BY <1>2, <1>3 DEF Local


(* The frames' bases are on the stack.                                     *)
LEMMA BaseOnStack ==
    ASSUME Inv, NEW i \in DOMAIN frames
    PROVE  frames[i].base <= Len(stack)
<1>1. PICK n \in DOMAIN frames : n = Len(frames)
    BY Sizes
<1>2. /\ TopOf(n) = Len(stack) /\ TopOf(n) >= FloorOf(n) /\ FloorOf(n) \in Nat
      /\ frames[n].base \in Nat /\ FloorOf(n) >= frames[n].base
    <2>1. TopOf(n) = Len(stack)
        BY <1>1 DEF TopOf
    <2>2. FloorOf(n) = frames[n].base + FrameFun(n).nLocals /\ FrameFun(n).nLocals \in Nat
          /\ frames[n].base \in Nat /\ FloorOf(n) \in Nat /\ TopOf(n) >= FloorOf(n)
        BY AtFrame
    <2>3. QED
        BY <2>1, <2>2
<1>3. FloorOf(i) \in Nat /\ frames[i].base \in Nat /\ FloorOf(i) >= frames[i].base
    <2>1. FloorOf(i) = frames[i].base + FrameFun(i).nLocals /\ FrameFun(i).nLocals \in Nat
          /\ frames[i].base \in Nat /\ FloorOf(i) \in Nat
        BY AtFrame
    <2>2. QED
        BY <2>1
<1>4. i = n \/ i < n
    BY <1>1, Sizes
<1>5. i < n => FloorOf(i) < frames[n].base
    BY DEF Inv, FramesOk
<1>6. Len(stack) \in Nat
    BY Sizes
<1>7. QED
    BY <1>2, <1>3, <1>4, <1>5, <1>6
(* Closures and objects are only added.                                    *)
Grows == /\ NC' \in Nat /\ NC' >= NC
         /\ NO' \in Nat /\ NO' >= NO

LEMMA Growth ==
    ASSUME Inv, Grows
    PROVE  /\ \A v : Live(v, NC, NO) => Live(v, NC', NO')
           /\ \A s : AllLive(s, NC, NO) => AllLive(s, NC', NO')
           /\ \A s : Good(s, NC, NO) => Good(s, NC', NO')
           /\ HeapLive(heap, NC, NO) => HeapLive(heap, NC', NO')
<1>1. NC \in Nat /\ NO \in Nat
    BY Sizes
<1> DEFINE nc == NC
           no == NO
           mc == NC'
           mo == NO'
<1>2. nc \in Nat /\ no \in Nat /\ mc \in Nat /\ mo \in Nat /\ nc <= mc /\ no <= mo
    BY <1>1 DEF Grows
<1> HIDE DEF nc, no, mc, mo
<1>3. /\ \A v : Live(v, nc, no) => Live(v, mc, mo)
      /\ \A s : AllLive(s, nc, no) => AllLive(s, mc, mo)
      /\ \A s : Good(s, nc, no) => Good(s, mc, mo)
      /\ HeapLive(heap, nc, no) => HeapLive(heap, mc, mo)
    BY <1>2, LiveMonotone, HeapMonotone
<1>4. QED
    BY <1>3 DEF nc, no, mc, mo

(* The value of an upvalue.                                                *)
LEMMA CellLive ==
    ASSUME Inv, NEW c \in DOMAIN cells
    PROVE  /\ Live(CellValue(c), NC, NO)
           /\ cells[c].open => cells[c].slot \in 1..Len(stack)
<1>1. CellOk(cells[c])
    BY DEF Inv, CellsOk
<1>2. cells[c].open => cells[c].slot \in 1..Len(stack)
    BY <1>1, LocalOnStack DEF CellOk
<1>3. QED
    BY <1>1, <1>2, Sizes DEF CellOk, CellValue

LEMMA SameCells ==
    ASSUME Inv, Grows, cells' = cells,
           \A slot \in Nat : Local(slot) => Local(slot)'
    PROVE  CellsOk'
<1>1. \A c \in DOMAIN cells : CellOk(cells[c])
    BY DEF Inv, CellsOk
<1>2. \A c \in DOMAIN cells : CellOk(cells[c])'
    <2> TAKE c \in DOMAIN cells
    <2>1. PICK x : x = cells[c]
        OBVIOUS
    <2>2. CellOk(x) /\ cells'[c] = x
        BY <1>1, <2>1
    <2>3. Live(x.val, NC', NO')
        BY <2>2, Growth DEF CellOk
    <2>4. QED
        BY <2>2, <2>3 DEF CellOk
<1>3. QED
    BY <1>2 DEF Inv, CellsOk

(* The upvalues of the slots from a floor up take their values with them.  *)
LEMMA ClosedCells ==
    ASSUME Inv, Grows, NEW floor \in Nat, cells' = CloseFrom(floor),
           \A slot \in Nat : slot < floor /\ Local(slot) => Local(slot)'
    PROVE  CellsOk' /\ DOMAIN cells' = DOMAIN cells
<1>1. \A c \in DOMAIN cells : CellOk(cells[c])
    BY DEF Inv, CellsOk
<1>2. DOMAIN cells = 1..Len(cells) /\ Len(cells) \in Nat
    BY Sizes
<1>3. \A c \in DOMAIN cells : cells'[c] =
          IF cells[c].open /\ cells[c].slot >= floor
          THEN [open |-> FALSE, slot |-> 0, val |-> stack[cells[c].slot]] ELSE cells[c]
    BY DEF CloseFrom
<1>4. DOMAIN cells' = 1..Len(cells) /\ cells' = [c \in 1..Len(cells) |-> cells'[c]]
    BY <1>2 DEF CloseFrom
<1>5. Sq(cells')
    BY <1>2, <1>4, SqFunction
<1>6. \A c \in DOMAIN cells : CellOk(cells[c])'
    <2> TAKE c \in DOMAIN cells
    <2>1. CASE cells[c].open /\ cells[c].slot >= floor
        <3>1. PICK x : x = stack[cells[c].slot]
            OBVIOUS
        <3>2. Live(x, NC, NO)
            BY <2>1, <3>1, CellLive DEF CellValue
        <3>3. Live(x, NC', NO')
            BY <3>2, Growth
        <3>4. cells'[c] = [open |-> FALSE, slot |-> 0, val |-> x]
            BY <1>3, <2>1, <3>1
        <3>5. QED
            BY <3>3, <3>4 DEF CellOk
    <2>2. CASE ~(cells[c].open /\ cells[c].slot >= floor)
        <3>1. PICK x : x = cells[c]
            OBVIOUS
        <3>2. CellOk(x) /\ cells'[c] = x /\ ~(x.open /\ x.slot >= floor)
            BY <1>1, <1>3, <2>2, <3>1
        <3>3. Live(x.val, NC', NO')
            BY <3>2, Growth DEF CellOk
        <3>4. x.open => Local(x.slot)'
            BY <3>2 DEF CellOk
        <3>5. QED
            BY <3>2, <3>3, <3>4 DEF CellOk
    <2>3. QED
        BY <2>1, <2>2
<1>7. \A c \in DOMAIN cells : cells'[c].open => cells[c].open /\ cells'[c].slot = cells[c].slot
    <2> TAKE c \in DOMAIN cells
    <2>1. CASE cells[c].open /\ cells[c].slot >= floor
        <3>1. cells'[c] = [open |-> FALSE, slot |-> 0, val |-> stack[cells[c].slot]]
            BY <1>3, <2>1
        <3>2. ~cells'[c].open
            BY <3>1
        <3>3. QED
            BY <3>2
    <2>2. CASE ~(cells[c].open /\ cells[c].slot >= floor)
        <3>1. cells'[c] = cells[c]
            BY <1>3, <2>2
        <3>2. QED
            BY <3>1
    <2>3. QED
        BY <2>1, <2>2
<1>8. \A c, d \in DOMAIN cells :
          cells'[c].open /\ cells'[d].open /\ cells'[c].slot = cells'[d].slot => c = d
    BY <1>7 DEF Inv, CellsOk
<1>9. QED
    BY <1>2, <1>4, <1>5, <1>6, <1>8 DEF CellsOk

(* A closure stays a closure while cells and objects are added.            *)
LEMMA ClosureKept ==
    ASSUME Inv, Grows, prog' = prog, DOMAIN cells \subseteq DOMAIN cells',
           NEW c \in DOMAIN closures
    PROVE  \A x : x = closures[c] => ClosureOk(x)'
<1> SUFFICES ASSUME NEW x, x = closures[c] PROVE ClosureOk(x)'
    OBVIOUS
<1>1. ClosureOk(x)
    BY DEF Inv, ClosuresOk
<1>2. Live(x.this, NC', NO')
    BY <1>1, Growth DEF ClosureOk
<1>3. x.proto \in 0..NO'
    BY <1>1, Sizes DEF ClosureOk, Grows
<1>4. Protos' = Protos
    BY DEF Protos
<1>5. QED
    BY <1>1, <1>2, <1>3, <1>4 DEF ClosureOk

LEMMA SameClosures ==
    ASSUME Inv, Grows, prog' = prog, DOMAIN cells \subseteq DOMAIN cells', closures' = closures
    PROVE  ClosuresOk' /\ ClosuresKept
<1>1. \A c \in DOMAIN closures : ClosureOk(closures[c])'
    BY ClosureKept
<1>2. QED
    BY <1>1 DEF Inv, ClosuresOk, ClosuresKept

LEMMA StillDecoded ==
    ASSUME Inv, prog' = prog
    PROVE  Decoded'
BY DEF Inv, Decoded, Loads

(* The running frame goes on, with another stack.                          *)
LEMMA TopFrames ==
    ASSUME Inv, prog' = prog, ClosuresKept, trys' = trys, NEW ip, Go(ip),
           Len(stack') \in Nat, Len(stack') >= FloorOf(Len(frames)),
           Found(Len(frames), ip, Len(stack') - FloorOf(Len(frames)))
    PROVE  /\ Decoded' /\ FramesOk' /\ HandlersOk'
           /\ \A slot \in Nat : Local(slot) => Local(slot)'
<1>1. /\ FramesOk'
      /\ DOMAIN frames' = 1..Len(frames)
      /\ \A i \in 1..Len(frames) :
            /\ FrameFun(i)' = FrameFun(i) /\ FloorOf(i)' = FloorOf(i)
            /\ frames'[i].base = frames[i].base
            /\ \A p, d : Found(i, p, d)' <=> Found(i, p, d)
    BY GoFrames
<1>2. PICK m \in Nat : m = Len(frames)
    BY Sizes
<1>3. \A slot \in Nat : Local(slot) => Local(slot)'
    BY <1>1, <1>2, LocalKept
<1>4. PICK q \in Nat : q = Len(trys)
    BY Sizes
<1>5. \A j \in 1..q : trys'[j] = trys[j] /\ trys[j].frames <= m
    BY <1>2, <1>4, Sizes DEF Inv, HandlersOk, HandlerOk
<1>6. Sq(trys')
    BY DEF Inv, HandlersOk
<1>7. HandlersOk'
    <2>1. /\ m <= Len(frames) /\ 1..m \subseteq DOMAIN frames'
          /\ \A i \in 1..m : /\ FloorOf(i)' = FloorOf(i)
                             /\ \A p, d : Found(i, p, d)' <=> Found(i, p, d)
        BY <1>1, <1>2
    <2>2. q <= Len(trys) /\ Len(trys') = q
        BY <1>4
    <2>3. QED
        BY <1>5, <1>6, <2>1, <2>2, CutHandlers
<1>8. QED
    BY <1>1, <1>3, <1>7, StillDecoded

(* It has the same closures, and perhaps more objects.                     *)
LEMMA TopStep ==
    ASSUME Inv, prog' = prog, UNCHANGED <<closures, trys>>,
           DOMAIN cells' = DOMAIN cells, NO' >= NO,
           NEW ip, Go(ip),
           StackOk', HeapOk',
           Len(stack') >= FloorOf(Len(frames)),
           Found(Len(frames), ip, Len(stack') - FloorOf(Len(frames)))
    PROVE  /\ Decoded' /\ ClosuresOk' /\ FramesOk' /\ HandlersOk' /\ Grows
           /\ \A slot \in Nat : Local(slot) => Local(slot)'
<1>1. NC' = NC /\ NC \in Nat /\ NO' \in Nat
    BY Sizes, SqFacts DEF NC, NO, HeapOk, HeapLive
<1>2. Grows
    BY <1>1 DEF Grows
<1>3. ClosuresOk' /\ ClosuresKept
    BY <1>2, SameClosures
<1>4. Len(stack') \in Nat
    BY GoodFacts DEF StackOk
<1>5. QED
    BY <1>2, <1>3, <1>4, TopFrames

LEMMA TopInv ==
    ASSUME Inv, prog' = prog, UNCHANGED <<closures, trys, cells>>, NO' >= NO,
           NEW ip, Go(ip), StackOk', HeapOk',
           Len(stack') >= FloorOf(Len(frames)),
           Found(Len(frames), ip, Len(stack') - FloorOf(Len(frames)))
    PROVE  Inv'
<1>1. /\ Decoded' /\ ClosuresOk' /\ FramesOk' /\ HandlersOk' /\ Grows
      /\ \A slot \in Nat : Local(slot) => Local(slot)'
    BY TopStep
<1>2. CellsOk'
    BY <1>1, SameCells
<1>3. QED
    BY <1>1, <1>2 DEF Inv

(* No more objects and no writes to them.                                  *)
LEMMA SameHeap ==
    ASSUME Inv, UNCHANGED <<closures, heap, globals>>
    PROVE  HeapOk' /\ NC' = NC /\ NO' = NO /\ Grows
BY Sizes DEF Inv, HeapOk, NC, NO, Grows

(* An instruction that goes on to the next and only changes the stack, by  *)
(* as much as the verifier's table says.                                   *)
LEMMA NextStep ==
    ASSUME Inv, prog' = prog, UNCHANGED <<closures, trys, cells>>, NO' >= NO,
           I.op \notin Ends, I.op # "JUMP", I.op # "GOSUB",
           Go(Frame.ip + 1), StackOk', HeapOk',
           Len(stack') = Len(stack) + Delta(I), Delta(I) \in Int, Depth + Delta(I) >= 0
    PROVE  Inv'
<1>1. Found(Len(frames), Frame.ip + 1, Depth + Delta(I))
    BY NextFound
<1>2. /\ FloorOf(Len(frames)) \in Nat /\ Depth \in Nat
      /\ Len(stack) = FloorOf(Len(frames)) + Depth
    BY Here
<1>3. /\ Len(stack') >= FloorOf(Len(frames))
      /\ Len(stack') - FloorOf(Len(frames)) = Depth + Delta(I)
    BY <1>2
<1>4. Found(Len(frames), Frame.ip + 1, Len(stack') - FloorOf(Len(frames)))
    BY <1>1, <1>3
<1>5. QED
    BY <1>3, <1>4, TopInv

(* The operands.                                                           *)
LEMMA Operands ==
    ASSUME Inv
    PROVE  /\ Len(stack) >= Depth + 2
           /\ \A n \in Nat : n < Len(stack) => Live(Peek(n), NC, NO)
           /\ \A n \in Nat : n <= Len(stack) =>
                 Good(Drop(n), NC, NO) /\ Len(Drop(n)) = Len(stack) - n
<1>1. Len(stack) \in Nat /\ Good(stack, NC, NO)
    BY Sizes DEF Inv, StackOk
<1>2. Len(stack) >= Depth + 2
    BY Here
<1>3. \A n \in Nat : n < Len(stack) => Live(Peek(n), NC, NO)
    BY <1>1, Sizes DEF Peek
<1>4. \A n \in Nat : n <= Len(stack) =>
          Good(Drop(n), NC, NO) /\ Len(Drop(n)) = Len(stack) - n
    <2> TAKE n \in Nat
    <2> HAVE n <= Len(stack)
    <2>1. PICK m \in Nat : m = Len(stack) - n /\ m <= Len(stack)
        BY <1>1
    <2>2. Good(SubSeq(stack, 1, m), NC, NO)
          /\ Len(SubSeq(stack, 1, m)) = IF 1 <= m THEN m - 1 + 1 ELSE 0
        BY <1>1, <2>1, GoodSub
    <2>3. QED
        BY <2>1, <2>2 DEF Drop
<1>5. QED
    BY <1>2, <1>3, <1>4

(* The closure of the running frame.                                       *)
LEMMA SelfOk ==
    ASSUME Inv
    PROVE  /\ ClosureOk(Self) /\ Self.fn = Frame.fn
           /\ Live(ThisVal, NC, NO)
           /\ I.op \in {"GET_UPVAL", "SET_UPVAL"} => Self.ups[I.x] \in DOMAIN cells
           /\ \A x \in DOMAIN Fun.upvals : x \in DOMAIN Self.ups
<1>1. FrameOk(Frame)
    BY Here, Sizes DEF Inv, FramesOk
<1>2. ClosureOk(Self) /\ Self.fn = Frame.fn
    BY <1>1 DEF FrameOk, Self, Inv, ClosuresOk
<1>3. Frame.base \in 1..Len(stack)
    <2> DEFINE floor == FloorOf(Len(frames))
    <2>1. Frame.base \in Nat /\ Frame.base >= 2 /\ Fun.nLocals \in Nat /\ Depth \in Nat
          /\ floor = Frame.base + Fun.nLocals /\ Len(stack) = floor + Depth
        BY Here
    <2> HIDE DEF floor
    <2>2. QED
        BY <2>1
<1>4. Live(ThisVal, NC, NO)
    BY <1>2, <1>3, Sizes DEF ThisVal, ClosureOk
<1>5. DOMAIN Fun.upvals = DOMAIN Self.ups
    <2>1. FunctionRead(Protos, Fun) /\ Fun = Protos[Self.fn]
        BY <1>2, Here, Sizes, AtFrame
    <2>2. Sq(Fun.upvals) /\ Sq(Self.ups) /\ Len(Fun.upvals) = Len(Self.ups)
        BY <1>2, <2>1 DEF FunctionRead, ClosureOk, Sq
    <2>3. QED
        BY <2>2, SqFacts
<1>6. I.op \in {"GET_UPVAL", "SET_UPVAL"} => I.x \in DOMAIN Fun.upvals
    BY Here DEF OperandOk
<1>7. QED
    BY <1>2, <1>4, <1>5, <1>6 DEF ClosureOk

(* What an instruction that takes effect has tested.                       *)
LEMMA NotRaised ==
    ASSUME Raised = NoError
    PROVE  /\ I.op \in {"GET_GLOBAL", "SET_GLOBAL"} => Name \in DOMAIN globals
           /\ I.op = "ARRAY_APPEND" => IsArray(heap, Peek(1))
           /\ I.op = "ARRAY_SPREAD" => IsArray(heap, Peek(1))
           /\ I.op = "ARRAY_REST" => IsIndex(Peek(0))
           /\ I.op = "OBJ_SPREAD" => Peek(1)[1] = "obj"
           /\ I.op \in {"SET_PROP", "DEFINE_PROP"} =>
                  SetFault(heap, Peek(2), Peek(1), Peek(0)) = NoError
           /\ I.op = "SET_PROP_ATOM" => SetFault(heap, Peek(1), Str(Name), Peek(0)) = NoError
           /\ I.op = "ITER_NEXT" => IsIndex(Peek(0))
           /\ I.op \in {"CALL", "CALL_VARARGS", "NEW", "NEW_VARARGS"} => CallFault = NoError
           /\ I.op = "TRY_POP" => trys # <<>>
           /\ I.op = "RET_SUB" => RetSubFault = NoError
<1>1. Fault = NoError
    BY DEF Raised, NoError, Error
<1>2. \A e : Error(e) # NoError
    BY DEF Error, NoError
<1>3. I.op \in {"GET_GLOBAL", "SET_GLOBAL"} => Name \in DOMAIN globals
    BY <1>1, <1>2 DEF Fault
<1>4. I.op \in {"ARRAY_APPEND", "OBJ_SPREAD"} =>
          (I.op = "ARRAY_APPEND" => IsArray(heap, Peek(1))) /\ (I.op = "OBJ_SPREAD" => Peek(1)[1] = "obj")
    BY <1>1, <1>2 DEF Fault
<1>5. I.op = "ARRAY_SPREAD" => IsArray(heap, Peek(1))
    BY <1>1, <1>2 DEF Fault
<1>6. I.op = "ARRAY_REST" => IsIndex(Peek(0))
    BY <1>1, <1>2 DEF Fault
<1>7. I.op \in {"SET_PROP", "DEFINE_PROP"} =>
          SetFault(heap, Peek(2), Peek(1), Peek(0)) = NoError
    BY <1>1 DEF Fault
<1>8. I.op = "SET_PROP_ATOM" => SetFault(heap, Peek(1), Str(Name), Peek(0)) = NoError
    BY <1>1 DEF Fault
<1>9. I.op = "ITER_NEXT" => IsIndex(Peek(0))
    BY <1>1, <1>2 DEF Fault
<1>10. I.op \in {"CALL", "CALL_VARARGS", "NEW", "NEW_VARARGS"} => CallFault = NoError
    BY <1>1 DEF Fault
<1>11. I.op = "TRY_POP" => trys # <<>>
    BY <1>1, <1>2 DEF Fault
<1>12. I.op = "RET_SUB" => RetSubFault = NoError
    BY <1>1 DEF Fault
<1>13. QED
    BY <1>3, <1>4, <1>5, <1>6, <1>7, <1>8, <1>9, <1>10, <1>11, <1>12

(* The constant of an instruction refers to nothing but functions.         *)
LEMMA ConstantLive ==
    ASSUME Inv, I.op = "CONST"
    PROVE  Live(Fun.consts[I.x], NC, NO)
<1>1. FunctionRead(Protos, Fun) /\ I.x \in DOMAIN Fun.consts
    BY Here, Sizes, AtFrame DEF OperandOk
<1>2. Primitive(Fun.consts[I.x])
    BY <1>1 DEF FunctionRead
<1>3. QED
    BY <1>2, LiveConstants

LEMMA SlotOnStack ==
    ASSUME Inv, I.op \in {"GET_LOCAL", "SET_LOCAL", "TDZ"}
    PROVE  LocalPos(I.x) \in 1..Len(stack)
<1> DEFINE floor == FloorOf(Len(frames))
<1>1. Frame.base \in Nat /\ Fun.nLocals \in Nat /\ Depth \in Nat
      /\ floor = Frame.base + Fun.nLocals /\ Len(stack) = floor + Depth
    BY Here
<1> HIDE DEF floor
<1>2. I.x \in Nat /\ I.x < Fun.nLocals
    BY Here, CountsNat DEF OperandOk
<1>3. QED
    BY <1>1, <1>2 DEF LocalPos

(* The stack after an instruction that only rewrites it.                   *)
LEMMA StackAfterOk ==
    ASSUME Inv, I.op \in StackOps, Raised = NoError
    PROVE  /\ Good(StackAfter, NC, NO)
           /\ Len(StackAfter) = Len(stack) + Delta(I)
           /\ Delta(I) \in Int /\ Depth + Delta(I) >= 0
<1>0. PICK L \in Nat : L = Len(stack)
    BY Sizes
<1>1. L = Len(stack) /\ L \in Nat /\ Depth \in Nat /\ Good(stack, NC, NO) /\ L >= Depth + 2 /\ Depth >= MinIn(I)
    BY <1>0, Sizes, Here, Operands DEF Inv, StackOk
<1>2. \A v : Live(v, NC, NO) =>
          Good(Append(stack, v), NC, NO) /\ Len(Append(stack, v)) = L + 1
    BY <1>1, GoodAppend
<1>3. \A n \in Nat : \A v : n <= L /\ Live(v, NC, NO) =>
          Good(Append(Drop(n), v), NC, NO) /\ Len(Append(Drop(n), v)) = L - n + 1
    BY <1>0, Operands, GoodAppend
<1>4. \A n \in Nat : n < L => Live(Peek(n), NC, NO)
    BY <1>0, Operands
<1>5. \A n \in Nat : n <= L => Good(Drop(n), NC, NO) /\ Len(Drop(n)) = L - n
    BY <1>0, Operands
<1>6. \A i, v : Live(v, NC, NO) =>
          Good([stack EXCEPT ![i] = v], NC, NO) /\ Len([stack EXCEPT ![i] = v]) = L
    BY <1>1, GoodExcept
<1>7. \A s, t : Good(s, NC, NO) /\ Good(t, NC, NO) =>
          Good(s \o t, NC, NO) /\ Len(s \o t) = Len(s) + Len(t)
    BY GoodCat
<1>8. CASE I.op \in {"CONST", "UNDEFINED", "NULL", "TRUE", "FALSE", "GET_LOCAL", "GET_UPVAL",
                     "GET_THIS", "GET_GLOBAL", "GET_GLOBAL_SOFT"}
    <2>1. Delta(I) = 1
        BY <1>8, DepthTable DEF Pushes
    <2>2. \E v : Live(v, NC, NO) /\ StackAfter = Append(stack, v)
        <3>1. CASE I.op = "CONST"
            BY <3>1, ConstantLive DEF StackAfter, Calculated
        <3>2. CASE I.op \in {"UNDEFINED", "NULL", "TRUE", "FALSE"}
            BY <3>2, LiveConstants DEF StackAfter, Calculated
        <3>3. CASE I.op = "GET_LOCAL"
            BY <3>3, SlotOnStack, Sizes DEF StackAfter, Calculated
        <3>4. CASE I.op = "GET_UPVAL"
            BY <3>4, SelfOk, CellLive DEF StackAfter, Calculated
        <3>5. CASE I.op = "GET_THIS"
            BY <3>5, SelfOk DEF StackAfter, Calculated
        <3>6. CASE I.op = "GET_GLOBAL"
            <4>1. Live(globals[Name], NC, NO)
                BY <3>6, NotRaised DEF Inv, HeapOk, AllLive
            <4>2. QED
                BY <3>6, <4>1 DEF StackAfter, Calculated
        <3>7. CASE I.op = "GET_GLOBAL_SOFT"
            <4>1. Name \in DOMAIN globals => Live(globals[Name], NC, NO)
                BY DEF Inv, HeapOk, AllLive
            <4>2. Live(Undefined, NC, NO)
                BY LiveConstants
            <4>3. QED
                BY <3>7, <4>1, <4>2 DEF StackAfter, Calculated
        <3>8. QED
            BY <1>8, <3>1, <3>2, <3>3, <3>4, <3>5, <3>6, <3>7
    <2>3. QED
        BY <1>1, <1>2, <2>1, <2>2
<1>9. CASE I.op = "POP"
    <2>1. StackAfter = Drop(1) /\ Delta(I) = -1 /\ MinIn(I) = 1
        BY <1>9, DepthTable DEF StackAfter, Calculated
    <2>2. QED
        BY <1>1, <1>5, <2>1
<1>10. CASE I.op \in {"DUP", "ITER_NEW"}
    <2>1. Delta(I) = 1 /\ MinIn(I) = 1
        BY <1>10, DepthTable
    <2>2. \E v : Live(v, NC, NO) /\ StackAfter = Append(stack, v)
        <3>1. CASE I.op = "DUP"
            <4>1. Live(Peek(0), NC, NO) /\ StackAfter = Append(stack, Peek(0))
                BY <3>1, <1>1, <1>4, <2>1 DEF StackAfter, Calculated
            <4>2. QED
                BY <4>1
        <3>2. CASE I.op = "ITER_NEW"
            <4>1. StackAfter = Append(stack, Num(0))
                BY <3>2 DEF StackAfter, Calculated
            <4>2. Live(Num(0), NC, NO)
                BY 0 \in Int, LiveConstants
            <4>3. QED
                BY <4>1, <4>2
        <3>3. QED
            BY <1>10, <3>1, <3>2
    <2>3. QED
        BY <1>1, <1>2, <2>1, <2>2
<1>11. CASE I.op = "DUP2"
    <2>1. StackAfter = stack \o <<Peek(1), Peek(0)>> /\ Delta(I) = 2 /\ MinIn(I) = 2
        BY <1>11, DepthTable DEF StackAfter, Calculated
    <2>2. Live(Peek(0), NC, NO) /\ Live(Peek(1), NC, NO)
        BY <1>1, <1>4, <2>1
    <2>3. Good(<<Peek(1), Peek(0)>>, NC, NO) /\ Len(<<Peek(1), Peek(0)>>) = 2
        BY <2>2, GoodTuples
    <2>4. Good(StackAfter, NC, NO) /\ Len(StackAfter) = Len(stack) + 2
        BY <1>1, <1>7, <2>1, <2>3
    <2>5. QED
        BY <1>1, <2>1, <2>4
<1>12. CASE I.op = "SWAP"
    <2>1. StackAfter = Drop(2) \o <<Peek(0), Peek(1)>> /\ Delta(I) = 0 /\ MinIn(I) = 2
        BY <1>12, DepthTable DEF StackAfter, Calculated
    <2>2. Live(Peek(0), NC, NO) /\ Live(Peek(1), NC, NO)
        BY <1>1, <1>4, <2>1
    <2>3. Good(<<Peek(0), Peek(1)>>, NC, NO) /\ Len(<<Peek(0), Peek(1)>>) = 2
        BY <2>2, GoodTuples
    <2>4. Good(Drop(2), NC, NO) /\ Len(Drop(2)) = Len(stack) - 2
        BY <1>1, <2>1, Operands
    <2>5. Good(StackAfter, NC, NO) /\ Len(StackAfter) = L - 2 + 2
        BY <1>1, <1>7, <2>1, <2>3, <2>4
    <2>6. Delta(I) = 0 /\ MinIn(I) = 2
        BY <2>1
    <2>7. QED
        BY <1>1, <2>5, <2>6
<1>13. CASE I.op = "ROT3"
    <2>1. StackAfter = Drop(3) \o <<Peek(1), Peek(0), Peek(2)>> /\ Delta(I) = 0 /\ MinIn(I) = 3
        BY <1>13, DepthTable DEF StackAfter, Calculated
    <2>2. Live(Peek(0), NC, NO) /\ Live(Peek(1), NC, NO) /\ Live(Peek(2), NC, NO)
        BY <1>1, <1>4, <2>1
    <2>3. /\ Good(<<Peek(1), Peek(0), Peek(2)>>, NC, NO)
          /\ Len(<<Peek(1), Peek(0), Peek(2)>>) = 3
        BY <2>2, GoodTuples
    <2>4. Good(Drop(3), NC, NO) /\ Len(Drop(3)) = Len(stack) - 3
        BY <1>1, <2>1, Operands
    <2>5. Good(StackAfter, NC, NO) /\ Len(StackAfter) = Len(stack) - 3 + 3
        BY <1>7, <2>1, <2>3, <2>4
    <2>6. QED
        BY <1>1, <2>1, <2>5
<1>14. CASE I.op \in {"SET_LOCAL", "TDZ"}
    <2>1. Delta(I) = 0
        BY <1>14, DepthTable DEF Unary1
    <2>2. \E v : Live(v, NC, NO) /\ StackAfter = [stack EXCEPT ![LocalPos(I.x)] = v]
        <3>1. CASE I.op = "SET_LOCAL"
            <4>1. StackAfter = [stack EXCEPT ![LocalPos(I.x)] = Peek(0)]
                BY <3>1 DEF StackAfter, Calculated
            <4>2. Live(Peek(0), NC, NO)
                BY <1>1, <1>4
            <4>3. QED
                BY <4>1, <4>2
        <3>2. CASE I.op = "TDZ"
            <4>1. StackAfter = [stack EXCEPT ![LocalPos(I.x)] = Tdz]
                BY <3>2 DEF StackAfter, Calculated
            <4>2. QED
                BY <4>1, LiveConstants
        <3>3. QED
            BY <1>14, <3>1, <3>2
    <2>3. QED
        <3> PICK v : Live(v, NC, NO) /\ StackAfter = [stack EXCEPT ![LocalPos(I.x)] = v]
            BY <2>2
        <3>1. Good(StackAfter, NC, NO) /\ Len(StackAfter) = L
            BY <1>1, GoodExcept
        <3>2. QED
            BY <1>1, <2>1, <3>1
<1>15. CASE I.op \in Calculated \cup {"in", "GET_PROP"}
    <2>1. Delta(I) = -1 /\ MinIn(I) = 2
        BY <1>15, DepthTable DEF Binary2, Calculated
    <2>2. Live(Peek(0), NC, NO) /\ Live(Peek(1), NC, NO)
        BY <1>1, <1>4, <2>1
    <2>3. \E v : Live(v, NC, NO) /\ StackAfter = Append(Drop(2), v)
        <3>1. CASE I.op = "in"
            <4>1. StackAfter = Append(Drop(2), Bool(HasProperty(heap, Peek(0)[2], Peek(1))))
                BY <3>1 DEF StackAfter, Calculated
            <4>2. QED
                BY <4>1, LiveConstants
        <3>2. CASE I.op = "GET_PROP"
            <4>1. StackAfter = Append(Drop(2), GetProperty(heap, Peek(1), Peek(0)))
                BY <3>2 DEF StackAfter, Calculated
            <4>2. Live(GetProperty(heap, Peek(1), Peek(0)), NC, NO)
                BY <2>2, GetPropertyLive DEF Inv, HeapOk, NO
            <4>3. QED
                BY <4>1, <4>2
        <3>3. CASE I.op \in Calculated
            <4>1. StackAfter = Append(Drop(2), BinaryOp(I.op, Peek(1), Peek(0)))
                BY <3>3 DEF StackAfter, Calculated
            <4>2. Live(BinaryOp(I.op, Peek(1), Peek(0)), NC, NO)
                BY <2>2, <3>3, BinaryLive
            <4>3. QED
                BY <4>1, <4>2
        <3>4. QED
            BY <1>15, <3>1, <3>2, <3>3
    <2>4. Good(StackAfter, NC, NO) /\ Len(StackAfter) = L - 2 + 1
        <3>1. PICK v : Live(v, NC, NO) /\ StackAfter = Append(Drop(2), v)
            BY <2>3
        <3>2. 2 \in Nat /\ 2 <= L
            BY <1>1, <2>1
        <3>3. QED
            BY <1>3, <3>1, <3>2
    <2>5. QED
        BY <1>1, <2>1, <2>4
<1>16. CASE I.op \in {"NEG", "POS", "NOT", "TYPEOF", "TO_STRING", "GET_PROP_ATOM"}
    <2>1. Delta(I) = 0 /\ MinIn(I) = 1
        BY <1>16, DepthTable DEF Unary1
    <2>2. Live(Peek(0), NC, NO)
        BY <1>1, <1>4, <2>1
    <2>3. \E v : Live(v, NC, NO) /\ StackAfter = Append(Drop(1), v)
        <3>1. CASE I.op = "GET_PROP_ATOM"
            <4>1. StackAfter = Append(Drop(1), GetProperty(heap, Peek(0), Str(Name)))
                BY <3>1 DEF StackAfter, Calculated
            <4>2. Live(GetProperty(heap, Peek(0), Str(Name)), NC, NO)
                BY <2>2, LiveConstants, GetPropertyLive DEF Inv, HeapOk, NO
            <4>3. QED
                BY <4>1, <4>2
        <3>2. CASE I.op # "GET_PROP_ATOM"
            <4>1. PICK u \in {"!", "-", "+", "typeof", "str"} :
                      StackAfter = Append(Drop(1), UnaryOp(u, Peek(0)))
                BY <1>16, <3>2 DEF StackAfter, Calculated
            <4>2. Live(UnaryOp(u, Peek(0)), NC, NO)
                BY <2>2, UnaryLive
            <4>3. QED
                BY <4>1, <4>2
        <3>3. QED
            BY <3>1, <3>2
    <2>4. Good(StackAfter, NC, NO) /\ Len(StackAfter) = L - 1 + 1
        <3>1. PICK v : Live(v, NC, NO) /\ StackAfter = Append(Drop(1), v)
            BY <2>3
        <3>2. 1 \in Nat /\ 1 <= L
            BY <1>1, <2>1
        <3>3. QED
            BY <1>3, <3>1, <3>2
    <2>5. QED
        BY <1>1, <2>1, <2>4
<1>17. QED
    BY <1>8, <1>9, <1>10, <1>11, <1>12, <1>13, <1>14, <1>15, <1>16 DEF StackOps
---------------------------------------------------------------------------
(* Each step keeps the invariant.                                          *)

LEMMA StackFacts ==
    ASSUME Inv
    PROVE  /\ Good(stack, NC, NO) /\ NC \in Nat /\ NO \in Nat
           /\ Len(stack) \in Nat /\ Depth \in Nat /\ Depth >= MinIn(I)
           /\ Len(stack) >= Depth + 2 /\ Live(Peek(0), NC, NO)
           /\ FloorOf(Len(frames)) \in Nat
           /\ Len(stack) - FloorOf(Len(frames)) = Depth
           /\ Len(stack) >= FloorOf(Len(frames))
<1>1. Good(stack, NC, NO) /\ NC \in Nat /\ NO \in Nat /\ Len(stack) \in Nat
    BY Sizes DEF Inv, StackOk
<1>2. PICK f : f = FloorOf(Len(frames))
    OBVIOUS
<1>3. Depth \in Nat /\ Depth >= MinIn(I) /\ f \in Nat /\ Len(stack) = f + Depth
    BY <1>2, Here
<1>4. Len(stack) >= Depth + 2
    BY Operands
<1>5. 0 \in Nat /\ 0 < Len(stack)
    BY <1>1, <1>3, <1>4
<1>6. Live(Peek(0), NC, NO)
    BY <1>5, Operands
<1>7. Len(stack) - f = Depth /\ Len(stack) >= f
    BY <1>1, <1>3
<1>8. QED
    BY <1>1, <1>2, <1>3, <1>4, <1>6, <1>7

(* The stack has changed as the verifier's table says.                     *)
LEMMA StackStep ==
    ASSUME Inv, UNCHANGED <<prog, closures, heap, globals, trys, cells>>,
           I.op \notin Ends, I.op # "JUMP", I.op # "GOSUB",
           NEW s, stack' = s, Go(Frame.ip + 1), Good(s, NC, NO),
           Len(s) = Len(stack) + Delta(I), Delta(I) \in Int, Depth + Delta(I) >= 0
    PROVE  Inv'
<1>1. HeapOk' /\ NC' = NC /\ NO' = NO /\ NO \in Nat
    BY SameHeap, Sizes
<1>2. StackOk'
    BY <1>1 DEF StackOk
<1>3. NO' >= NO
    BY <1>1
<1>4. Len(stack') = Len(stack) + Delta(I)
    OBVIOUS
<1>5. QED
    BY <1>1, <1>2, <1>3, <1>4, NextStep

LEMMA ComputeInv ==
    ASSUME Inv, Compute
    PROVE  Inv'
<1>1. I.op \in StackOps /\ Raised = NoError
    BY DEF Compute, Can
<1>2. I.op \notin Ends /\ I.op # "JUMP" /\ I.op # "GOSUB"
    BY <1>1 DEF StackOps, Ends, Calculated
<1>3. UNCHANGED <<prog, closures, heap, globals, trys, cells>>
    BY DEF Compute, store, control
<1>4. stack' = StackAfter /\ Go(Frame.ip + 1)
    BY DEF Compute, Advance
<1>5. PICK s : s = StackAfter
    OBVIOUS
<1>6. Good(s, NC, NO) /\ Len(s) = Len(stack) + Delta(I) /\ Delta(I) \in Int
      /\ Depth + Delta(I) >= 0
    BY <1>1, <1>5, StackAfterOk
<1>7. QED
    BY <1>2, <1>3, <1>4, <1>5, <1>6, StackStep

LEMMA SuspendInv ==
    ASSUME Inv, Suspend
    PROVE  Inv'
<1>1. I.op = "AWAIT" /\ UNCHANGED <<prog, closures, heap, globals, trys, cells>>
      /\ stack' = stack /\ Go(Frame.ip + 1)
    BY DEF Suspend, Can, Advance, store, control
<1>2. Delta(I) = 0 /\ I.op \notin Ends
    BY <1>1, DepthTable DEF Unary1, Ends
<1>3. Good(stack, NC, NO) /\ Len(stack) \in Nat /\ Depth \in Nat
    BY Sizes, Here DEF Inv, StackOk
<1>4. PICK s : s = stack
    OBVIOUS
<1>5. Len(s) = Len(stack) + Delta(I) /\ Delta(I) \in Int /\ Depth + Delta(I) >= 0
      /\ Good(s, NC, NO)
    BY <1>2, <1>3, <1>4
<1>6. QED
    BY <1>1, <1>2, <1>4, <1>5, StackStep

LEMMA SetUpvalInv ==
    ASSUME Inv, SetUpval
    PROVE  Inv'
<1>1. I.op = "SET_UPVAL" /\ UNCHANGED <<prog, closures, heap, globals, trys>>
    BY DEF SetUpval, Can, control
<1>2. Delta(I) = 0 /\ MinIn(I) = 1 /\ I.op \notin Ends
    BY <1>1, DepthTable DEF Unary1, Ends
<1>3. Good(stack, NC, NO) /\ Len(stack) \in Nat /\ Depth \in Nat /\ Live(Peek(0), NC, NO)
    BY StackFacts
<1>4. PICK c \in DOMAIN cells : c = Self.ups[I.x]
    BY <1>1, SelfOk
<1>5. CASE cells[c].open
    <2>1. PICK s : s = [stack EXCEPT ![cells[c].slot] = Peek(0)]
        OBVIOUS
    <2>2. stack' = s /\ Go(Frame.ip + 1) /\ cells' = cells
        BY <1>4, <1>5, <2>1 DEF SetUpval, Advance
    <2>3. Good(s, NC, NO) /\ Len(s) = Len(stack)
        BY <1>3, <2>1, GoodExcept
    <2>4. Len(s) = Len(stack) + Delta(I) /\ Delta(I) \in Int /\ Depth + Delta(I) >= 0
        BY <1>2, <1>3, <2>3
    <2>5. QED
        BY <1>1, <1>2, <2>2, <2>3, <2>4, StackStep
<1>6. CASE ~cells[c].open
    <2>1. stack' = stack /\ Go(Frame.ip + 1) /\ cells' = [cells EXCEPT ![c].val = Peek(0)]
        BY <1>4, <1>6 DEF SetUpval, Advance
    <2>2. HeapOk' /\ NC' = NC /\ NO' = NO /\ NO \in Nat
        BY <1>1, SameHeap, Sizes
    <2>3. StackOk'
        BY <2>1, <2>2 DEF Inv, StackOk
    <2>4. \A d \in DOMAIN cells : CellOk(cells[d])
        BY DEF Inv, CellsOk
    <2>5. PICK x : x = [cells[c] EXCEPT !.val = Peek(0)]
        OBVIOUS
    <2>6. x = [open |-> cells[c].open, slot |-> cells[c].slot, val |-> Peek(0)]
        BY <2>4, <2>5 DEF CellOk
    <2>7. cells' = [cells EXCEPT ![c] = x]
        BY <2>1, <2>5
    <2>8. Sq(cells)
        BY DEF Inv, CellsOk
    <2>9. /\ Sq(cells') /\ Len(cells') = Len(cells) /\ DOMAIN cells' = DOMAIN cells
          /\ \A d \in DOMAIN cells : cells'[d] = IF d = c THEN x ELSE cells[d]
        BY <2>7, <2>8, SqExcept
    <2>10. Found(Len(frames), Frame.ip + 1, Depth + Delta(I))
        BY <1>1, <1>2, NextFound
    <2>11. Depth + Delta(I) = Len(stack') - FloorOf(Len(frames))
           /\ Len(stack') >= FloorOf(Len(frames)) /\ NO' >= NO
        <3>1. PICK f : f = FloorOf(Len(frames))
            OBVIOUS
        <3>2. f \in Nat /\ Len(stack) - f = Depth /\ Len(stack) >= f
            BY <3>1, StackFacts
        <3>3. Len(stack') = Len(stack)
            BY <2>1
        <3>4. QED
            BY <1>2, <1>3, <2>2, <3>1, <3>2, <3>3
    <2>12. Found(Len(frames), Frame.ip + 1, Len(stack') - FloorOf(Len(frames)))
        BY <2>10, <2>11
    <2>13. /\ Decoded' /\ ClosuresOk' /\ FramesOk' /\ HandlersOk'
           /\ \A slot \in Nat : Local(slot) => Local(slot)'
        BY <1>1, <2>1, <2>2, <2>3, <2>9, <2>11, <2>12, TopStep
    <2>14. \A d \in DOMAIN cells : CellOk(cells[d])'
        <3> TAKE d \in DOMAIN cells
        <3>1. PICK y : y = cells'[d]
            OBVIOUS
        <3>2. CellOk(y)
            <4>1. CASE d = c
                <5>1. y = x /\ CellOk(cells[c])
                    BY <2>4, <2>9, <3>1, <4>1
                <5>2. QED
                    BY <1>3, <1>6, <2>6, <5>1 DEF CellOk
            <4>2. CASE d # c
                BY <2>4, <2>9, <3>1, <4>2
            <4>3. QED
                BY <4>1, <4>2
        <3>3. CellOk(y)'
            BY <2>2, <2>13, <3>2 DEF CellOk
        <3>4. QED
            BY <3>1, <3>3
    <2>15. \A d \in DOMAIN cells : cells'[d].open => cells[d].open /\ cells'[d].slot = cells[d].slot
        BY <2>6, <2>9
    <2>16. CellsOk'
        BY <2>9, <2>14, <2>15 DEF Inv, CellsOk
    <2>17. QED
        BY <2>2, <2>3, <2>13, <2>16 DEF Inv
<1>7. QED
    BY <1>5, <1>6

LEMMA SetGlobalInv ==
    ASSUME Inv, SetGlobal
    PROVE  Inv'
<1>1. /\ I.op = "SET_GLOBAL" /\ UNCHANGED <<prog, closures, heap, trys, cells>>
      /\ globals' = [globals EXCEPT ![Name] = Peek(0)]
      /\ stack' = stack /\ Go(Frame.ip + 1)
    BY DEF SetGlobal, Can, Advance, control
<1>2. Delta(I) = 0 /\ I.op \notin Ends
    BY <1>1, DepthTable DEF Unary1, Ends
<1>3. NC' = NC /\ NO' = NO
    BY <1>1 DEF NC, NO
<1>4. AllLive(globals, NC, NO) /\ HeapLive(heap, NC, NO)
    BY DEF Inv, HeapOk
<1>5. AllLive(globals', NC, NO)
    BY <1>1, <1>4, StackFacts DEF AllLive
<1>6. HeapOk'
    BY <1>1, <1>3, <1>4, <1>5 DEF HeapOk
<1>7. StackOk' /\ NO' >= NO
    BY <1>1, <1>3, StackFacts DEF StackOk
<1>8. Len(stack') = Len(stack) + Delta(I) /\ Delta(I) \in Int /\ Depth + Delta(I) >= 0
    BY <1>1, <1>2, StackFacts
<1>9. QED
    BY <1>1, <1>2, <1>6, <1>7, <1>8, NextStep

(* Where a jump goes, and the stack it leaves.                             *)
LEMMA BranchOk ==
    ASSUME Inv, I.op \in Jumps \ {"TRY_PUSH"}, Raised = NoError
    PROVE  /\ Good(Branch.stack, NC, NO)
           /\ Len(Branch.stack) >= FloorOf(Len(frames))
           /\ Follows(Branch.ip, Len(Branch.stack) - FloorOf(Len(frames)))
<1> DEFINE Lands(by) == /\ Good(Branch.stack, NC, NO)
                        /\ Len(Branch.stack) = Len(stack) + by
                        /\ by \in Int /\ Depth + by >= 0
                        /\ Follows(Branch.ip, Depth + by)
<1>1. \A n \in Nat : n <= Len(stack) => Good(Drop(n), NC, NO) /\ Len(Drop(n)) = Len(stack) - n
    BY Operands
<1>2. /\ Good(stack, NC, NO) /\ Len(stack) \in Nat /\ Depth \in Nat /\ Depth >= MinIn(I)
      /\ Len(stack) >= Depth + 2 /\ Live(Peek(0), NC, NO)
    BY StackFacts
<1>3. /\ 1 <= Len(stack) /\ 2 <= Len(stack)
      /\ Good(Drop(1), NC, NO) /\ Len(Drop(1)) = Len(stack) - 1
      /\ Good(Drop(2), NC, NO) /\ Len(Drop(2)) = Len(stack) - 2
    BY <1>1, <1>2
<1>4. ASSUME I.op = "JUMP" PROVE \E by : Lands(by)
    <2>1. Branch.ip = I.x /\ Branch.stack = stack
        BY <1>4 DEF Branch
    <2>2. Delta(I) = 0
        BY <1>4, DepthTable
    <2>3. Lands(0)
        BY <1>2, <1>4, <2>1, <2>2, BranchFollows
    <2>4. QED
        BY <2>3
<1>5. ASSUME I.op \in {"JUMP_IF_FALSE", "JUMP_IF_TRUE"} PROVE \E by : Lands(by)
    <2>1. Branch.ip \in {I.x, Frame.ip + 1} /\ Branch.stack = Drop(1)
        BY <1>5 DEF Branch
    <2>2. Delta(I) = -1 /\ MinIn(I) = 1
        BY <1>5, DepthTable
    <2>3. Follows(I.x, Depth + Delta(I))
        BY <1>5, BranchFollows
    <2>4. Follows(Frame.ip + 1, Depth + Delta(I))
        BY <1>5, NextFollows DEF Ends
    <2>5. Lands(-1)
        BY <1>2, <1>3, <2>1, <2>2, <2>3, <2>4
    <2>6. QED
        BY <2>5
<1>6. ASSUME I.op \in {"JF_PEEK", "JT_PEEK", "JNN_PEEK"} PROVE \E by : Lands(by)
    <2>1. Branch.ip \in {I.x, Frame.ip + 1} /\ Branch.stack = stack
        BY <1>6 DEF Branch
    <2>2. Delta(I) = 0
        BY <1>6, DepthTable
    <2>3. Follows(I.x, Depth + Delta(I))
        BY <1>6, BranchFollows
    <2>4. Follows(Frame.ip + 1, Depth + Delta(I))
        BY <1>6, NextFollows DEF Ends
    <2>5. Lands(0)
        BY <1>2, <2>1, <2>2, <2>3, <2>4
    <2>6. QED
        BY <2>5
<1>7. ASSUME I.op = "OPT_CHAIN" PROVE \E by : Lands(by)
    <2>1. \/ Branch.ip = I.x /\ Branch.stack = Append(Drop(1), Undefined)
          \/ Branch.ip = Frame.ip + 1 /\ Branch.stack = stack
        BY <1>7 DEF Branch
    <2>2. Delta(I) = 0
        BY <1>7, DepthTable
    <2>3. Follows(I.x, Depth + Delta(I))
        BY <1>7, BranchFollows
    <2>4. Follows(Frame.ip + 1, Depth + Delta(I))
        BY <1>7, NextFollows DEF Ends
    <2>5. /\ Good(Append(Drop(1), Undefined), NC, NO)
          /\ Len(Append(Drop(1), Undefined)) = Len(stack) - 1 + 1
        BY <1>3, LiveConstants, GoodAppend
    <2>6. Good(Branch.stack, NC, NO) /\ Len(Branch.stack) = Len(stack)
        <3>1. Len(stack) - 1 + 1 = Len(stack)
            BY <1>2
        <3>2. QED
            BY <1>2, <2>1, <2>5, <3>1, Zenon
    <2>7. Follows(Branch.ip, Depth + 0)
        BY <2>1, <2>2, <2>3, <2>4
    <2>8. Lands(0)
        BY <1>2, <2>6, <2>7
    <2>9. QED
        BY <2>8
<1>8. ASSUME I.op = "OPT_CALL_CHECK" PROVE \E by : Lands(by)
    <2>1. \/ Branch.ip = I.x /\ Branch.stack = Drop(2)
          \/ Branch.ip = Frame.ip + 1 /\ Branch.stack = stack
        BY <1>8 DEF Branch
    <2>2. Delta(I) = 0 /\ MinIn(I) = 2
        BY <1>8, DepthTable
    <2>3. Follows(I.x, Depth - 2)
        BY <1>8, BranchFollows DEF Jumps
    <2>4. Follows(Frame.ip + 1, Depth + Delta(I))
        BY <1>8, NextFollows DEF Ends
    <2>5. CASE Branch.ip = I.x /\ Branch.stack = Drop(2)
        <3>1. Lands(-2)
            BY <1>2, <1>3, <2>2, <2>3, <2>5
        <3>2. QED
            BY <3>1
    <2>6. CASE Branch.ip = Frame.ip + 1 /\ Branch.stack = stack
        <3>1. Lands(0)
            BY <1>2, <2>2, <2>4, <2>6
        <3>2. QED
            BY <3>1
    <2>7. QED
        BY <2>1, <2>5, <2>6
<1>9. ASSUME I.op = "CASE" PROVE \E by : Lands(by)
    <2>1. \/ Branch.ip = I.x /\ Branch.stack = Drop(2)
          \/ Branch.ip = Frame.ip + 1 /\ Branch.stack = Drop(1)
        BY <1>9 DEF Branch
    <2>2. Delta(I) = -1 /\ MinIn(I) = 2
        BY <1>9, DepthTable
    <2>3. Follows(I.x, Depth - 2)
        BY <1>9, BranchFollows DEF Jumps
    <2>4. Follows(Frame.ip + 1, Depth + Delta(I))
        BY <1>9, NextFollows DEF Ends
    <2>5. CASE Branch.ip = I.x /\ Branch.stack = Drop(2)
        <3>1. Lands(-2)
            BY <1>2, <1>3, <2>2, <2>3, <2>5
        <3>2. QED
            BY <3>1
    <2>6. CASE Branch.ip = Frame.ip + 1 /\ Branch.stack = Drop(1)
        <3>1. Lands(-1)
            BY <1>2, <1>3, <2>2, <2>4, <2>6
        <3>2. QED
            BY <3>1
    <2>7. QED
        BY <2>1, <2>5, <2>6
<1>10. ASSUME I.op = "ITER_NEXT" PROVE \E by : Lands(by)
    <2> DEFINE e    == Elements(heap, Peek(1))
               n    == Peek(0)[2]
               pair == <<Num(n + 1), e[n + 1]>>
    <2>1. \/ Branch.ip = I.x /\ Branch.stack = Drop(2)
          \/ /\ ~(n >= Len(e))
             /\ Branch.ip = Frame.ip + 1 /\ Branch.stack = Drop(1) \o pair
        BY <1>10 DEF Branch
    <2>2. Delta(I) = 1 /\ MinIn(I) = 2
        BY <1>10, DepthTable
    <2>3. Follows(I.x, Depth - 2)
        BY <1>10, BranchFollows DEF Jumps
    <2>4. Follows(Frame.ip + 1, Depth + Delta(I))
        BY <1>10, NextFollows DEF Ends
    <2>5. CASE Branch.ip = I.x /\ Branch.stack = Drop(2)
        <3>1. Lands(-2)
            BY <1>2, <1>3, <2>2, <2>3, <2>5
        <3>2. QED
            BY <3>1
    <2>6. CASE ~(n >= Len(e)) /\ Branch.ip = Frame.ip + 1 /\ Branch.stack = Drop(1) \o pair
        <3>1. IsIndex(Peek(0))
            BY <1>10, NotRaised
        <3>2. n \in Nat
            BY <1>2, <3>1 DEF IsIndex, Live
        <3>3. Live(Peek(1), NC, NO)
            BY <1>2, <2>2, Operands
        <3>4. Good(e, NC, NO)
            BY <3>3, ElementsGood DEF Inv, HeapOk, NO
        <3> HIDE DEF e, n
        <3>5. n + 1 \in 1..Len(e) /\ n + 1 \in Int
            BY <2>6, <3>2, <3>4, GoodFacts
        <3>6. Live(e[n + 1], NC, NO)
            BY <3>4, <3>5, GoodFacts
        <3>7. Live(e[n + 1], NC, NO) /\ Live(Num(n + 1), NC, NO)
            BY <3>5, <3>6, LiveConstants
        <3>8. Good(pair, NC, NO) /\ Len(pair) = 2
            BY <3>7, GoodTuples
        <3> HIDE DEF pair
        <3>9. Good(Drop(1) \o pair, NC, NO) /\ Len(Drop(1) \o pair) = Len(stack) - 1 + 2
            BY <1>3, <3>8, GoodCat
        <3>10. Good(Branch.stack, NC, NO) /\ Len(Branch.stack) = Len(stack) + 1
            BY <1>2, <2>6, <3>9
        <3>11. Lands(1)
            BY <1>2, <2>2, <2>4, <2>6, <3>10
        <3>12. QED
            BY <3>11
    <2>7. QED
        BY <2>1, <2>5, <2>6
<1>11. ASSUME I.op = "GOSUB" PROVE \E by : Lands(by)
    <2>1. Branch.ip = I.x /\ Branch.stack = Append(stack, Num(Frame.ip + 1))
        BY <1>11 DEF Branch
    <2>2. Follows(I.x, Depth + 1)
        BY <1>11, BranchFollows DEF Jumps
    <2>3. Live(Num(Frame.ip + 1), NC, NO)
        <3>1. PICK ip \in Nat : ip = Frame.ip
            BY Here
        <3>2. ip + 1 \in Int
            OBVIOUS
        <3>3. QED
            BY <3>1, <3>2, LiveConstants
    <2>4. /\ Good(Append(stack, Num(Frame.ip + 1)), NC, NO)
          /\ Len(Append(stack, Num(Frame.ip + 1))) = Len(stack) + 1
        BY <1>2, <2>3, GoodAppend
    <2>5. Lands(1)
        BY <1>2, <2>1, <2>2, <2>4
    <2>6. QED
        BY <2>5
<1>12. \E by : Lands(by)
    BY <1>4, <1>5, <1>6, <1>7, <1>8, <1>9, <1>10, <1>11 DEF Jumps
<1>13. PICK by : Lands(by)
    BY <1>12
<1>14. PICK f : f = FloorOf(Len(frames))
    OBVIOUS
<1>15. f \in Nat /\ Len(stack) - f = Depth
    BY <1>14, StackFacts
<1>16. Len(Branch.stack) - f = Depth + by /\ Len(Branch.stack) >= f
    BY <1>2, <1>13, <1>15
<1>17. QED
    BY <1>13, <1>14, <1>16

LEMMA JumpInv ==
    ASSUME Inv, Jump
    PROVE  Inv'
<1>1. /\ I.op \in Jumps \ {"TRY_PUSH"} /\ Raised = NoError
      /\ UNCHANGED <<prog, closures, heap, globals, trys, cells>>
      /\ stack' = Branch.stack /\ Go(Branch.ip)
    BY DEF Jump, Can, store, control
<1>2. PICK s : s = Branch.stack
    OBVIOUS
<1>3. PICK ip : ip = Branch.ip
    OBVIOUS
<1>4. /\ Good(s, NC, NO) /\ Len(s) >= FloorOf(Len(frames))
      /\ Found(Len(frames), ip, Len(s) - FloorOf(Len(frames)))
    BY <1>1, <1>2, <1>3, BranchOk, FollowsFound
<1>5. HeapOk' /\ NC' = NC /\ NO' = NO /\ NO \in Nat
    BY <1>1, SameHeap, Sizes
<1>6. StackOk' /\ NO' >= NO /\ stack' = s /\ Go(ip)
    BY <1>1, <1>2, <1>3, <1>4, <1>5 DEF StackOk
<1>7. QED
    BY <1>1, <1>4, <1>5, <1>6, TopInv

(* RET_SUB goes where the verifier has found a call to return.             *)
LEMMA RetSubInv ==
    ASSUME Inv, Vouched, RetSub
    PROVE  Inv'
<1>1. /\ I.op = "RET_SUB" /\ Raised = NoError
      /\ UNCHANGED <<prog, closures, heap, globals, trys, cells>>
      /\ stack' = Drop(1) /\ Go(Peek(0)[2])
    BY DEF RetSub, Can, store, control
<1>2. PICK ip : ip = Peek(0)[2]
    OBVIOUS
<1>3. PICK n \in DOMAIN frames : n = Len(frames)
    BY Sizes
<1>4. <<ip, Depth - 1>> \in Proved.rets
    <2>1. loaded
        <3>1. Fun = Protos[Frame.fn] /\ I = Fun.code[Frame.ip] /\ Frame.ip \in DOMAIN Fun.code
            BY Here
        <3>2. Frame.fn \in DOMAIN Protos
            BY <1>3, Here, AtFrame
        <3>3. QED
            BY <1>1, <3>1, <3>2 DEF Vouched, Plain
    <2>2. QED
        BY <1>1, <1>2, <2>1, NotRaised DEF RetSubFault, Error, NoError
<1>5. Proved = Verified[prog][frames[n].fn]
    BY <1>3, Here DEF Proved
<1>6. Proved.rets = GosubRets(FrameFun(n), ShapesOf(n))
    BY <1>5, AtFrame DEF Accepted, ShapesOf
<1>7. Found(n, ip, Depth - 1)
    BY <1>4, <1>6 DEF GosubRets, Found
<1>8. MinIn(I) = 1
    BY <1>1, DepthTable
<1>9. Good(Drop(1), NC, NO) /\ Len(Drop(1)) = Len(stack) - 1
    <2>1. 1 \in Nat /\ 1 <= Len(stack)
        BY StackFacts
    <2>2. QED
        BY <2>1, Operands
<1>10. PICK f : f = FloorOf(Len(frames))
    OBVIOUS
<1>11. f \in Nat /\ Len(stack) - f = Depth /\ Len(stack) \in Nat /\ Depth \in Nat /\ Depth >= 1
    BY <1>8, <1>10, StackFacts
<1>12. Len(Drop(1)) - f = Depth - 1 /\ Len(Drop(1)) >= f
    BY <1>9, <1>11
<1>13. HeapOk' /\ NC' = NC /\ NO' = NO /\ NO \in Nat
    BY <1>1, SameHeap, Sizes
<1>14. StackOk' /\ NO' >= NO /\ Go(ip) /\ stack' = Drop(1)
    BY <1>1, <1>2, <1>9, <1>13 DEF StackOk
<1>15. Len(stack') >= FloorOf(Len(frames))
       /\ Found(Len(frames), ip, Len(stack') - FloorOf(Len(frames)))
    BY <1>3, <1>7, <1>10, <1>12, <1>14
<1>16. QED
    BY <1>1, <1>13, <1>14, <1>15, TopInv

LEMMA TryPushInv ==
    ASSUME Inv, TryPush
    PROVE  Inv'
<1> DEFINE t == [frames |-> Len(frames), sp |-> Len(stack), target |-> I.x]
<1>1. /\ I.op = "TRY_PUSH" /\ UNCHANGED <<prog, closures, heap, globals, cells>>
      /\ stack' = stack /\ Go(Frame.ip + 1) /\ trys' = Append(trys, t)
    BY DEF TryPush, Can, Advance, store, control
<1>2. Delta(I) = 0 /\ I.op \notin Ends /\ I.op \in Jumps
    BY <1>1, DepthTable DEF Ends, Jumps
<1>3. PICK f : f = FloorOf(Len(frames))
    OBVIOUS
<1>4. f \in Nat /\ Len(stack) - f = Depth /\ Len(stack) \in Nat /\ Len(stack) >= f
      /\ Depth \in Nat
    BY <1>3, StackFacts
<1>5. Found(Len(frames), Frame.ip + 1, Len(stack) - f)
    <2>1. Found(Len(frames), Frame.ip + 1, Depth + Delta(I))
        BY <1>1, <1>2, NextFound
    <2>2. QED
        BY <1>2, <1>4, <2>1
<1>6. Found(Len(frames), I.x, Len(stack) + 1 - f)
    <2>1. Follows(I.x, Depth + 1)
        BY <1>1, <1>2, BranchFollows
    <2>2. Depth + 1 = Len(stack) + 1 - f
        BY <1>4
    <2>3. QED
        BY <2>1, <2>2, FollowsFound
<1>7. HeapOk' /\ NC' = NC /\ NO' = NO /\ Grows
    BY <1>1, SameHeap
<1>8. StackOk'
    BY <1>1, <1>7 DEF Inv, StackOk
<1>9. ClosuresOk' /\ ClosuresKept
    BY <1>1, <1>7, SameClosures
<1>10. /\ FramesOk'
       /\ DOMAIN frames' = 1..Len(frames)
       /\ \A i \in 1..Len(frames) :
             /\ FrameFun(i)' = FrameFun(i) /\ FloorOf(i)' = FloorOf(i)
             /\ frames'[i].base = frames[i].base
             /\ \A p, d : Found(i, p, d)' <=> Found(i, p, d)
    BY <1>1, <1>3, <1>4, <1>5, <1>9, GoFrames
<1>11. PICK m \in Nat : m = Len(frames)
    BY Sizes
<1>12. \A slot \in Nat : Local(slot) => Local(slot)'
    BY <1>10, <1>11, LocalKept
<1>13. CellsOk'
    BY <1>1, <1>7, <1>12, SameCells
<1>14. Sq(trys) /\ DOMAIN trys = 1..Len(trys) /\ Len(trys) \in Nat
    BY Sizes DEF Inv, HandlersOk
<1> HIDE DEF t
<1>15. /\ Sq(trys') /\ Len(trys') = Len(trys) + 1
       /\ \A j \in 1..Len(trys) : trys'[j] = trys[j]
       /\ trys'[Len(trys) + 1] = t
    BY <1>1, <1>14, SqAppend
<1>16. DOMAIN trys' = 1..(Len(trys) + 1)
    BY <1>14, <1>15, SqFacts
<1>17. DOMAIN frames = 1..m /\ m \in 1..m /\ DOMAIN frames' = 1..m
    BY <1>10, <1>11, Sizes
<1>18. \A j \in 1..(Len(trys) + 1) : /\ HandlerOk(trys[j])'
                                    /\ trys'[j].frames <= m
    <2> TAKE j \in 1..(Len(trys) + 1)
    <2>1. CASE j \in 1..Len(trys)
        <3>1. PICK u : u = trys[j]
            OBVIOUS
        <3>2. HandlerOk(u) /\ trys'[j] = u
            BY <1>14, <1>15, <2>1, <3>1 DEF Inv, HandlersOk
        <3>3. u.frames \in 1..m
            BY <1>17, <3>2 DEF HandlerOk
        <3>4. HandlerOk(u)'
            BY <1>10, <1>11, <1>17, <3>2, <3>3 DEF HandlerOk
        <3>5. QED
            BY <3>2, <3>3, <3>4, <1>11
    <2>2. CASE j = Len(trys) + 1
        <3>1. trys'[j] = t /\ t.frames = m /\ t.sp = Len(stack) /\ t.target = I.x
            BY <1>11, <1>15, <2>2 DEF t
        <3>2. PICK u : u = trys'[j]
            OBVIOUS
        <3>3. /\ FloorOf(m)' = FloorOf(m) /\ FloorOf(m) = f
              /\ \A p, d : Found(m, p, d)' <=> Found(m, p, d)
            BY <1>3, <1>10, <1>11, <1>17
        <3>4. Found(m, u.target, u.sp + 1 - f) /\ u.frames = m /\ u.sp \in Nat /\ u.sp >= f
            BY <1>4, <1>6, <1>11, <3>1, <3>2
        <3>5. HandlerOk(u)'
            BY <1>17, <3>3, <3>4 DEF HandlerOk
        <3>6. QED
            BY <3>2, <3>4, <3>5, <1>11
    <2>3. QED
        BY <1>14, <2>1, <2>2
<1>19. \A j, k \in 1..(Len(trys) + 1) : j < k => trys'[j].frames <= trys'[k].frames
    <2> TAKE j, k \in 1..(Len(trys) + 1)
    <2> HAVE j < k
    <2>1. CASE k = Len(trys) + 1
        <3>1. trys'[k].frames = m
            BY <1>11, <1>15, <2>1 DEF t
        <3>2. QED
            BY <1>18, <3>1
    <2>2. CASE k # Len(trys) + 1
        <3>1. j \in 1..Len(trys) /\ k \in 1..Len(trys)
            BY <1>14, <2>2
        <3>2. trys[j].frames <= trys[k].frames
            BY <1>14, <3>1 DEF Inv, HandlersOk
        <3>3. QED
            BY <1>15, <3>1, <3>2
    <2>3. QED
        BY <2>1, <2>2
<1>20. HandlersOk'
    BY <1>15, <1>16, <1>18, <1>19 DEF HandlersOk
<1>21. QED
    BY <1>1, <1>7, <1>8, <1>9, <1>10, <1>13, <1>20, StillDecoded DEF Inv

LEMMA TryPopInv ==
    ASSUME Inv, TryPop
    PROVE  Inv'
<1>1. /\ I.op = "TRY_POP" /\ UNCHANGED <<prog, closures, heap, globals, cells>>
      /\ stack' = stack /\ Go(Frame.ip + 1) /\ trys' = Front(trys) /\ trys # <<>>
    BY NotRaised DEF TryPop, Can, Advance, store, control
<1>2. Delta(I) = 0 /\ I.op \notin Ends
    BY <1>1, DepthTable DEF Ends
<1>3. PICK f : f = FloorOf(Len(frames))
    OBVIOUS
<1>4. f \in Nat /\ Len(stack) - f = Depth /\ Len(stack) \in Nat /\ Len(stack) >= f
      /\ Depth \in Nat
    BY <1>3, StackFacts
<1>5. Found(Len(frames), Frame.ip + 1, Len(stack) - f)
    <2>1. Found(Len(frames), Frame.ip + 1, Depth + Delta(I))
        BY <1>1, <1>2, NextFound
    <2>2. QED
        BY <1>2, <1>4, <2>1
<1>6. HeapOk' /\ NC' = NC /\ NO' = NO /\ Grows
    BY <1>1, SameHeap
<1>7. StackOk'
    BY <1>1, <1>6 DEF Inv, StackOk
<1>8. ClosuresOk' /\ ClosuresKept
    BY <1>1, <1>6, SameClosures
<1>9. /\ FramesOk'
      /\ DOMAIN frames' = 1..Len(frames)
      /\ \A i \in 1..Len(frames) :
            /\ FrameFun(i)' = FrameFun(i) /\ FloorOf(i)' = FloorOf(i)
            /\ frames'[i].base = frames[i].base
            /\ \A p, d : Found(i, p, d)' <=> Found(i, p, d)
    BY <1>1, <1>3, <1>4, <1>5, <1>8, GoFrames
<1>10. PICK m \in Nat : m = Len(frames)
    BY Sizes
<1>11. \A slot \in Nat : Local(slot) => Local(slot)'
    BY <1>9, <1>10, LocalKept
<1>12. CellsOk'
    BY <1>1, <1>6, <1>11, SameCells
<1>13. PICK q \in Nat : /\ q <= Len(trys) /\ Sq(trys') /\ Len(trys') = q
                        /\ \A j \in 1..q : trys'[j] = trys[j]
    BY <1>1, FrontOk DEF Inv, HandlersOk
<1>14. \A j \in 1..q : trys[j].frames <= m
    BY <1>10, <1>13, Sizes DEF Inv, HandlersOk, HandlerOk
<1>15. HandlersOk'
    BY <1>9, <1>10, <1>13, <1>14, CutHandlers
<1>16. QED
    BY <1>1, <1>6, <1>7, <1>8, <1>9, <1>12, <1>15, StillDecoded DEF Inv


(* An object more in the heap.                                             *)
LEMMA MoreHeap ==
    ASSUME Inv, NEW h, HeapLive(h, NC, NO), Len(h) = NO,
           NEW cell, ObjectOk(cell, NC, NO)
    PROVE  /\ HeapLive(Append(h, cell), NC, NO + 1)
           /\ Len(Append(h, cell)) = NO + 1
           /\ \A s : Good(s, NC, NO) => Good(s, NC, NO + 1)
           /\ \A s : AllLive(s, NC, NO) => AllLive(s, NC, NO + 1)
           /\ \A v : Live(v, NC, NO) => Live(v, NC, NO + 1)
           /\ Live(Obj(NO + 1), NC, NO + 1)
<1>1. PICK nc \in Nat, no \in Nat : nc = NC /\ no = NO
    BY StackFacts
<1>2. HeapLive(Append(h, cell), nc, no) /\ Len(Append(h, cell)) = no + 1
    BY <1>1, HeapAppend
<1>3. HeapLive(Append(h, cell), nc, no + 1)
    BY <1>2, HeapMonotone
<1>4. /\ \A v : Live(v, nc, no) => Live(v, nc, no + 1)
      /\ \A s : AllLive(s, nc, no) => AllLive(s, nc, no + 1)
      /\ \A s : Good(s, nc, no) => Good(s, nc, no + 1)
    BY LiveMonotone
<1>5. Live(Obj(no + 1), nc, no + 1)
    <2>1. no + 1 \in 1..(no + 1)
        OBVIOUS
    <2>2. QED
        BY <2>1, LiveConstants
<1>6. QED
    BY <1>1, <1>2, <1>3, <1>4, <1>5

LEMMA AllocateInv ==
    ASSUME Inv, UNCHANGED <<prog, closures, globals, trys, cells>>,
           I.op \notin Ends, I.op # "JUMP", I.op # "GOSUB",
           NEW cell, ObjectOk(cell, NC, NO), heap' = Append(heap, cell),
           NEW s, Good(s, NC, NO), stack' = Append(s, Obj(NO + 1)), Go(Frame.ip + 1),
           Len(s) + 1 = Len(stack) + Delta(I), Delta(I) \in Int, Depth + Delta(I) >= 0
    PROVE  Inv'
<1>1. HeapLive(heap, NC, NO) /\ Len(heap) = NO /\ AllLive(globals, NC, NO)
    BY DEF Inv, HeapOk, NO
<1>2. /\ HeapLive(Append(heap, cell), NC, NO + 1) /\ Len(Append(heap, cell)) = NO + 1
      /\ Good(s, NC, NO + 1) /\ AllLive(globals, NC, NO + 1)
      /\ Live(Obj(NO + 1), NC, NO + 1)
    BY <1>1, MoreHeap
<1>3. NC' = NC /\ NO' = NO + 1 /\ NO \in Nat
    BY <1>2, StackFacts DEF NC, NO
<1>4. HeapOk'
    BY <1>2, <1>3 DEF HeapOk
<1>5. /\ Good(Append(s, Obj(NO + 1)), NC, NO + 1)
      /\ Len(Append(s, Obj(NO + 1))) = Len(s) + 1
    BY <1>2, GoodAppend
<1>6. StackOk' /\ NO' >= NO
    BY <1>3, <1>5 DEF StackOk
<1>7. Len(stack') = Len(stack) + Delta(I)
    BY <1>5
<1>8. QED
    BY <1>4, <1>6, <1>7, NextStep

LEMMA NewObjectInv ==
    ASSUME Inv, NewObject
    PROVE  Inv'
<1>1. /\ I.op = "NEW_OBJECT" /\ UNCHANGED <<prog, closures, globals, trys, cells>>
      /\ heap' = Append(heap, PlainObject(Null))
      /\ stack' = Append(stack, Obj(NO + 1)) /\ Go(Frame.ip + 1)
    BY DEF NewObject, Allocate, Can, Advance, control, NO
<1>2. Delta(I) = 1 /\ I.op \notin Ends
    BY <1>1, DepthTable DEF Pushes, Ends
<1>3. ObjectOk(PlainObject(Null), NC, NO)
    BY NewCells
<1>4. Good(stack, NC, NO) /\ Len(stack) + 1 = Len(stack) + Delta(I)
      /\ Delta(I) \in Int /\ Depth + Delta(I) >= 0
    BY <1>2, StackFacts
<1>5. PICK s, c : s = stack /\ c = PlainObject(Null)
    OBVIOUS
<1>6. QED
    BY <1>1, <1>2, <1>3, <1>4, <1>5, AllocateInv

LEMMA NewArrayInv ==
    ASSUME Inv, NewArray
    PROVE  Inv'
<1>1. PICK e : e = SubSeq(stack, Len(stack) - I.x + 1, Len(stack))
    OBVIOUS
<1>2. /\ I.op = "NEW_ARRAY" /\ UNCHANGED <<prog, closures, globals, trys, cells>>
      /\ heap' = Append(heap, ArrayOf(e))
      /\ stack' = Append(Drop(I.x), Obj(NO + 1)) /\ Go(Frame.ip + 1)
    BY <1>1 DEF NewArray, Allocate, Can, Advance, control, NO
<1>3. Delta(I) = 1 - I.x /\ MinIn(I) = I.x /\ I.op \notin Ends
    BY <1>2, DepthTable DEF Ends
<1>4. PICK x \in Nat : x = I.x
    BY <1>2, CountsNat
<1>5. x <= Depth /\ x <= Len(stack) /\ Len(stack) \in Nat /\ Depth \in Nat
    BY <1>3, <1>4, StackFacts
<1>6. Good(e, NC, NO)
    <2>1. PICK m \in Nat : m = Len(stack) - x + 1 /\ m >= 1
        BY <1>5
    <2>2. PICK n \in Nat : n = Len(stack)
        BY <1>5
    <2>3. Good(SubSeq(stack, m, n), NC, NO)
        BY <2>1, <2>2, StackFacts, GoodSub
    <2>4. QED
        BY <1>1, <1>4, <2>1, <2>2, <2>3
<1>7. ObjectOk(ArrayOf(e), NC, NO)
    BY <1>6, NewCells
<1>8. Good(Drop(x), NC, NO) /\ Len(Drop(x)) = Len(stack) - x
    BY <1>5, Operands
<1>9. Len(Drop(x)) + 1 = Len(stack) + Delta(I) /\ Delta(I) \in Int /\ Depth + Delta(I) >= 0
    BY <1>3, <1>4, <1>5, <1>8
<1>10. PICK s, c : s = Drop(x) /\ c = ArrayOf(e)
    OBVIOUS
<1>11. QED
    BY <1>2, <1>3, <1>4, <1>7, <1>8, <1>9, <1>10, AllocateInv

LEMMA ArrayRestInv ==
    ASSUME Inv, ArrayRest
    PROVE  Inv'
<1>1. PICK a, e : a = Elements(heap, Peek(1)) /\ e = SubSeq(a, Peek(0)[2] + 1, Len(a))
    OBVIOUS
<1>2. /\ I.op = "ARRAY_REST" /\ Raised = NoError
      /\ UNCHANGED <<prog, closures, globals, trys, cells>>
      /\ heap' = Append(heap, ArrayOf(e))
      /\ stack' = Append(Drop(2), Obj(NO + 1)) /\ Go(Frame.ip + 1)
    BY <1>1 DEF ArrayRest, Allocate, Can, Advance, control, NO
<1>3. Delta(I) = -1 /\ MinIn(I) = 2 /\ I.op \notin Ends
    BY <1>2, DepthTable DEF Ends
<1>4. Depth >= 2 /\ 2 <= Len(stack) /\ 1 < Len(stack) /\ Len(stack) \in Nat /\ Depth \in Nat
      /\ Live(Peek(0), NC, NO)
    BY <1>3, StackFacts
<1>5. Live(Peek(1), NC, NO)
    BY <1>4, Operands
<1>6. Good(e, NC, NO)
    <2>1. Good(a, NC, NO)
        BY <1>1, <1>5, ElementsGood DEF Inv, HeapOk, NO
    <2>2. IsIndex(Peek(0))
        BY <1>2, NotRaised
    <2>3. PICK m \in Nat : m = Peek(0)[2] + 1 /\ m >= 1
        BY <1>4, <2>2 DEF IsIndex, Live
    <2>4. PICK n \in Nat : n = Len(a)
        BY <2>1, GoodFacts
    <2>5. Good(SubSeq(a, m, n), NC, NO)
        BY <2>1, <2>3, <2>4, GoodSub
    <2>6. QED
        BY <1>1, <2>3, <2>4, <2>5
<1>7. ObjectOk(ArrayOf(e), NC, NO)
    BY <1>6, NewCells
<1>8. Good(Drop(2), NC, NO) /\ Len(Drop(2)) = Len(stack) - 2
    BY <1>4, Operands
<1>9. Len(Drop(2)) + 1 = Len(stack) + Delta(I) /\ Delta(I) \in Int /\ Depth + Delta(I) >= 0
    BY <1>3, <1>4, <1>8
<1>10. PICK s, c : s = Drop(2) /\ c = ArrayOf(e)
    OBVIOUS
<1>11. QED
    BY <1>2, <1>3, <1>7, <1>8, <1>9, <1>10, AllocateInv


(* Closures and prototypes: what a step of them leaves of the heap.        *)
LEMMA ProtoMadeOk ==
    ASSUME Inv, NEW c \in DOMAIN closures
    PROVE  LET m == ProtoMade(c)
           IN  /\ Len(m.heap) \in Nat /\ Len(m.heap) >= NO
               /\ HeapLive(m.heap, NC, Len(m.heap))
               /\ m.obj \in 1..Len(m.heap)
               /\ DOMAIN m.closures = DOMAIN closures /\ Sq(m.closures) /\ Len(m.closures) = NC
               /\ \A d \in DOMAIN closures :
                     m.closures[d] = [fn |-> closures[d].fn, hasThis |-> closures[d].hasThis,
                                      arrow |-> closures[d].arrow, this |-> closures[d].this,
                                      ups |-> closures[d].ups, proto |-> m.closures[d].proto]
               /\ \A d \in DOMAIN closures : m.closures[d].proto \in 0..Len(m.heap)
<1> DEFINE m == ProtoMade(c)
<1>1. /\ HeapLive(heap, NC, NO) /\ Len(heap) = NO /\ NO \in Nat
      /\ DOMAIN closures = 1..NC /\ Len(closures) = NC /\ NC \in Nat
    BY Sizes DEF Inv, HeapOk, NC, NO
<1>2. Sq(closures) /\ \A d \in DOMAIN closures : ClosureOk(closures[d])
    BY DEF Inv, ClosuresOk
<1>3. CASE closures[c].proto > 0
    <2>1. m = [obj |-> closures[c].proto, heap |-> heap, closures |-> closures]
        BY <1>3 DEF ProtoMade
    <2>2. m.obj = closures[c].proto /\ m.heap = heap /\ m.closures = closures
        BY <2>1
    <2> HIDE DEF m
    <2>3. m.obj \in 1..NO
        BY <1>1, <1>2, <1>3, <2>2 DEF ClosureOk
    <2>4. \A d \in DOMAIN closures : closures[d].proto \in 0..NO
        BY <1>2 DEF ClosureOk
    <2>5. \A d \in DOMAIN closures :
              closures[d] = [fn |-> closures[d].fn, hasThis |-> closures[d].hasThis,
                             arrow |-> closures[d].arrow, this |-> closures[d].this,
                             ups |-> closures[d].ups, proto |-> closures[d].proto]
        BY <1>2 DEF ClosureOk
    <2>6. QED
        BY <1>1, <1>2, <2>2, <2>3, <2>4, <2>5 DEF m
<1>4. CASE ~(closures[c].proto > 0)
    <2> DEFINE h  == Append(heap, PrototypeOf(c))
               k  == [closures[c] EXCEPT !.proto = NO + 1]
               cs == [closures EXCEPT ![c] = k]
    <2>1. m = [obj |-> NO + 1, heap |-> h, closures |-> cs]
        BY <1>1, <1>4 DEF ProtoMade
    <2>2. m.obj = NO + 1 /\ m.heap = h /\ m.closures = cs
        BY <2>1
    <2> HIDE DEF m
    <2>3. HeapLive(h, NC, NO + 1) /\ Len(h) = NO + 1
        BY <1>1, MoreHeap, NewCells
    <2>4. k = [fn |-> closures[c].fn, hasThis |-> closures[c].hasThis,
               arrow |-> closures[c].arrow, this |-> closures[c].this,
               ups |-> closures[c].ups, proto |-> NO + 1]
        BY <1>2 DEF ClosureOk
    <2> HIDE DEF k, h
    <2>5. /\ Sq(cs) /\ Len(cs) = NC /\ DOMAIN cs = DOMAIN closures
          /\ \A d \in DOMAIN closures : cs[d] = IF d = c THEN k ELSE closures[d]
        BY <1>1, <1>2, SqExcept
    <2> HIDE DEF cs
    <2>6. \A d \in DOMAIN closures : cs[d].proto \in 0..(NO + 1)
        <3> TAKE d \in DOMAIN closures
        <3>1. CASE d = c
            BY <1>1, <2>4, <2>5, <3>1
        <3>2. CASE d # c
            BY <1>1, <1>2, <2>5, <3>2 DEF ClosureOk
        <3>3. QED
            BY <3>1, <3>2
    <2>7. \A d \in DOMAIN closures :
              cs[d] = [fn |-> closures[d].fn, hasThis |-> closures[d].hasThis,
                       arrow |-> closures[d].arrow, this |-> closures[d].this,
                       ups |-> closures[d].ups, proto |-> cs[d].proto]
        <3> TAKE d \in DOMAIN closures
        <3>1. CASE d = c
            BY <2>4, <2>5, <3>1
        <3>2. CASE d # c
            BY <1>2, <2>5, <3>2 DEF ClosureOk
        <3>3. QED
            BY <3>1, <3>2
    <2>8. NO + 1 \in 1..(NO + 1) /\ NO + 1 \in Nat /\ NO + 1 >= NO
        BY <1>1
    <2>9. QED
        BY <1>1, <2>2, <2>3, <2>5, <2>6, <2>7, <2>8 DEF m
<1>5. QED
    BY <1>3, <1>4

(* Closures that differ in their prototypes only.                          *)
LEMMA ProtosChange ==
    ASSUME Inv, prog' = prog, cells' = cells, Grows, Sq(closures'),
           DOMAIN closures' = DOMAIN closures,
           \A d \in DOMAIN closures :
              /\ closures'[d] = [fn |-> closures[d].fn, hasThis |-> closures[d].hasThis,
                                 arrow |-> closures[d].arrow, this |-> closures[d].this,
                                 ups |-> closures[d].ups, proto |-> closures'[d].proto]
              /\ closures'[d].proto \in 0..NO'
    PROVE  ClosuresOk' /\ ClosuresKept
<1>1. \A d \in DOMAIN closures : ClosureOk(closures[d])
    BY DEF Inv, ClosuresOk
<1>2. \A d \in DOMAIN closures : ClosureOk(closures[d])'
    <2> TAKE d \in DOMAIN closures
    <2>1. PICK x, y : x = closures[d] /\ y = closures'[d]
        OBVIOUS
    <2>2. ClosureOk(x)
        BY <1>1, <2>1
    <2>3. y = [fn |-> x.fn, hasThis |-> x.hasThis, arrow |-> x.arrow, this |-> x.this,
               ups |-> x.ups, proto |-> y.proto] /\ y.proto \in 0..NO'
        BY <2>1
    <2>4. Live(x.this, NC', NO')
        BY <2>2, Growth DEF ClosureOk
    <2>5. Protos' = Protos
        BY DEF Protos
    <2>6. ClosureOk(y)'
        BY <2>2, <2>3, <2>4, <2>5 DEF ClosureOk
    <2>7. QED
        BY <2>1, <2>6
<1>3. QED
    BY <1>2 DEF ClosuresOk, ClosuresKept

LEMMA GetPrototypeInv ==
    ASSUME Inv, GetPrototype
    PROVE  Inv'
<1>1. PICK n \in {1, 2} : n = IF I.op = "GET_PROP" THEN 2 ELSE 1
    OBVIOUS
<1>2. PICK m : m = ProtoMade(Peek(n - 1)[2])
    OBVIOUS
<1>3. /\ I.op \in {"GET_PROP", "GET_PROP_ATOM"} /\ UNCHANGED <<prog, trys, cells, globals>>
      /\ heap' = m.heap /\ closures' = m.closures
      /\ stack' = Append(Drop(n), Obj(m.obj)) /\ Go(Frame.ip + 1)
      /\ Peek(n - 1)[1] = "fn"
    BY <1>1, <1>2 DEF GetPrototype, AsksPrototype, Can, Advance, control
<1>4. Delta(I) = 1 - n /\ MinIn(I) = n /\ I.op \notin Ends
    BY <1>1, <1>3, DepthTable DEF Unary1, Ends
<1>5. Depth >= n /\ n <= Len(stack) /\ n - 1 < Len(stack) /\ Len(stack) \in Nat /\ Depth \in Nat
      /\ n \in Nat /\ n - 1 \in Nat /\ NC \in Nat /\ NO \in Nat
    BY <1>4, StackFacts
<1>6. Live(Peek(n - 1), NC, NO)
    BY <1>5, Operands
<1>7. PICK c \in DOMAIN closures : c = Peek(n - 1)[2]
    BY <1>3, <1>6, Sizes DEF Live
<1>8. /\ Len(m.heap) \in Nat /\ Len(m.heap) >= NO
      /\ HeapLive(m.heap, NC, Len(m.heap))
      /\ m.obj \in 1..Len(m.heap)
      /\ DOMAIN m.closures = DOMAIN closures /\ Sq(m.closures) /\ Len(m.closures) = NC
      /\ \A d \in DOMAIN closures :
            m.closures[d] = [fn |-> closures[d].fn, hasThis |-> closures[d].hasThis,
                             arrow |-> closures[d].arrow, this |-> closures[d].this,
                             ups |-> closures[d].ups, proto |-> m.closures[d].proto]
      /\ \A d \in DOMAIN closures : m.closures[d].proto \in 0..Len(m.heap)
    BY <1>2, <1>7, ProtoMadeOk
<1>9. NC' = NC /\ NO' = Len(m.heap) /\ Grows
    BY <1>3, <1>5, <1>8 DEF NC, NO, Grows
<1>10. ClosuresOk' /\ ClosuresKept
    BY <1>3, <1>8, <1>9, ProtosChange
<1>11. HeapOk'
    <2>1. AllLive(globals, NC', NO')
        BY <1>9, Growth DEF Inv, HeapOk
    <2>2. QED
        BY <1>3, <1>8, <1>9, <2>1 DEF HeapOk
<1>12. Good(Drop(n), NC, NO) /\ Len(Drop(n)) = Len(stack) - n
    BY <1>5, Operands
<1>13. Good(Drop(n), NC', NO') /\ Live(Obj(m.obj), NC', NO')
    BY <1>8, <1>9, <1>12, Growth, LiveConstants
<1>14. Good(stack', NC', NO') /\ Len(stack') = Len(stack) - n + 1
    BY <1>3, <1>12, <1>13, GoodAppend
<1>15. PICK f : f = FloorOf(Len(frames))
    OBVIOUS
<1>16. f \in Nat /\ Len(stack) - f = Depth
    BY <1>15, StackFacts
<1>17. Len(stack') \in Nat /\ Len(stack') >= f /\ Len(stack') - f = Depth + Delta(I)
    BY <1>4, <1>5, <1>14, <1>16
<1>18. Found(Len(frames), Frame.ip + 1, Depth + Delta(I))
    BY <1>3, <1>4, NextFound
<1>19. /\ Decoded' /\ FramesOk' /\ HandlersOk'
       /\ \A slot \in Nat : Local(slot) => Local(slot)'
    BY <1>3, <1>10, <1>15, <1>17, <1>18, TopFrames
<1>20. CellsOk'
    BY <1>3, <1>9, <1>19, SameCells
<1>21. QED
    BY <1>10, <1>11, <1>14, <1>19, <1>20 DEF Inv, StackOk

LEMMA SetPrototypeInv ==
    ASSUME Inv, SetPrototype
    PROVE  Inv'
<1>1. PICK n \in {2, 3} : n = IF I.op = "SET_PROP_ATOM" THEN 2 ELSE 3
    OBVIOUS
<1>2. PICK s : s = IF I.op = "DEFINE_PROP" THEN Drop(2) ELSE Append(Drop(n), Peek(0))
    OBVIOUS
<1>3. /\ I.op \in {"DEFINE_PROP", "SET_PROP", "SET_PROP_ATOM"}
      /\ UNCHANGED <<prog, trys, cells, heap, globals>>
      /\ closures' = IF Peek(0)[1] # "obj" THEN closures
                     ELSE [closures EXCEPT ![Peek(n - 1)[2]].proto = Peek(0)[2]]
      /\ stack' = s /\ Go(Frame.ip + 1)
      /\ Peek(n - 1)[1] = "fn"
    BY <1>1, <1>2 DEF SetPrototype, SetsPrototype, Can, Advance, control
<1>4. Delta(I) = 1 - n /\ MinIn(I) = n /\ I.op \notin Ends
    BY <1>1, <1>3, DepthTable DEF Ends
<1>5. Depth >= n /\ n <= Len(stack) /\ n - 1 < Len(stack) /\ 2 <= Len(stack)
      /\ Len(stack) \in Nat /\ Depth \in Nat
      /\ n \in Nat /\ n - 1 \in Nat /\ NC \in Nat /\ NO \in Nat /\ Live(Peek(0), NC, NO)
    BY <1>4, StackFacts
<1>6. Live(Peek(n - 1), NC, NO)
    BY <1>5, Operands
<1>7. PICK c \in DOMAIN closures : c = Peek(n - 1)[2]
    BY <1>3, <1>6, Sizes DEF Live
<1>8. Sq(closures) /\ \A d \in DOMAIN closures : ClosureOk(closures[d])
    BY DEF Inv, ClosuresOk
<1>9. /\ Sq(closures') /\ Len(closures') = NC /\ DOMAIN closures' = DOMAIN closures
      /\ \A d \in DOMAIN closures :
            /\ closures'[d] = [fn |-> closures[d].fn, hasThis |-> closures[d].hasThis,
                               arrow |-> closures[d].arrow, this |-> closures[d].this,
                               ups |-> closures[d].ups, proto |-> closures'[d].proto]
            /\ closures'[d].proto \in 0..NO
    <2>1. \A d \in DOMAIN closures :
             /\ closures[d] = [fn |-> closures[d].fn, hasThis |-> closures[d].hasThis,
                               arrow |-> closures[d].arrow, this |-> closures[d].this,
                               ups |-> closures[d].ups, proto |-> closures[d].proto]
             /\ closures[d].proto \in 0..NO
        BY <1>8 DEF ClosureOk
    <2>2. CASE Peek(0)[1] # "obj"
        <3>1. closures' = closures
            BY <1>3, <2>2
        <3>2. QED
            BY <1>8, <2>1, <3>1 DEF NC
    <2>3. CASE Peek(0)[1] = "obj"
        <3>1. PICK o : o = Peek(0)[2] /\ o \in 0..NO
            BY <1>5, <2>3 DEF Live
        <3>2. PICK k : k = [closures[c] EXCEPT !.proto = o]
            OBVIOUS
        <3>3. k = [fn |-> closures[c].fn, hasThis |-> closures[c].hasThis,
                   arrow |-> closures[c].arrow, this |-> closures[c].this,
                   ups |-> closures[c].ups, proto |-> o]
            BY <2>1, <3>2
        <3>4. closures' = [closures EXCEPT ![c] = k]
            BY <1>3, <1>7, <2>3, <3>1, <3>2
        <3>5. /\ Sq(closures') /\ Len(closures') = NC /\ DOMAIN closures' = DOMAIN closures
              /\ \A d \in DOMAIN closures : closures'[d] = IF d = c THEN k ELSE closures[d]
            BY <1>8, <3>4, SqExcept DEF NC
        <3>6. ASSUME NEW d \in DOMAIN closures
              PROVE  /\ closures'[d] = [fn |-> closures[d].fn, hasThis |-> closures[d].hasThis,
                                        arrow |-> closures[d].arrow, this |-> closures[d].this,
                                        ups |-> closures[d].ups, proto |-> closures'[d].proto]
                     /\ closures'[d].proto \in 0..NO
            <4>1. CASE d = c
                BY <3>1, <3>3, <3>5, <4>1
            <4>2. CASE d # c
                BY <2>1, <3>5, <4>2
            <4>3. QED
                BY <4>1, <4>2
        <3>7. QED
            BY <3>5, <3>6
    <2>4. QED
        BY <2>2, <2>3
<1>10. NC' = NC /\ NO' = NO /\ Grows
    BY <1>3, <1>5, <1>9 DEF NC, NO, Grows
<1>11. ClosuresOk' /\ ClosuresKept
    BY <1>3, <1>9, <1>10, ProtosChange
<1>12. HeapOk'
    BY <1>3, <1>10 DEF Inv, HeapOk
<1>13. Good(s, NC, NO) /\ Len(s) = Len(stack) - n + 1
    <2>1. CASE I.op = "DEFINE_PROP"
        <3>1. Good(Drop(2), NC, NO) /\ Len(Drop(2)) = Len(stack) - 2 /\ n = 3
            BY <1>1, <1>5, <2>1, Operands
        <3>2. QED
            BY <1>2, <1>5, <2>1, <3>1
    <2>2. CASE I.op # "DEFINE_PROP"
        <3>1. Good(Drop(n), NC, NO) /\ Len(Drop(n)) = Len(stack) - n
            BY <1>5, Operands
        <3>2. QED
            BY <1>2, <1>5, <2>2, <3>1, GoodAppend
    <2>3. QED
        BY <2>1, <2>2
<1>14. Good(stack', NC', NO') /\ Len(stack') = Len(stack) - n + 1
    BY <1>3, <1>10, <1>13
<1>15. PICK f : f = FloorOf(Len(frames))
    OBVIOUS
<1>16. f \in Nat /\ Len(stack) - f = Depth
    BY <1>15, StackFacts
<1>17. Len(stack') \in Nat /\ Len(stack') >= f /\ Len(stack') - f = Depth + Delta(I)
    BY <1>4, <1>5, <1>14, <1>16
<1>18. Found(Len(frames), Frame.ip + 1, Depth + Delta(I))
    BY <1>3, <1>4, NextFound
<1>19. /\ Decoded' /\ FramesOk' /\ HandlersOk'
       /\ \A slot \in Nat : Local(slot) => Local(slot)'
    BY <1>3, <1>11, <1>15, <1>17, <1>18, TopFrames
<1>20. CellsOk'
    BY <1>3, <1>10, <1>19, SameCells
<1>21. QED
    BY <1>11, <1>12, <1>14, <1>19, <1>20 DEF Inv, StackOk

(* What a write leaves.                                                    *)
LEMMA WrittenOk ==
    ASSUME Inv, Raised = NoError, ~SetsPrototype,
           I.op \in {"ARRAY_APPEND", "ARRAY_SPREAD", "OBJ_SPREAD", "DEFINE_PROP", "SET_PROP",
                     "SET_PROP_ATOM", "DELETE_PROP"}
    PROVE  /\ HeapLive(Written[1], NC, NO) /\ Len(Written[1]) = NO
           /\ Good(Written[2], NC, NO) /\ Len(Written[2]) = Len(stack) + Delta(I)
           /\ Delta(I) \in Int /\ Depth + Delta(I) >= 0
<1>1. /\ HeapLive(heap, NC, NO) /\ Len(heap) = NO /\ DOMAIN heap = 1..NO
      /\ Len(stack) \in Nat /\ Depth \in Nat /\ Depth >= MinIn(I) /\ Len(stack) >= Depth + 2
      /\ Live(Peek(0), NC, NO)
    BY Sizes, StackFacts DEF Inv, HeapOk, NO
<1>2. MinIn(I) \in Nat /\ MinIn(I) >= 2
    BY DepthTable
<1>3. 1 < Len(stack) /\ 2 <= Len(stack) /\ 3 <= Len(stack) /\ 2 < Len(stack) /\ 1 <= Len(stack)
      /\ Depth >= 2
    BY <1>1, <1>2
<1>4. Live(Peek(1), NC, NO) /\ Live(Peek(2), NC, NO)
    BY <1>3, Operands
<1>5. /\ Good(Drop(1), NC, NO) /\ Len(Drop(1)) = Len(stack) - 1
      /\ Good(Drop(2), NC, NO) /\ Len(Drop(2)) = Len(stack) - 2
      /\ Good(Drop(3), NC, NO) /\ Len(Drop(3)) = Len(stack) - 3
    BY <1>3, Operands
<1>6. \A v : v[1] = "obj" /\ Live(v, NC, NO) => v[2] \in DOMAIN heap
    BY <1>1 DEF Live
<1>7. \A o \in DOMAIN heap : Good(heap[o].elems, NC, NO) /\ AllLive(heap[o].props, NC, NO)
    BY <1>1 DEF HeapLive, ObjectOk
<1>8. CASE I.op = "ARRAY_APPEND"
    <2>1. Delta(I) = -1
        BY <1>8, DepthTable
    <2>2. PICK o \in DOMAIN heap : o = Peek(1)[2]
        BY <1>4, <1>6, <1>8, NotRaised DEF IsArray
    <2>3. PICK s : s = Append(heap[o].elems, Peek(0))
        OBVIOUS
    <2>4. Good(s, NC, NO)
        BY <1>1, <1>7, <2>3, GoodAppend
    <2>5. Written = <<[heap EXCEPT ![o].elems = s], Drop(1)>>
        BY <1>8, <2>2, <2>3 DEF Written
    <2>6. /\ HeapLive([heap EXCEPT ![o].elems = s], NC, NO)
          /\ Len([heap EXCEPT ![o].elems = s]) = NO
        BY <1>1, <2>4, ElemsChange
    <2>7. Written[1] = [heap EXCEPT ![o].elems = s] /\ Written[2] = Drop(1)
        BY <2>5
    <2>8. QED
        BY <1>1, <1>3, <1>5, <2>1, <2>6, <2>7
<1>9. CASE I.op = "ARRAY_SPREAD"
    <2>1. Delta(I) = -1
        BY <1>9, DepthTable
    <2>2. PICK o \in DOMAIN heap : o = Peek(1)[2]
        BY <1>4, <1>6, <1>9, NotRaised DEF IsArray
    <2>3. PICK e, s : e = Elements(heap, Peek(0)) /\ s = heap[o].elems \o e
        OBVIOUS
    <2>4. Good(s, NC, NO)
        BY <1>1, <1>7, <2>3, ElementsGood, GoodCat
    <2>5. Written = <<[heap EXCEPT ![o].elems = s], Drop(1)>>
        BY <1>9, <2>2, <2>3 DEF Written
    <2>6. /\ HeapLive([heap EXCEPT ![o].elems = s], NC, NO)
          /\ Len([heap EXCEPT ![o].elems = s]) = NO
        BY <1>1, <2>4, ElemsChange
    <2>7. Written[1] = [heap EXCEPT ![o].elems = s] /\ Written[2] = Drop(1)
        BY <2>5
    <2>8. QED
        BY <1>1, <1>3, <1>5, <2>1, <2>6, <2>7
<1>10. CASE I.op = "OBJ_SPREAD"
    <2>1. Delta(I) = -1
        BY <1>10, DepthTable
    <2>2. PICK o \in DOMAIN heap : o = Peek(1)[2]
        BY <1>4, <1>6, <1>10, NotRaised
    <2>3. PICK h : h = SpreadInto(heap, o, Peek(0))
        OBVIOUS
    <2>4. HeapLive(h, NC, NO) /\ Len(h) = NO
        BY <1>1, <2>3, SpreadIntoLive
    <2>5. Written = <<h, Drop(1)>>
        BY <1>10, <2>2, <2>3 DEF Written
    <2>6. Written[1] = h /\ Written[2] = Drop(1)
        BY <2>5
    <2>7. QED
        BY <1>1, <1>3, <1>5, <2>1, <2>4, <2>6
<1>11. CASE I.op \in {"DEFINE_PROP", "SET_PROP"}
    <2>1. Delta(I) = -2
        BY <1>11, DepthTable
    <2>2. PICK o \in DOMAIN heap : o = Peek(2)[2] /\ Peek(2)[1] = "obj"
        <3>1. SetFault(heap, Peek(2), Peek(1), Peek(0)) = NoError
            BY <1>11, NotRaised
        <3>2. Peek(2)[1] = "obj"
            BY <1>1, <1>11, <3>1, NotRefused DEF SetsPrototype
        <3>3. QED
            BY <1>4, <1>6, <3>2
    <2>3. PICK h : h = SetProperty(heap, o, Peek(1), Peek(0))
        OBVIOUS
    <2>4. HeapLive(h, NC, NO) /\ Len(h) = NO
        <3>1. PICK b : b = Peek(2) /\ b[1] = "obj" /\ o = b[2]
            BY <2>2
        <3>2. SetFault(heap, b, Peek(1), Peek(0)) = NoError
            BY <1>11, <3>1, NotRaised
        <3>3. QED
            BY <1>1, <1>4, <2>3, <3>1, <3>2, SetPropertyLive
    <2>5. PICK s : s = IF I.op = "DEFINE_PROP" THEN Drop(2) ELSE Append(Drop(3), Peek(0))
        OBVIOUS
    <2>6. Good(s, NC, NO) /\ Len(s) = Len(stack) - 2
        <3>1. /\ Good(Append(Drop(3), Peek(0)), NC, NO)
              /\ Len(Append(Drop(3), Peek(0))) = Len(stack) - 3 + 1
            BY <1>1, <1>5, GoodAppend
        <3>2. Len(stack) - 3 + 1 = Len(stack) - 2
            BY <1>1
        <3>3. QED
            BY <1>5, <2>5, <3>1, <3>2, Zenon
    <2>7. Written = <<h, s>>
        BY <1>11, <2>2, <2>3, <2>5 DEF Written
    <2>8. Written[1] = h /\ Written[2] = s
        BY <2>7
    <2>9. QED
        BY <1>1, <1>3, <2>1, <2>4, <2>6, <2>8
<1>12. CASE I.op = "SET_PROP_ATOM"
    <2>1. Delta(I) = -1
        BY <1>12, DepthTable
    <2>2. PICK o \in DOMAIN heap : o = Peek(1)[2] /\ Peek(1)[1] = "obj"
        <3>1. SetFault(heap, Peek(1), Str(Name), Peek(0)) = NoError
            BY <1>12, NotRaised
        <3>2. Peek(1)[1] = "obj" \/ (Peek(1)[1] = "fn" /\ Str(Name) = Str("prototype"))
            BY <1>1, <3>1, NotRefused
        <3>3. Peek(1)[1] = "obj"
            BY <1>12, <3>2 DEF SetsPrototype, Str
        <3>4. QED
            BY <1>4, <1>6, <3>3
    <2>3. PICK h : h = SetProperty(heap, o, Str(Name), Peek(0))
        OBVIOUS
    <2>4. HeapLive(h, NC, NO) /\ Len(h) = NO
        <3>1. PICK b, k : b = Peek(1) /\ b[1] = "obj" /\ o = b[2] /\ k = Str(Name)
            BY <2>2
        <3>2. SetFault(heap, b, k, Peek(0)) = NoError
            BY <1>12, <3>1, NotRaised
        <3>3. Live(k, NC, NO)
            BY <3>1, LiveConstants
        <3>4. QED
            BY <1>1, <2>3, <3>1, <3>2, <3>3, SetPropertyLive
    <2>5. PICK s : s = Append(Drop(2), Peek(0))
        OBVIOUS
    <2>6. Good(s, NC, NO) /\ Len(s) = Len(stack) - 2 + 1
        BY <1>1, <1>5, <2>5, GoodAppend
    <2>7. Written = <<h, s>>
        BY <1>12, <2>2, <2>3, <2>5 DEF Written
    <2>8. Written[1] = h /\ Written[2] = s
        BY <2>7
    <2>9. QED
        BY <1>1, <1>3, <2>1, <2>4, <2>6, <2>8
<1>13. CASE I.op = "DELETE_PROP"
    <2>1. Delta(I) = -1
        BY <1>13, DepthTable
    <2>2. PICK h : h = IF Peek(1)[1] = "obj" THEN DeleteProperty(heap, Peek(1)[2], Peek(0))
                       ELSE heap
        OBVIOUS
    <2>3. HeapLive(h, NC, NO) /\ Len(h) = NO
        <3>1. CASE Peek(1)[1] = "obj"
            <4>1. PICK o \in DOMAIN heap : o = Peek(1)[2]
                BY <1>4, <1>6, <3>1
            <4>2. h = DeleteProperty(heap, o, Peek(0))
                BY <2>2, <3>1, <4>1
            <4>3. QED
                BY <1>1, <4>2, DeletePropertyLive
        <3>2. CASE Peek(1)[1] # "obj"
            BY <1>1, <2>2, <3>2
        <3>3. QED
            BY <3>1, <3>2
    <2>4. PICK s : s = Append(Drop(2), Bool(TRUE))
        OBVIOUS
    <2>5. Good(s, NC, NO) /\ Len(s) = Len(stack) - 2 + 1
        BY <1>5, <2>4, LiveConstants, GoodAppend
    <2>6. Written = <<h, s>>
        BY <1>13, <2>2, <2>4 DEF Written
    <2>7. Written[1] = h /\ Written[2] = s
        BY <2>6
    <2>8. QED
        BY <1>1, <1>3, <2>1, <2>3, <2>5, <2>7
<1>14. QED
    BY <1>8, <1>9, <1>10, <1>11, <1>12, <1>13

LEMMA WriteInv ==
    ASSUME Inv, Write
    PROVE  Inv'
<1>1. PICK h, s : h = Written[1] /\ s = Written[2]
    OBVIOUS
<1>2. /\ I.op \in {"ARRAY_APPEND", "ARRAY_SPREAD", "OBJ_SPREAD", "DEFINE_PROP", "SET_PROP",
                   "SET_PROP_ATOM", "DELETE_PROP"}
      /\ Raised = NoError /\ ~SetsPrototype /\ UNCHANGED <<prog, closures, globals, trys, cells>>
      /\ heap' = h /\ stack' = s /\ Go(Frame.ip + 1)
    BY <1>1 DEF Write, Can, Advance, control
<1>3. /\ HeapLive(h, NC, NO) /\ Len(h) = NO
      /\ Good(s, NC, NO) /\ Len(s) = Len(stack) + Delta(I)
      /\ Delta(I) \in Int /\ Depth + Delta(I) >= 0
    BY <1>1, <1>2, WrittenOk
<1>4. NC' = NC /\ NO' = NO /\ NO \in Nat
    BY <1>2, <1>3, StackFacts DEF NC, NO
<1>5. HeapOk' /\ StackOk' /\ NO' >= NO
    BY <1>2, <1>3, <1>4 DEF Inv, HeapOk, StackOk
<1>6. I.op \notin Ends /\ I.op # "JUMP" /\ I.op # "GOSUB"
    BY <1>2 DEF Ends
<1>7. QED
    BY <1>2, <1>3, <1>5, <1>6, NextStep

LEMMA CloseUpvalsInv ==
    ASSUME Inv, CloseUpvals
    PROVE  Inv'
<1>1. /\ I.op = "CLOSE_UPVALS" /\ UNCHANGED <<prog, closures, heap, globals, trys>>
      /\ stack' = stack /\ Go(Frame.ip + 1) /\ cells' = CloseFrom(LocalPos(I.x))
    BY DEF CloseUpvals, Can, Advance, control
<1>2. Delta(I) = 0 /\ I.op \notin Ends
    BY <1>1, DepthTable DEF Ends
<1>3. PICK floor \in Nat : floor = LocalPos(I.x)
    <2>1. I.x \in Nat
        BY <1>1, CountsNat
    <2>2. Frame.base \in Nat
        BY Here
    <2>3. QED
        BY <2>1, <2>2 DEF LocalPos
<1>4. HeapOk' /\ NC' = NC /\ NO' = NO /\ Grows /\ NO' >= NO
    BY <1>1, SameHeap, StackFacts
<1>5. StackOk'
    BY <1>1, <1>4 DEF Inv, StackOk
<1>6. Len(stack') >= FloorOf(Len(frames)) /\ Len(stack') - FloorOf(Len(frames)) = Depth
      /\ Depth \in Nat
    BY <1>1, StackFacts
<1>7. Found(Len(frames), Frame.ip + 1, Depth + Delta(I))
    BY <1>1, <1>2, NextFound
<1>8. Found(Len(frames), Frame.ip + 1, Len(stack') - FloorOf(Len(frames)))
    <2>1. Depth + Delta(I) = Depth
        BY <1>2, <1>6
    <2>2. QED
        BY <1>6, <1>7, <2>1
<1>9. DOMAIN cells' = DOMAIN cells
    BY <1>1 DEF CloseFrom
<1>10. /\ Decoded' /\ ClosuresOk' /\ FramesOk' /\ HandlersOk'
       /\ \A slot \in Nat : Local(slot) => Local(slot)'
    BY <1>1, <1>4, <1>5, <1>6, <1>8, <1>9, TopStep
<1>11. CellsOk'
    BY <1>1, <1>3, <1>4, <1>10, ClosedCells
<1>12. QED
    BY <1>4, <1>5, <1>10, <1>11 DEF Inv

---------------------------------------------------------------------------
(* Errors.                                                                 *)

LEMMA CutLive ==
    ASSUME Inv, NEW n \in Nat
    PROVE  Good(CutTo(n), NC, NO) /\ Len(CutTo(n)) = n
<1> DEFINE c == CutTo(n)
<1>1. DOMAIN c = 1..n /\ c = [i \in 1..n |-> c[i]]
    BY DEF CutTo
<1>2. \A i \in 1..n : c[i] = IF i <= Len(stack) THEN stack[i] ELSE Stale
    BY DEF CutTo
<1> HIDE DEF c
<1>3. Sq(c) /\ Len(c) = n
    BY <1>1, SqFunction
<1>4. \A i \in 1..n : Live(c[i], NC, NO)
    BY <1>2, Sizes, LiveConstants
<1>5. QED
    BY <1>1, <1>3, <1>4 DEF c, Good, AllLive

LEMMA ErrorInv ==
    ASSUME Inv, NEW e, Live(e, NC, NO), OnError(e), UNCHANGED <<closures, heap, globals, prog>>
    PROVE  Inv'
<1>1. HeapOk' /\ NC' = NC /\ NO' = NO /\ Grows
    BY SameHeap
<1>2. Decoded'
    BY StillDecoded
<1>3. CASE trys = <<>>
    <2>1. UNCHANGED <<frames, stack, trys, cells>>
        BY <1>3 DEF OnError
    <2>2. QED
        BY <2>1 DEF Inv, Decoded, Loads, StackOk, HeapOk, ClosuresOk, ClosureOk, FramesOk, FrameOk,
           HandlersOk, HandlerOk, CellsOk, CellOk, Local, NC, NO, Protos, TopOf, FloorOf,
           FrameFun, ShapesOf, Found
<1>4. CASE trys # <<>>
    <2>1. Sq(trys) /\ DOMAIN trys = 1..Len(trys) /\ Len(trys) \in Nat
          /\ Last(trys) = trys[Len(trys)] /\ Len(trys) \in DOMAIN trys
        BY <1>4, Sizes, FrontOk DEF Inv, HandlersOk
    <2>2. PICK t : t = Last(trys)
        OBVIOUS
    <2>3. HandlerOk(t)
        BY <2>1, <2>2 DEF Inv, HandlersOk
    <2>4. PICK k \in DOMAIN frames : k = t.frames
        BY <2>3 DEF HandlerOk
    <2>5. PICK sp \in Nat : sp = t.sp
        BY <2>3 DEF HandlerOk
    <2>6. /\ frames' = [SubSeq(frames, 1, k) EXCEPT ![k].ip = t.target]
          /\ cells' = IF Len(frames) > k THEN CloseFrom(frames[k + 1].base + 1) ELSE cells
          /\ stack' = Append(CutTo(sp), e) /\ trys' = Front(trys)
        BY <1>4, <2>2, <2>4, <2>5 DEF OnError, HandlersLeft
    <2>7. Good(CutTo(sp), NC, NO) /\ Len(CutTo(sp)) = sp
        BY CutLive
    <2>8. Good(Append(CutTo(sp), e), NC, NO) /\ Len(Append(CutTo(sp), e)) = sp + 1
        BY <2>7, GoodAppend
    <2>9. StackOk' /\ Len(stack') = sp + 1
        BY <1>1, <2>6, <2>8 DEF StackOk
    <2>10. /\ k \in Nat /\ k >= 1 /\ k <= Len(frames) /\ k \in 1..k /\ Len(frames) \in Nat
           /\ DOMAIN frames = 1..Len(frames)
        BY Sizes
    <2>11. Sq(frames)
        BY DEF Inv, FramesOk
    <2>12. PICK kept : kept = SubSeq(frames, 1, k)
        OBVIOUS
    <2>13. Sq(kept) /\ Len(kept) = k /\ \A i \in 1..k : kept[i] = frames[i]
        <3>1. /\ Sq(SubSeq(frames, 1, k))
              /\ Len(SubSeq(frames, 1, k)) = IF 1 <= k THEN k - 1 + 1 ELSE 0
              /\ \A i \in 1..Len(SubSeq(frames, 1, k)) :
                    SubSeq(frames, 1, k)[i] = frames[1 + i - 1]
            BY <2>10, <2>11, SqSub
        <3>2. Len(kept) = k
            BY <2>10, <2>12, <3>1
        <3>3. QED
            BY <2>10, <2>12, <3>1, <3>2
    <2>14. PICK v : v = [kept[k] EXCEPT !.ip = t.target]
        OBVIOUS
    <2>15. frames' = [kept EXCEPT ![k] = v]
        BY <2>6, <2>12, <2>14
    <2>16. /\ Sq(frames') /\ Len(frames') = k
           /\ \A i \in DOMAIN kept : frames'[i] = IF i = k THEN v ELSE kept[i]
        <3>0. Sq(kept)
            BY <2>13
        <3>1. /\ Sq([kept EXCEPT ![k] = v]) /\ Len([kept EXCEPT ![k] = v]) = Len(kept)
              /\ \A i \in DOMAIN kept : [kept EXCEPT ![k] = v][i] = IF i = k THEN v ELSE kept[i]
            BY <3>0, SqExcept
        <3>2. QED
            BY <2>13, <2>15, <3>1
    <2>17. DOMAIN kept = 1..k
        BY <2>13, SqFacts
    <2>18. /\ \A i \in 1..k : i # k => frames'[i] = frames[i]
           /\ frames'[k] = [frames[k] EXCEPT !.ip = t.target]
        BY <2>10, <2>13, <2>14, <2>16, <2>17
    <2>19. ClosuresOk' /\ ClosuresKept
        <3>1. DOMAIN cells \subseteq DOMAIN cells'
            BY <2>6 DEF CloseFrom
        <3>2. QED
            BY <1>1, <3>1, SameClosures
    <2>20. /\ Len(stack') \in Nat /\ Len(stack') >= FloorOf(k)
           /\ Found(k, t.target, Len(stack') - FloorOf(k))
        <3>1. FloorOf(k) \in Nat
            BY AtFrame
        <3>2. sp >= FloorOf(k) /\ Found(k, t.target, sp + 1 - FloorOf(k))
            BY <2>3, <2>4, <2>5 DEF HandlerOk
        <3>3. QED
            BY <2>9, <3>1, <3>2
    <2>21. /\ FramesOk'
           /\ DOMAIN frames' = 1..k
           /\ \A i \in 1..k : /\ FrameFun(i)' = FrameFun(i) /\ FloorOf(i)' = FloorOf(i)
                              /\ frames'[i].base = frames[i].base
                              /\ \A p, d : Found(i, p, d)' <=> Found(i, p, d)
        BY <2>16, <2>18, <2>19, <2>20, CutFrames
    <2>22. PICK q \in Nat : /\ q = Len(trys) - 1 /\ Sq(trys') /\ Len(trys') = q
                            /\ \A j \in 1..q : trys'[j] = trys[j]
        BY <1>4, <2>1, <2>6, FrontOk
    <2>23. \A j \in 1..q : trys[j].frames <= k
        <3> TAKE j \in 1..q
        <3>1. j \in DOMAIN trys /\ j < Len(trys)
            BY <2>1, <2>22
        <3>2. QED
            BY <2>1, <2>2, <2>4, <3>1 DEF Inv, HandlersOk
    <2>24. HandlersOk'
        <3>1. /\ k \in Nat /\ k <= Len(frames) /\ 1..k \subseteq DOMAIN frames'
              /\ \A i \in 1..k : /\ FloorOf(i)' = FloorOf(i)
                                 /\ \A p, d : Found(i, p, d)' <=> Found(i, p, d)
            BY <2>10, <2>21
        <3>2. q <= Len(trys)
            BY <2>1, <2>22
        <3>3. QED
            BY <2>22, <2>23, <3>1, <3>2, CutHandlers
    <2>25. CellsOk'
        <3>1. CASE Len(frames) > k
            <4>1. k + 1 \in DOMAIN frames
                BY <2>10, <3>1
            <4>2. frames[k + 1].base \in Nat
                BY <4>1, AtFrame
            <4>3. PICK floor \in Nat : floor = frames[k + 1].base + 1
                BY <4>2
            <4>4. \A slot \in Nat : slot < floor /\ Local(slot) => Local(slot)'
                <5> TAKE slot \in Nat
                <5> HAVE slot < floor /\ Local(slot)
                <5>1. slot <= frames[k + 1].base
                    BY <4>2, <4>3
                <5>2. QED
                    BY <2>10, <2>21, <5>1, LocalKept
            <4>5. cells' = CloseFrom(floor)
                BY <2>6, <3>1, <4>3
            <4>6. QED
                BY <1>1, <4>4, <4>5, ClosedCells
        <3>2. CASE ~(Len(frames) > k)
            <4>1. cells' = cells
                BY <2>6, <3>2
            <4>2. ~(k < Len(frames))
                BY <2>10, <3>2
            <4>3. \A slot \in Nat : Local(slot) => Local(slot)'
                BY <2>10, <2>21, <4>2, LocalKept
            <4>4. QED
                BY <1>1, <4>1, <4>3, SameCells
        <3>3. QED
            BY <3>1, <3>2
    <2>26. QED
        BY <1>1, <1>2, <2>9, <2>19, <2>21, <2>24, <2>25 DEF Inv
<1>5. QED
    BY <1>3, <1>4

(* What an instruction raises is a thrown value or an error.               *)
LEMMA RaisedLive ==
    ASSUME Inv
    PROVE  Live(Raised, NC, NO)
<1>1. \A x : Live(Error(x), NC, NO)
    BY LiveConstants
<1>2. Live(NoError, NC, NO)
    BY DEF Live, NoError
<1>3. Live(Peek(0), NC, NO)
    BY StackFacts
<1>4. Live(CallFault, NC, NO) /\ Live(RetSubFault, NC, NO)
    BY <1>1, <1>2 DEF CallFault, RetSubFault
<1>5. ASSUME NEW base, NEW key, NEW v
      PROVE  \/ SetFault(heap, base, key, v) = NoError
             \/ \E x : SetFault(heap, base, key, v) = Error(x)
    BY DEF SetFault
<1>6. Fault = Peek(0) \/ Fault = CallFault \/ Fault = RetSubFault \/ Fault = NoError
      \/ \E x : Fault = Error(x)
    <2>1. CASE I.op \in {"SET_PROP", "DEFINE_PROP"}
        <3>1. Fault = SetFault(heap, Peek(2), Peek(1), Peek(0))
            BY <2>1 DEF Fault
        <3>2. QED
            BY <1>5, <3>1
    <2>2. CASE I.op = "SET_PROP_ATOM"
        <3>1. Fault = SetFault(heap, Peek(1), Str(Name), Peek(0))
            BY <2>2 DEF Fault
        <3>2. QED
            BY <1>5, <3>1
    <2>3. CASE I.op \notin {"SET_PROP", "DEFINE_PROP", "SET_PROP_ATOM"}
        <3>1. PICK e : e = Fault
            OBVIOUS
        <3>2. I.op = "THROW" => e = Peek(0)
            BY <3>1 DEF Fault
        <3>3. I.op \in {"CALL", "CALL_VARARGS", "NEW", "NEW_VARARGS"} => e = CallFault
            BY <3>1 DEF Fault
        <3>4. I.op = "RET_SUB" => e = RetSubFault
            BY <3>1 DEF Fault
        <3>5. I.op \notin {"THROW", "CALL", "CALL_VARARGS", "NEW", "NEW_VARARGS", "RET_SUB"}
              => e \in {NoError, Error("TypeError"), Error("ReferenceError"), Error("internal")}
            BY <2>3, <3>1 DEF Fault
        <3>6. QED
            BY <3>1, <3>2, <3>3, <3>4, <3>5
    <2>4. QED
        BY <2>1, <2>2, <2>3
<1>7. Live(Fault, NC, NO)
    BY <1>1, <1>2, <1>3, <1>4, <1>6
<1>8. QED
    BY <1>1, <1>7 DEF Raised

LEMMA RaiseInv ==
    ASSUME Inv, Raise
    PROVE  Inv'
<1>1. UNCHANGED <<closures, heap, globals, prog>> /\ OnError(Raised)
    BY DEF Raise, control
<1>2. PICK e : e = Raised
    OBVIOUS
<1>3. Live(e, NC, NO) /\ OnError(e)
    BY <1>1, <1>2, RaisedLive
<1>4. QED
    BY <1>1, <1>3, ErrorInv

---------------------------------------------------------------------------
(* Calls.                                                                  *)

CallOps == {"CALL", "CALL_VARARGS", "NEW", "NEW_VARARGS"}

LEMMA CallStack ==
    ASSUME Inv, I.op \in CallOps, Raised = NoError
    PROVE  /\ Good(Args, NC, NO)
           /\ CalleeAt \in Nat /\ CalleeAt > FloorOf(Len(frames)) /\ CalleeAt + 1 <= Len(stack)
           /\ CalleeAt >= 3
           /\ Live(Callee, NC, NO) /\ Live(stack[CalleeAt + 1], NC, NO)
           /\ Delta(I) \in Int /\ CalleeAt = Len(stack) + Delta(I)
           /\ CalleeAt - FloorOf(Len(frames)) = Depth + Delta(I)
           /\ Depth + Delta(I) >= 0
           /\ I.op \notin Ends /\ I.op # "JUMP" /\ I.op # "GOSUB"
<1>1. PICK f : f = FloorOf(Len(frames))
    OBVIOUS
<1>2. /\ f \in Nat /\ Len(stack) - f = Depth /\ Len(stack) \in Nat /\ Depth \in Nat
      /\ Depth >= MinIn(I) /\ Live(Peek(0), NC, NO) /\ Good(stack, NC, NO) /\ f >= 2
    BY <1>1, StackFacts, Here
<1>3. CallFault = NoError
    BY NotRaised DEF CallOps
<1>4. PICK x \in Nat : /\ x = IF Spreads THEN 1 ELSE I.x
                       /\ Delta(I) = -(x + 1) /\ MinIn(I) = x + 2
    <2>1. CASE I.op \in {"CALL", "NEW"}
        <3>1. ~Spreads /\ I.x \in Nat /\ Delta(I) = -(I.x + 1) /\ MinIn(I) = I.x + 2
            BY <2>1, CountsNat, DepthTable DEF Spreads
        <3>2. QED
            BY <3>1
    <2>2. CASE I.op \in {"CALL_VARARGS", "NEW_VARARGS"}
        <3>1. Spreads /\ Delta(I) = -2 /\ MinIn(I) = 3
            BY <2>2, DepthTable DEF Spreads
        <3>2. QED
            BY <3>1
    <2>3. QED
        BY <2>1, <2>2 DEF CallOps
<1>5. CalleeAt = Len(stack) - x - 1
    BY <1>4 DEF CalleeAt
<1>6. /\ CalleeAt \in Nat /\ CalleeAt > f /\ CalleeAt + 1 <= Len(stack) /\ CalleeAt >= 3
      /\ CalleeAt = Len(stack) + Delta(I) /\ Delta(I) \in Int
      /\ CalleeAt - f = Depth + Delta(I) /\ Depth + Delta(I) >= 0
    <2>1. PICK c, d, k : c = CalleeAt /\ d = Delta(I) /\ k = Len(stack)
        OBVIOUS
    <2>2. /\ d = -(x + 1) /\ Depth >= x + 2 /\ c = k - x - 1 /\ k \in Nat
          /\ k - f = Depth /\ f \in Nat /\ f >= 2 /\ Depth \in Nat
        BY <1>2, <1>4, <1>5, <2>1
    <2>3. /\ c \in Nat /\ c > f /\ c + 1 <= k /\ c >= 3 /\ c = k + d /\ d \in Int
          /\ c - f = Depth + d /\ Depth + d >= 0
        BY <2>2
    <2>4. QED
        BY <2>1, <2>3
<1>7. Live(Callee, NC, NO) /\ Live(stack[CalleeAt + 1], NC, NO)
    <2>1. CalleeAt \in 1..Len(stack) /\ CalleeAt + 1 \in 1..Len(stack)
        BY <1>2, <1>6
    <2>2. QED
        BY <2>1, Sizes DEF Callee
<1>8. Good(Args, NC, NO)
    <2>1. CASE Spreads
        <3>1. IsArray(heap, Peek(0))
            BY <1>3, <2>1 DEF CallFault, Error, NoError
        <3>2. Peek(0)[2] \in DOMAIN heap
            BY <1>2, <3>1, Sizes DEF IsArray, Live
        <3>3. Good(heap[Peek(0)[2]].elems, NC, NO)
            BY <3>2 DEF Inv, HeapOk, HeapLive, ObjectOk
        <3>4. QED
            BY <2>1, <3>3 DEF Args
    <2>2. CASE ~Spreads
        <3>1. PICK m \in Nat : m = Len(stack) - x + 1 /\ m >= 1
            BY <1>2, <1>4
        <3>2. PICK n \in Nat : n = Len(stack)
            BY <1>2
        <3>3. Good(SubSeq(stack, m, n), NC, NO)
            BY <1>2, <3>1, <3>2, GoodSub
        <3>4. Args = SubSeq(stack, Len(stack) - I.x + 1, Len(stack)) /\ x = I.x
            BY <1>4, <2>2 DEF Args
        <3>5. QED
            BY <3>1, <3>2, <3>3, <3>4
    <2>3. QED
        BY <2>1, <2>2
<1>9. I.op \notin Ends /\ I.op # "JUMP" /\ I.op # "GOSUB"
    BY DEF CallOps, Ends
<1>10. QED
    BY <1>1, <1>6, <1>7, <1>8, <1>9

(* A call of the host returns.                                             *)
LEMMA ReturnsInv ==
    ASSUME Inv, I.op \in CallOps, Raised = NoError, NEW v, Live(v, NC, NO), Returns(v),
           UNCHANGED <<closures, heap, globals, prog>>
    PROVE  Inv'
<1>1. PICK n \in Nat : n = CalleeAt - 1 /\ n <= Len(stack) /\ n >= 1 /\ n + 1 = CalleeAt
    <2>1. CalleeAt \in Nat /\ CalleeAt + 1 <= Len(stack) /\ CalleeAt >= 3
        BY CallStack
    <2>2. PICK c \in Nat : c = CalleeAt /\ c + 1 <= Len(stack) /\ c >= 3
        BY <2>1
    <2>3. c - 1 \in Nat /\ c - 1 <= Len(stack) /\ c - 1 >= 1 /\ c - 1 + 1 = c
        BY <2>2, StackFacts
    <2>4. QED
        BY <2>2, <2>3
<1>2. stack' = Append(SubSeq(stack, 1, n), v) /\ Go(Frame.ip + 1) /\ UNCHANGED <<trys, cells>>
    BY <1>1 DEF Returns, Advance
<1>3. Good(SubSeq(stack, 1, n), NC, NO) /\ Len(SubSeq(stack, 1, n)) = n
    <2>1. /\ Good(SubSeq(stack, 1, n), NC, NO)
          /\ Len(SubSeq(stack, 1, n)) = IF 1 <= n THEN n - 1 + 1 ELSE 0
        BY <1>1, StackFacts, GoodSub
    <2>2. QED
        BY <1>1, <2>1
<1>4. PICK s : s = Append(SubSeq(stack, 1, n), v)
    OBVIOUS
<1>5. Good(s, NC, NO) /\ Len(s) = n + 1
    BY <1>3, <1>4, GoodAppend
<1>6. Len(s) = Len(stack) + Delta(I) /\ Delta(I) \in Int /\ Depth + Delta(I) >= 0
      /\ I.op \notin Ends /\ I.op # "JUMP" /\ I.op # "GOSUB"
    BY <1>1, <1>5, CallStack
<1>7. QED
    BY <1>2, <1>4, <1>5, <1>6, StackStep

(* What the host answers refers to nothing.                                *)
LEMMA AnswerLive ==
    ASSUME NEW a \in Answers, NEW nc, NEW no
    PROVE  Live(a[2], nc, no)
BY HostAssumption, LiveConstants

LEMMA CallLogInv ==
    ASSUME Inv, CallLog
    PROVE  Inv'
<1>1. I.op \in CallOps /\ Raised = NoError /\ Returns(Undefined)
      /\ UNCHANGED <<closures, heap, globals, prog>>
    BY DEF CallLog, Calls, Can, CallOps
<1>2. PICK v : v = Undefined
    OBVIOUS
<1>3. Live(v, NC, NO) /\ Returns(v)
    BY <1>1, <1>2, LiveConstants
<1>4. QED
    BY <1>1, <1>3, ReturnsInv

LEMMA CallHostInv ==
    ASSUME Inv, CallHost
    PROVE  Inv'
<1>1. I.op \in CallOps /\ Raised = NoError /\ UNCHANGED <<closures, heap, globals, prog>>
    BY DEF CallHost, Calls, Can, CallOps
<1>2. PICK a \in Answers : IF a[1] THEN Returns(a[2]) ELSE OnError(a[2])
    BY DEF CallHost
<1>3. PICK v : v = a[2]
    OBVIOUS
<1>4. Live(v, NC, NO)
    BY <1>3, AnswerLive
<1>5. CASE a[1]
    BY <1>1, <1>2, <1>3, <1>4, <1>5, ReturnsInv
<1>6. CASE ~a[1]
    BY <1>1, <1>2, <1>3, <1>4, <1>6, ErrorInv
<1>7. QED
    BY <1>5, <1>6

LEMMA CallHostOverInv ==
    ASSUME Inv, CallHostOver
    PROVE  Inv'
<1>1. I.op \in CallOps /\ Raised = NoError /\ Returns(Undefined)
      /\ UNCHANGED <<closures, heap, globals, prog>>
    BY DEF CallHostOver, Calls, Can, CallOps
<1>2. PICK v : v = Undefined
    OBVIOUS
<1>3. Live(v, NC, NO) /\ Returns(v)
    BY <1>1, <1>2, LiveConstants
<1>4. QED
    BY <1>1, <1>3, ReturnsInv

(* Nothing of what the invariant is about changes.                         *)
LEMMA NothingInv ==
    ASSUME Inv, UNCHANGED <<prog, frames, stack, trys, cells, closures, heap, globals>>
    PROVE  Inv'
BY DEF Inv, Decoded, Loads, StackOk, HeapOk, ClosuresOk, ClosureOk, FramesOk, FrameOk,
       HandlersOk, HandlerOk, CellsOk, CellOk, Local, NC, NO, Protos, TopOf, FloorOf,
       FrameFun, ShapesOf, Found

LEMMA ResumeInv ==
    ASSUME Inv, Resume
    PROVE  Inv'
<1>1. UNCHANGED <<closures, heap, globals, prog>>
    BY DEF Resume
<1>2. PICK a \in Answers :
          IF a[1] THEN stack' = Append(Drop(1), a[2]) /\ UNCHANGED <<frames, trys, cells>>
          ELSE OnError(a[2])
    BY DEF Resume
<1>3. PICK v : v = a[2]
    OBVIOUS
<1>4. Live(v, NC, NO)
    BY <1>3, AnswerLive
<1>5. CASE ~a[1]
    BY <1>1, <1>2, <1>3, <1>4, <1>5, ErrorInv
<1>6. CASE a[1]
    <2>1. stack' = Append(Drop(1), v) /\ UNCHANGED <<frames, trys, cells>>
        BY <1>2, <1>3, <1>6
    <2>2. Len(stack) \in Nat /\ Good(Drop(1), NC, NO) /\ Len(Drop(1)) = Len(stack) - 1
        <3>1. 1 \in Nat /\ 1 <= Len(stack) /\ Len(stack) \in Nat
            BY StackFacts
        <3>2. QED
            BY <3>1, Operands
    <2>3. Good(stack', NC, NO) /\ Len(stack') = Len(stack)
        <3>1. Good(Append(Drop(1), v), NC, NO) /\ Len(Append(Drop(1), v)) = Len(Drop(1)) + 1
            BY <1>4, <2>2, GoodAppend
        <3>2. QED
            BY <2>1, <2>2, <3>1
    <2>4. NC' = NC /\ NO' = NO
        BY <1>1 DEF NC, NO
    <2>5. StackOk'
        BY <2>3, <2>4 DEF StackOk
    <2>6. QED
        BY <1>1, <2>1, <2>3, <2>5
        DEF Inv, Decoded, Loads, HeapOk, ClosuresOk, ClosureOk, FramesOk, FrameOk,
            HandlersOk, HandlerOk, CellsOk, CellOk, Local, NC, NO, Protos, TopOf, FloorOf,
            FrameFun, ShapesOf, Found
<1>7. QED
    BY <1>5, <1>6

LEMMA InterruptInv ==
    ASSUME Inv, Interrupt
    PROVE  Inv'
BY NothingInv DEF Interrupt, store

---------------------------------------------------------------------------
(* Returns.                                                                *)

(* The handlers are in the order of their frames, whatever the program.    *)
Stacked ==
    /\ Sq(frames) /\ frames # <<>> /\ Sq(trys)
    /\ \A k \in DOMAIN trys : trys[k].frames \in DOMAIN frames
    /\ \A j, k \in DOMAIN trys : j < k => trys[j].frames <= trys[k].frames

LEMMA InvStacked ==
    ASSUME Inv
    PROVE  Stacked
BY DEF Inv, FramesOk, HandlersOk, HandlerOk, Stacked

LEMMA StackedSizes ==
    ASSUME Stacked
    PROVE  /\ \E n \in Nat : n >= 1 /\ n = Len(frames) /\ DOMAIN frames = 1..n
           /\ \E l \in Nat : l = Len(trys) /\ DOMAIN trys = 1..l
<1>1. Len(frames) \in Nat /\ DOMAIN frames = 1..Len(frames) /\ Len(frames) \in DOMAIN frames
    BY SqFacts, FrontOk DEF Stacked
<1>2. Len(trys) \in Nat /\ DOMAIN trys = 1..Len(trys)
    BY SqFacts DEF Stacked
<1>3. Len(frames) >= 1
    BY <1>1
<1>4. QED
    BY <1>1, <1>2, <1>3

(* The handlers that a return leaves are the oldest, and of frames below.  *)
LEMMA BelowOk ==
    ASSUME Stacked
    PROVE  \E q \in Nat : /\ q <= Len(trys)
                          /\ Sq(HandlersBelow) /\ Len(HandlersBelow) = q
                          /\ \A j \in 1..q : /\ HandlersBelow[j] = trys[j]
                                             /\ trys[j].frames < Len(frames)
                          /\ \A j \in (q + 1)..Len(trys) : trys[j].frames >= Len(frames)
<1>1. PICK n \in Nat : n = Len(frames) /\ DOMAIN frames = 1..n
    BY StackedSizes
<1>2. PICK l \in Nat : l = Len(trys) /\ DOMAIN trys = 1..l
    BY StackedSizes
<1>3. \A k \in 1..l : trys[k].frames \in 1..n
    BY <1>1, <1>2 DEF Stacked
<1>4. \A j, k \in 1..l : j < k => trys[j].frames <= trys[k].frames
    BY <1>2 DEF Stacked
<1> DEFINE own == {k \in 1..l : \A j \in k..l : trys[j].frames >= n}
<1>5. IsFiniteSet(1..l) /\ Cardinality(1..l) = l
    BY FS_Interval
<1>6. own \in SUBSET (1..l)
    OBVIOUS
<1>7. HandlersBelow = SubSeq(trys, 1, Len(trys) - Cardinality(own))
    BY <1>1, <1>2 DEF HandlersBelow
<1> HIDE DEF own
<1>8. IsFiniteSet(own) /\ Cardinality(own) <= l /\ Cardinality(own) \in Nat
    BY <1>5, <1>6, FS_Subset, FS_CardinalityType
<1>9. PICK q \in Nat : q = l - Cardinality(own) /\ q <= l
    BY <1>8
<1>10. \A j \in 1..q : trys[j].frames < n
    <2> SUFFICES ASSUME NEW j \in 1..q, ~(trys[j].frames < n) PROVE FALSE
        OBVIOUS
    <2>1. j \in 1..l
        BY <1>9
    <2>2. \A k \in j..l : trys[k].frames >= n
        <3> TAKE k \in j..l
        <3>1. k \in 1..l /\ (k = j \/ j < k)
            BY <2>1
        <3>2. trys[j].frames \in 1..n /\ trys[k].frames \in 1..n
              /\ (j < k => trys[j].frames <= trys[k].frames)
            BY <1>3, <1>4, <2>1, <3>1
        <3>3. QED
            BY <3>1, <3>2
    <2>3. j..l \subseteq own
        <3> SUFFICES ASSUME NEW k \in j..l PROVE k \in own
            OBVIOUS
        <3>1. k \in 1..l /\ \A i \in k..l : i \in j..l
            BY <2>1
        <3>2. QED
            BY <2>2, <3>1 DEF own
    <2>4. Cardinality(j..l) = l - j + 1 /\ IsFiniteSet(j..l)
        BY <2>1, FS_Interval
    <2>5. Cardinality(j..l) <= Cardinality(own)
        BY <1>8, <2>3, FS_Subset
    <2>6. QED
        BY <1>8, <1>9, <2>1, <2>4, <2>5
<1>11. Sq(trys)
    BY DEF Stacked
<1>12. HandlersBelow = SubSeq(trys, 1, q)
    BY <1>2, <1>7, <1>9
<1>13. /\ Sq(SubSeq(trys, 1, q))
       /\ Len(SubSeq(trys, 1, q)) = IF 1 <= q THEN q - 1 + 1 ELSE 0
       /\ \A i \in 1..Len(SubSeq(trys, 1, q)) : SubSeq(trys, 1, q)[i] = trys[1 + i - 1]
    BY <1>2, <1>9, <1>11, SqSub
<1>14. Len(HandlersBelow) = q
    BY <1>12, <1>13
<1>15. \A j \in 1..q : HandlersBelow[j] = trys[j]
    BY <1>12, <1>13, <1>14
<1>16. q <= Len(trys) /\ \A j \in 1..q : trys[j].frames < Len(frames)
    BY <1>1, <1>2, <1>9, <1>10
<1>17. \A j \in (q + 1)..l : trys[j].frames >= n
    <2> SUFFICES ASSUME NEW j \in (q + 1)..l, ~(trys[j].frames >= n) PROVE FALSE
        OBVIOUS
    <2>1. j \in 1..l
        BY <1>9
    <2>2. own \subseteq (j + 1)..l
        <3> SUFFICES ASSUME NEW k \in own, ~(k \in (j + 1)..l) PROVE FALSE
            OBVIOUS
        <3>1. k \in 1..l /\ \A i \in k..l : trys[i].frames >= n
            BY DEF own
        <3>2. k <= j
            BY <2>1, <3>1
        <3>3. \A i \in j..l : i \in k..l
            BY <2>1, <3>1, <3>2
        <3>4. \A i \in j..l : trys[i].frames >= n
            BY <3>1, <3>3
        <3>5. j \in j..l
            BY <2>1
        <3>6. QED
            BY <3>4, <3>5
    <2>3. IsFiniteSet((j + 1)..l) /\ Cardinality((j + 1)..l) = l - j
        <3>1. j + 1 \in Int /\ l \in Int
            BY <2>1
        <3>2. /\ IsFiniteSet((j + 1)..l)
              /\ Cardinality((j + 1)..l) = IF (j + 1) > l THEN 0 ELSE l - (j + 1) + 1
            BY <3>1, FS_Interval
        <3>3. QED
            BY <2>1, <3>2
    <2>4. Cardinality(own) <= l - j
        <3>1. PICK rest : rest = (j + 1)..l
            OBVIOUS
        <3>2. own \in SUBSET rest /\ IsFiniteSet(rest) /\ Cardinality(rest) = l - j
            BY <2>2, <2>3, <3>1
        <3>3. Cardinality(own) <= Cardinality(rest)
            BY <3>2, FS_Subset
        <3>4. QED
            BY <3>2, <3>3
    <2>5. QED
        BY <1>8, <1>9, <2>1, <2>4
<1>18. \A j \in (q + 1)..Len(trys) : trys[j].frames >= Len(frames)
    BY <1>1, <1>2, <1>17
<1>19. QED
    BY <1>12, <1>13, <1>14, <1>15, <1>16, <1>18

LEMMA ReturnInv ==
    ASSUME Inv, ReturnOp
    PROVE  Inv'
<1>1. PICK v : v = IF Frame.construct /\ Peek(0)[1] # "obj" THEN stack[Frame.base] ELSE Peek(0)
    OBVIOUS
<1>2. /\ UNCHANGED <<closures, heap, globals, prog>>
      /\ cells' = CloseFrom(Frame.base + 1) /\ trys' = HandlersBelow
      /\ IF Len(frames) = 1 THEN UNCHANGED <<frames, stack>>
         ELSE frames' = Front(frames) /\ stack' = Append(SubSeq(stack, 1, Frame.base - 2), v)
    BY <1>1 DEF ReturnOp, control
<1>3. PICK n \in Nat : n = Len(frames) /\ n >= 1 /\ DOMAIN frames = 1..n /\ n \in DOMAIN frames
    <2>1. PICK m \in Nat : m = Len(frames) /\ DOMAIN frames = 1..m /\ m \in DOMAIN frames
        BY Sizes
    <2>2. m >= 1
        BY <2>1
    <2>3. QED
        BY <2>1, <2>2
<1>4. PICK base \in Nat : base = Frame.base /\ base >= 2 /\ base = frames[n].base
    BY <1>3, Here
<1>5. base <= Len(stack) /\ Len(stack) \in Nat
    <2>1. PICK f : f = FloorOf(Len(frames))
        OBVIOUS
    <2>2. f = base + Fun.nLocals /\ Fun.nLocals \in Nat
        BY <1>4, <2>1, Here
    <2>3. Len(stack) >= f /\ Len(stack) \in Nat
        BY <2>1, StackFacts
    <2>4. QED
        BY <2>2, <2>3
<1>6. Live(v, NC, NO)
    <2>1. Live(stack[base], NC, NO) /\ Live(Peek(0), NC, NO)
        BY <1>4, <1>5, Sizes, StackFacts
    <2>2. QED
        BY <1>1, <1>4, <2>1
<1>7. HeapOk' /\ NC' = NC /\ NO' = NO /\ Grows
    BY <1>2, SameHeap
<1>8. DOMAIN cells \subseteq DOMAIN cells'
    BY <1>2 DEF CloseFrom
<1>9. ClosuresOk' /\ ClosuresKept /\ Decoded'
    BY <1>2, <1>7, <1>8, SameClosures, StillDecoded
<1>10. PICK q \in Nat : /\ q <= Len(trys) /\ Sq(trys') /\ Len(trys') = q
                        /\ \A j \in 1..q : trys'[j] = trys[j] /\ trys[j].frames < n
    BY <1>2, <1>3, BelowOk, InvStacked
<1>11. \A j \in 1..q : trys[j].frames \in 1..n
    BY <1>3, <1>10, Sizes DEF Inv, HandlersOk, HandlerOk
<1>12. CASE n = 1
    <2>1. UNCHANGED <<frames, stack>>
        BY <1>2, <1>3, <1>12
    <2>2. StackOk' /\ FramesOk'
        BY <1>2, <1>7, <2>1 DEF Inv, StackOk, FramesOk, FrameOk, TopOf, FloorOf, FrameFun,
                                ShapesOf, Found
    <2>3. \A i \in 1..n : /\ FrameFun(i)' = FrameFun(i) /\ FloorOf(i)' = FloorOf(i)
                          /\ frames'[i].base = frames[i].base
                          /\ \A p, d : Found(i, p, d)' <=> Found(i, p, d)
        BY <1>2, <2>1, SameFrame
    <2>4. n <= Len(frames) /\ 1..n \subseteq DOMAIN frames' /\ ~(n < Len(frames))
        BY <1>3, <2>1
    <2>5. \A j \in 1..q : trys[j].frames <= n
        BY <1>11
    <2>6. HandlersOk'
        BY <1>10, <2>3, <2>4, <2>5, CutHandlers
    <2>7. \A slot \in Nat : Local(slot) => Local(slot)'
        BY <2>3, <2>4, LocalKept
    <2>8. PICK floor \in Nat : floor = Frame.base + 1
        BY <1>4
    <2>9. CellsOk'
        BY <1>2, <1>7, <2>7, <2>8, ClosedCells
    <2>10. QED
        BY <1>7, <1>9, <2>2, <2>6, <2>9 DEF Inv
<1>13. CASE n # 1
    <2>1. PICK k \in Nat : k = n - 1 /\ k + 1 = n /\ k >= 1 /\ k \in DOMAIN frames /\ k \in 1..k
        BY <1>3, <1>13
    <2>2. frames' = Front(frames) /\ stack' = Append(SubSeq(stack, 1, base - 2), v)
        BY <1>2, <1>3, <1>4, <1>13
    <2>3. Sq(frames) /\ frames # <<>>
        BY DEF Inv, FramesOk
    <2>4. Sq(frames') /\ Len(frames') = k /\ \A i \in 1..k : frames'[i] = frames[i]
        BY <1>3, <2>1, <2>2, <2>3, FrontOk
    <2>5. FrameOk(frames[k])
        BY <2>1 DEF Inv, FramesOk
    <2>6. frames'[k] = [frames[k] EXCEPT !.ip = frames[k].ip]
        BY <2>1, <2>4, <2>5 DEF FrameOk
    <2>7. Good(stack', NC', NO') /\ Len(stack') = base - 1
        <3>1. PICK m \in Nat : m = base - 2 /\ m <= Len(stack)
            BY <1>4, <1>5
        <3>2. /\ Good(SubSeq(stack, 1, m), NC, NO)
              /\ Len(SubSeq(stack, 1, m)) = IF 1 <= m THEN m - 1 + 1 ELSE 0
            BY <3>1, StackFacts, GoodSub
        <3>3. Len(SubSeq(stack, 1, m)) = m
            BY <3>1, <3>2
        <3>4. /\ Good(Append(SubSeq(stack, 1, m), v), NC, NO)
              /\ Len(Append(SubSeq(stack, 1, m), v)) = m + 1
            BY <1>6, <3>2, <3>3, GoodAppend
        <3>5. m + 1 = base - 1
            BY <1>4, <3>1
        <3>6. QED
            BY <1>7, <2>2, <3>1, <3>4, <3>5
    <2>8. /\ Len(stack') \in Nat /\ Len(stack') >= FloorOf(k)
          /\ Found(k, frames[k].ip, Len(stack') - FloorOf(k))
        <3>1. TopOf(k) = base - 1
            BY <1>3, <1>4, <2>1 DEF TopOf
        <3>2. TopOf(k) >= FloorOf(k) /\ Found(k, frames[k].ip, TopOf(k) - FloorOf(k))
            BY <2>1 DEF Inv, FramesOk
        <3>3. QED
            BY <1>4, <2>7, <3>1, <3>2
    <2>9. /\ FramesOk'
          /\ DOMAIN frames' = 1..k
          /\ \A i \in 1..k : /\ FrameFun(i)' = FrameFun(i) /\ FloorOf(i)' = FloorOf(i)
                             /\ frames'[i].base = frames[i].base
                             /\ \A p, d : Found(i, p, d)' <=> Found(i, p, d)
        <3>1. PICK ip : ip = frames[k].ip
            OBVIOUS
        <3>2. QED
            BY <1>2, <1>9, <2>1, <2>4, <2>6, <2>8, <3>1, CutFrames
    <2>10. HandlersOk'
        <3>1. /\ k <= Len(frames) /\ 1..k \subseteq DOMAIN frames'
              /\ \A i \in 1..k : /\ FloorOf(i)' = FloorOf(i)
                                 /\ \A p, d : Found(i, p, d)' <=> Found(i, p, d)
            BY <1>3, <2>1, <2>9
        <3>2. \A j \in 1..q : trys[j].frames <= k
            BY <1>10, <1>11, <2>1
        <3>3. QED
            BY <1>10, <3>1, <3>2, CutHandlers
    <2>11. PICK floor \in Nat : floor = Frame.base + 1 /\ floor = base + 1
        BY <1>4
    <2>12. \A slot \in Nat : slot < floor /\ Local(slot) => Local(slot)'
        <3> TAKE slot \in Nat
        <3> HAVE slot < floor /\ Local(slot)
        <3>1. slot <= frames[k + 1].base
            <4>1. slot <= base
                BY <2>11
            <4>2. QED
                BY <1>4, <2>1, <4>1
        <3>2. k <= Len(frames) /\ 1..k \subseteq DOMAIN frames'
            BY <1>3, <2>1, <2>9
        <3>3. QED
            BY <2>9, <3>1, <3>2, LocalKept
    <2>13. CellsOk'
        BY <1>2, <1>7, <2>11, <2>12, ClosedCells
    <2>14. QED
        BY <1>7, <1>9, <2>7, <2>9, <2>10, <2>13 DEF Inv, StackOk
<1>14. QED
    BY <1>12, <1>13


---------------------------------------------------------------------------
(* A frame is entered: on top of the callee, `this` and the locals.        *)
LEMMA PushFrame ==
    ASSUME Inv, I.op \in CallOps, Raised = NoError, prog' = prog, ClosuresKept, trys' = trys,
           NEW c \in DOMAIN closures, NEW construct, NEW base \in Nat, base = CalleeAt + 1,
           frames' = Append([frames EXCEPT ![Len(frames)].ip = @ + 1],
                            [fn |-> closures[c].fn, closure |-> c, ip |-> 1,
                             base |-> base, construct |-> construct]),
           Len(stack') = base + Protos[closures[c].fn].nLocals
    PROVE  /\ FramesOk' /\ HandlersOk'
           /\ \A slot \in Nat : Local(slot) => Local(slot)'
<1> DEFINE new == [fn |-> closures[c].fn, closure |-> c, ip |-> 1,
                   base |-> base, construct |-> construct]
           moved == [frames[Len(frames)] EXCEPT !.ip = @ + 1]
           f == Protos[closures[c].fn]
<1>1. PICK n \in Nat : n = Len(frames) /\ n >= 1 /\ DOMAIN frames = 1..n /\ n \in DOMAIN frames
    <2>1. PICK m \in Nat : m = Len(frames) /\ DOMAIN frames = 1..m /\ m \in DOMAIN frames
        BY Sizes
    <2>2. m >= 1
        BY <2>1
    <2>3. QED
        BY <2>1, <2>2
<1>2. \A i \in 1..n : FrameOk(frames[i])
    BY <1>1 DEF Inv, FramesOk
<1>3. moved = [fn |-> frames[n].fn, closure |-> frames[n].closure, ip |-> Frame.ip + 1,
               base |-> frames[n].base, construct |-> frames[n].construct]
    <2>1. FrameOk(frames[n]) /\ Frame = frames[n]
        BY <1>1, <1>2, Here
    <2>2. PICK x : x = frames[n]
        OBVIOUS
    <2>3. x = [fn |-> x.fn, closure |-> x.closure, ip |-> x.ip, base |-> x.base,
               construct |-> x.construct] /\ moved = [x EXCEPT !.ip = @ + 1] /\ Frame = x
        BY <1>1, <2>1, <2>2 DEF FrameOk
    <2>4. [x EXCEPT !.ip = @ + 1] =
              [fn |-> x.fn, closure |-> x.closure, ip |-> x.ip + 1, base |-> x.base,
               construct |-> x.construct]
        BY <2>3
    <2>5. QED
        BY <2>2, <2>3, <2>4
<1>4. frames' = Append([frames EXCEPT ![n] = moved], new)
    BY <1>1
<1> HIDE DEF new, moved
<1>5. /\ Sq(frames') /\ Len(frames') = n + 1 /\ DOMAIN frames' = 1..(n + 1)
      /\ \A i \in 1..n : frames'[i] = IF i = n THEN moved ELSE frames[i]
      /\ frames'[n + 1] = new
    <2>1. Sq(frames)
        BY DEF Inv, FramesOk
    <2>2. PICK g : g = [frames EXCEPT ![n] = moved]
        OBVIOUS
    <2>3. Sq(g) /\ Len(g) = n /\ \A i \in 1..n : g[i] = IF i = n THEN moved ELSE frames[i]
        <3>1. /\ Sq([frames EXCEPT ![n] = moved])
              /\ Len([frames EXCEPT ![n] = moved]) = Len(frames)
              /\ \A i \in DOMAIN frames :
                    [frames EXCEPT ![n] = moved][i] = IF i = n THEN moved ELSE frames[i]
            BY <2>1, SqExcept
        <3>2. QED
            BY <1>1, <2>2, <3>1
    <2>4. /\ Sq(Append(g, new)) /\ Len(Append(g, new)) = n + 1
          /\ \A i \in 1..n : Append(g, new)[i] = g[i]
          /\ Append(g, new)[n + 1] = new
        BY <2>3, SqAppend
    <2>5. frames' = Append(g, new)
        BY <1>4, <2>2
    <2>6. DOMAIN frames' = 1..(n + 1)
        BY <2>4, <2>5, SqFacts
    <2>7. QED
        BY <2>3, <2>4, <2>5, <2>6
<1>6. \A i \in 1..n : /\ frames'[i].fn = frames[i].fn /\ frames'[i].base = frames[i].base
                      /\ frames'[i].closure = frames[i].closure
    BY <1>3, <1>5
<1>7. \A i \in 1..n : /\ FrameFun(i)' = FrameFun(i) /\ FloorOf(i)' = FloorOf(i)
                      /\ \A p, d : Found(i, p, d)' <=> Found(i, p, d)
    BY <1>6, SameFrame
<1>8. /\ closures[c].fn \in DOMAIN Protos /\ f.nLocals \in Nat
      /\ <<1, 0, 0>> \in Verified[prog][closures[c].fn].shapes
    <2>1. closures[c].fn \in DOMAIN Protos
        BY DEF Inv, ClosuresOk, ClosureOk
    <2>2. QED
        BY <2>1, Loaded DEF Inv, FunctionRead, Accepted
<1>9. /\ frames'[n + 1].fn = closures[c].fn /\ frames'[n + 1].base = base
      /\ frames'[n + 1].closure = c /\ frames'[n + 1].ip = 1
    BY <1>5 DEF new
<1>10. FloorOf(n + 1)' = base + f.nLocals
    BY <1>9 DEF FloorOf, FrameFun, Protos
<1>11. /\ CalleeAt \in Nat /\ CalleeAt > FloorOf(n) /\ FloorOf(n) \in Nat
       /\ CalleeAt - FloorOf(n) = Depth + Delta(I) /\ CalleeAt >= 3
       /\ I.op \notin Ends /\ I.op # "JUMP" /\ I.op # "GOSUB"
    BY <1>1, CallStack, AtFrame
<1>12. Found(n, Frame.ip + 1, CalleeAt - FloorOf(n))
    BY <1>1, <1>11, NextFound
<1>13. base - 1 = CalleeAt /\ base >= 2
    <2>1. PICK k \in Nat : k = CalleeAt /\ k >= 3
        BY <1>11
    <2>2. QED
        BY <2>1
<1>14. \A i \in 1..(n + 1) : FrameOk(frames[i])'
    <2> TAKE i \in 1..(n + 1)
    <2>1. CASE i \in 1..n
        <3>1. FrameOk(frames[i])
            BY <1>2, <2>1
        <3>2. frames'[i] = [fn |-> frames'[i].fn, closure |-> frames'[i].closure,
                            ip |-> frames'[i].ip, base |-> frames'[i].base,
                            construct |-> frames'[i].construct]
            BY <1>3, <1>5, <2>1, <3>1 DEF FrameOk
        <3>3. QED
            <4>1. PICK x, y : x = frames[i] /\ y = frames'[i]
                OBVIOUS
            <4>2. FrameOk(x) /\ y.fn = x.fn /\ y.base = x.base /\ y.closure = x.closure
                BY <1>6, <2>1, <3>1, <4>1
            <4>3. x.closure \in DOMAIN closures' /\ closures'[x.closure].fn = closures[x.closure].fn
                BY <4>2 DEF FrameOk, ClosuresKept
            <4>4. FrameOk(y)'
                BY <3>2, <4>1, <4>2, <4>3 DEF FrameOk
            <4>5. QED
                BY <4>1, <4>4
    <2>2. CASE i = n + 1
        <3>1. c \in DOMAIN closures' /\ closures'[c].fn = closures[c].fn
            BY DEF ClosuresKept
        <3>2. frames'[i] = new
            BY <1>5, <2>2
        <3>3. PICK x : x = new
            OBVIOUS
        <3>4. FrameOk(x)'
            BY <1>13, <3>1, <3>3 DEF FrameOk, new
        <3>5. frames'[i] = x
            BY <3>2, <3>3
        <3>6. QED
            BY <3>4, <3>5
    <2>3. i \in 1..n \/ i = n + 1
        OBVIOUS
    <2>4. QED
        BY <2>1, <2>2, <2>3
<1>15. \A i \in 1..(n + 1) :
           TopOf(i)' >= FloorOf(i)' /\ Found(i, frames[i].ip, TopOf(i) - FloorOf(i))'
    <2> TAKE i \in 1..(n + 1)
    <2>1. CASE i = n + 1
        <3>1. TopOf(i)' = base + f.nLocals /\ FloorOf(i)' = base + f.nLocals
            BY <1>5, <1>10, <2>1 DEF TopOf
        <3>2. base + f.nLocals \in Nat /\ TopOf(i)' - FloorOf(i)' = 0
            BY <1>8, <3>1
        <3>3. <<1, 0, 0>> \in ShapesOf(i)'
            BY <1>8, <1>9, <2>1 DEF ShapesOf
        <3>4. frames'[i].ip = 1
            BY <1>9, <2>1
        <3>5. \E s \in ShapesOf(i)' : s[1] = frames'[i].ip /\ s[2] = TopOf(i)' - FloorOf(i)'
            BY <3>2, <3>3, <3>4
        <3>6. Found(i, frames[i].ip, TopOf(i) - FloorOf(i))'
            BY <3>5 DEF Found
        <3>7. TopOf(i)' >= FloorOf(i)'
            <4>1. PICK x \in Nat : x = base + f.nLocals
                BY <3>2
            <4>2. TopOf(i)' = x /\ FloorOf(i)' = x
                BY <3>1, <4>1
            <4>3. QED
                BY <4>2
        <3>8. QED
            BY <3>6, <3>7
    <2>2. CASE i = n
        <3>1. TopOf(i)' = CalleeAt
            <4>1. i # Len(frames')
                BY <1>5, <2>2
            <4>2. QED
                BY <1>9, <1>13, <2>2, <4>1 DEF TopOf
        <3>2. frames'[i].ip = Frame.ip + 1
            BY <1>3, <1>5, <1>1, <2>2
        <3>3. FloorOf(i)' = FloorOf(n) /\ FloorOf(n) <= CalleeAt
            BY <1>1, <1>7, <1>11, <2>2
        <3>4. \A p, d : Found(i, p, d)' <=> Found(n, p, d)
            BY <1>1, <1>7, <2>2
        <3>5. QED
            BY <1>12, <3>1, <3>2, <3>3, <3>4
    <2>3. CASE i \in 1..n /\ i # n
        <3>1. i + 1 \in 1..n /\ i # Len(frames) /\ i # n + 1 /\ i \in DOMAIN frames
            BY <1>1, <2>3
        <3>2. TopOf(i)' = TopOf(i)
            BY <1>5, <1>6, <3>1 DEF TopOf
        <3>3. TopOf(i) >= FloorOf(i) /\ Found(i, frames[i].ip, TopOf(i) - FloorOf(i))
            BY <3>1 DEF Inv, FramesOk
        <3>4. frames'[i].ip = frames[i].ip
            BY <1>5, <2>3
        <3>5. QED
            BY <1>7, <2>3, <3>2, <3>3, <3>4
    <2>4. i \in 1..n \/ i = n + 1
        OBVIOUS
    <2>5. QED
        BY <2>1, <2>2, <2>3, <2>4
<1>16. \A i, j \in 1..(n + 1) : i < j => FloorOf(i)' < frames'[j].base
    <2> TAKE i, j \in 1..(n + 1)
    <2> HAVE i < j
    <2>1. i \in 1..n /\ FloorOf(i)' = FloorOf(i) /\ FloorOf(i) \in Nat
        <3>1. i \in 1..n
            OBVIOUS
        <3>2. QED
            BY <1>1, <1>7, <3>1, AtFrame
    <2>2. CASE j \in 1..n
        BY <1>1, <1>6, <2>1, <2>2 DEF Inv, FramesOk
    <2>3. CASE j = n + 1
        <3>1. FloorOf(i) <= FloorOf(n)
            <4>1. CASE i = n
                BY <2>1, <4>1
            <4>2. CASE i # n
                <5>1. FloorOf(i) < frames[n].base
                    BY <1>1, <2>1, <4>2 DEF Inv, FramesOk
                <5>2. frames[n].base <= FloorOf(n) /\ frames[n].base \in Nat
                    BY <1>1, AtFrame
                <5>3. QED
                    BY <1>11, <2>1, <5>1, <5>2
            <4>3. QED
                BY <4>1, <4>2
        <3>2. FloorOf(i) < base
            BY <1>11, <1>13, <2>1, <3>1
        <3>3. QED
            BY <1>9, <2>1, <2>3, <3>2
    <2>4. j \in 1..n \/ j = n + 1
        OBVIOUS
    <2>5. QED
        BY <2>2, <2>3, <2>4
<1>17. frames' # <<>>
    BY <1>5
<1>18. FramesOk'
    BY <1>5, <1>14, <1>15, <1>16, <1>17 DEF FramesOk
<1>19. n <= Len(frames) /\ 1..n \subseteq DOMAIN frames' /\ ~(n < Len(frames))
    BY <1>1, <1>5
<1>20. HandlersOk'
    <2>1. PICK q \in Nat : q = Len(trys)
        BY Sizes
    <2>2. \A j \in 1..q : trys'[j] = trys[j] /\ trys[j].frames <= n
        BY <1>1, <2>1, Sizes DEF Inv, HandlersOk, HandlerOk
    <2>3. Sq(trys') /\ q <= Len(trys) /\ Len(trys') = q
        BY <2>1 DEF Inv, HandlersOk
    <2>4. QED
        BY <1>7, <1>19, <2>2, <2>3, CutHandlers
<1>21. \A slot \in Nat : Local(slot) => Local(slot)'
    BY <1>6, <1>7, <1>19, LocalKept
<1>22. QED
    BY <1>18, <1>20, <1>21

(* What a call leaves in the heap and on the stack.                        *)
LEMMA EnterMemory ==
    ASSUME Inv, I.op \in CallOps, Raised = NoError, prog' = prog,
           NEW c \in DOMAIN closures, NEW h, NEW this, NEW construct,
           Enter(c, h, this, construct), HeapLive(h, NC, Len(h)), Len(h) >= NO,
           Live(this, NC, Len(h)), Len(closures') = NC
    PROVE  /\ StackOk' /\ HeapOk' /\ Grows /\ NC' = NC /\ NO' >= Len(h)
           /\ CalleeAt + 1 \in Nat
           /\ Len(stack') = CalleeAt + 1 + Protos[closures[c].fn].nLocals
           /\ frames' = Append([frames EXCEPT ![Len(frames)].ip = @ + 1],
                               [fn |-> closures[c].fn, closure |-> c, ip |-> 1,
                                base |-> CalleeAt + 1, construct |-> construct])
           /\ UNCHANGED <<trys, cells>>
<1> DEFINE f == Protos[closures[c].fn]
           s == SubSeq(stack, 1, CalleeAt) \o <<this>>
           b == Bound(f, Args, Len(h) + 1)
           r == RestOf(f, Args)
<1>1. closures[c].fn \in DOMAIN Protos
    BY DEF Inv, ClosuresOk, ClosureOk
<1>2. f.nLocals \in Nat /\ f.params \in Nat /\ f.rest \in BOOLEAN /\ (f.rest => f.params > 0)
    BY <1>1, Loaded DEF Inv, FunctionRead, Accepted, HeaderOk
<1>3. /\ stack' = s \o b
      /\ heap' = (IF f.rest THEN Append(h, ArrayOf(r)) ELSE h)
      /\ frames' = Append([frames EXCEPT ![Len(frames)].ip = @ + 1],
                          [fn |-> closures[c].fn, closure |-> c, ip |-> 1,
                           base |-> Len(s), construct |-> construct])
      /\ UNCHANGED <<trys, cells, globals>>
    BY DEF Enter, Protos
<1>4. PICK nc \in Nat, no \in Nat, l \in Nat : nc = NC /\ no = NO /\ l = Len(h) /\ no <= l
    <2>1. Sq(h)
        BY DEF HeapLive
    <2>2. QED
        BY <2>1, StackFacts, SqFacts
<1>5. PICK at \in Nat : at = CalleeAt /\ at >= 3 /\ at <= Len(stack)
    <2>1. CalleeAt \in Nat /\ CalleeAt >= 3 /\ CalleeAt + 1 <= Len(stack)
        BY CallStack
    <2>2. PICK at \in Nat : at = CalleeAt /\ at >= 3 /\ at + 1 <= Len(stack)
        BY <2>1
    <2>3. at <= Len(stack)
        BY <2>2, StackFacts
    <2>4. QED
        BY <2>2, <2>3
<1>6. Good(Args, nc, no) /\ Good(stack, nc, no)
    BY <1>4, CallStack, StackFacts
<1> HIDE DEF f, s, b, r
<1>7. PICK m \in Nat : m = Len(heap') /\ m >= l /\ m >= no /\ HeapLive(heap', nc, m)
                       /\ (f.rest => m = l + 1)
    <2>1. HeapLive(h, nc, l)
        BY <1>4
    <2>2. CASE f.rest
        <3>1. Good(r, nc, no)
            <4>1. PICK k \in Nat : k = Len(Args)
                BY <1>6, GoodFacts
            <4>2. PICK j \in Nat : j = f.params /\ j >= 1
                BY <1>2, <2>2
            <4>3. Good(SubSeq(Args, j, k), nc, no)
                BY <1>6, <4>1, <4>2, GoodSub
            <4>4. QED
                BY <4>1, <4>2, <4>3 DEF r, RestOf
        <3>2. Good(r, nc, l)
            BY <1>4, <3>1, LiveMonotone
        <3>3. ObjectOk(ArrayOf(r), nc, l)
            BY <3>2, NewCells
        <3>4. /\ HeapLive(Append(h, ArrayOf(r)), nc, l)
              /\ Len(Append(h, ArrayOf(r))) = l + 1
            BY <1>4, <2>1, <3>3, HeapAppend
        <3>5. HeapLive(Append(h, ArrayOf(r)), nc, l + 1)
            BY <3>4, HeapMonotone
        <3>6. heap' = Append(h, ArrayOf(r))
            BY <1>3, <2>2
        <3>7. l + 1 \in Nat /\ l + 1 >= l /\ l + 1 >= no
            BY <1>4
        <3>8. QED
            BY <3>4, <3>5, <3>6, <3>7
    <2>3. CASE ~f.rest
        BY <1>3, <1>4, <2>1, <2>3
    <2>4. QED
        BY <1>2, <2>2, <2>3
<1>8. NC' = nc /\ NO' = m
    BY <1>4, <1>7 DEF NC, NO
<1>9. Grows
    BY <1>4, <1>7, <1>8 DEF Grows
<1>10. HeapOk'
    <2>1. AllLive(globals, nc, no)
        BY <1>4 DEF Inv, HeapOk
    <2>2. AllLive(globals, nc, m)
        BY <1>4, <1>7, <2>1, LiveMonotone
    <2>3. QED
        BY <1>3, <1>7, <1>8, <2>2 DEF HeapOk
<1>11. Good(s, nc, m) /\ Len(s) = at + 1
    <2>1. /\ Good(SubSeq(stack, 1, at), nc, no)
          /\ Len(SubSeq(stack, 1, at)) = IF 1 <= at THEN at - 1 + 1 ELSE 0
        BY <1>5, <1>6, GoodSub
    <2>2. Len(SubSeq(stack, 1, at)) = at
        BY <1>5, <2>1
    <2>3. Good(SubSeq(stack, 1, at), nc, m)
        BY <1>7, <2>1, LiveMonotone
    <2>4. Live(this, nc, m)
        BY <1>4, <1>7, LiveMonotone
    <2>5. Good(<<this>>, nc, m) /\ Len(<<this>>) = 1
        BY <2>4, GoodTuples
    <2>6. /\ Good(SubSeq(stack, 1, at) \o <<this>>, nc, m)
          /\ Len(SubSeq(stack, 1, at) \o <<this>>) = at + 1
        BY <2>2, <2>3, <2>5, GoodCat
    <2>7. QED
        BY <1>5, <2>6 DEF s
<1>12. Good(b, nc, m) /\ Len(b) = f.nLocals
    <2>1. b = [i \in 1..f.nLocals |->
                  IF f.rest /\ i = f.params THEN Obj(l + 1)
                  ELSE IF i <= f.params /\ i <= Len(Args) THEN Args[i] ELSE Undefined]
        BY <1>4 DEF b, Bound
    <2>2. DOMAIN b = 1..f.nLocals /\ b = [i \in 1..f.nLocals |-> b[i]]
        BY <2>1
    <2>3. Sq(b) /\ Len(b) = f.nLocals
        BY <1>2, <2>2, SqFunction
    <2>4. Good(Args, nc, m)
        BY <1>6, <1>7, LiveMonotone
    <2>5. Len(Args) \in Nat /\ \A i \in 1..Len(Args) : Live(Args[i], nc, m)
        BY <2>4, GoodFacts
    <2>6. f.rest => Live(Obj(l + 1), nc, m)
        <3>1. l + 1 \in 1..(l + 1)
            OBVIOUS
        <3>2. QED
            BY <1>7, <3>1, LiveConstants
    <2>7. Live(Undefined, nc, m)
        BY LiveConstants
    <2>8. \A i \in 1..f.nLocals : Live(b[i], nc, m)
        <3> TAKE i \in 1..f.nLocals
        <3>1. i <= Len(Args) => i \in 1..Len(Args)
            BY <1>2, <2>5
        <3>2. QED
            BY <2>1, <2>5, <2>6, <2>7, <3>1
    <2>9. QED
        BY <2>2, <2>3, <2>8 DEF Good, AllLive
<1>13. Good(stack', nc, m) /\ Len(stack') = at + 1 + f.nLocals
    BY <1>3, <1>11, <1>12, GoodCat
<1>14. StackOk'
    BY <1>8, <1>13 DEF StackOk
<1>15. QED
    BY <1>3, <1>4, <1>5, <1>7, <1>8, <1>9, <1>10, <1>11, <1>13, <1>14 DEF f

LEMMA EnterInv ==
    ASSUME Inv, I.op \in CallOps, Raised = NoError, prog' = prog,
           NEW c \in DOMAIN closures, NEW construct,
           ClosuresOk', ClosuresKept, Grows, StackOk', HeapOk', UNCHANGED <<trys, cells>>,
           CalleeAt + 1 \in Nat,
           Len(stack') = CalleeAt + 1 + Protos[closures[c].fn].nLocals,
           frames' = Append([frames EXCEPT ![Len(frames)].ip = @ + 1],
                            [fn |-> closures[c].fn, closure |-> c, ip |-> 1,
                             base |-> CalleeAt + 1, construct |-> construct])
    PROVE  Inv'
<1>1. PICK base \in Nat : base = CalleeAt + 1
    OBVIOUS
<1>2. FramesOk' /\ HandlersOk' /\ \A slot \in Nat : Local(slot) => Local(slot)'
    BY <1>1, PushFrame
<1>3. CellsOk'
    BY <1>2, SameCells
<1>4. QED
    BY <1>2, <1>3, StillDecoded DEF Inv

LEMMA CallClosureInv ==
    ASSUME Inv, CallClosure
    PROVE  Inv'
<1>1. I.op \in CallOps /\ Raised = NoError /\ Callee[1] = "fn" /\ prog' = prog
      /\ closures' = closures /\ Enter(Callee[2], heap, stack[CalleeAt + 1], FALSE)
    BY DEF CallClosure, Can, CallOps, Enter, control
<1>2. Live(Callee, NC, NO) /\ Live(stack[CalleeAt + 1], NC, NO)
    BY <1>1, CallStack
<1>3. PICK c \in DOMAIN closures : c = Callee[2]
    BY <1>1, <1>2, Sizes DEF Live
<1>4. PICK this : this = stack[CalleeAt + 1]
    OBVIOUS
<1>5. HeapLive(heap, NC, Len(heap)) /\ Len(heap) >= NO /\ Len(closures') = NC
    BY <1>1, Sizes DEF Inv, HeapOk, NC, NO
<1>6. Live(this, NC, Len(heap)) /\ Enter(c, heap, this, FALSE)
    BY <1>1, <1>2, <1>3, <1>4 DEF NO
<1>7. /\ StackOk' /\ HeapOk' /\ Grows
      /\ CalleeAt + 1 \in Nat
      /\ Len(stack') = CalleeAt + 1 + Protos[closures[c].fn].nLocals
      /\ frames' = Append([frames EXCEPT ![Len(frames)].ip = @ + 1],
                          [fn |-> closures[c].fn, closure |-> c, ip |-> 1,
                           base |-> CalleeAt + 1, construct |-> FALSE])
      /\ UNCHANGED <<trys, cells>>
    BY <1>1, <1>5, <1>6, EnterMemory
<1>8. ClosuresOk' /\ ClosuresKept
    BY <1>1, <1>7, SameClosures
<1>9. QED
    BY <1>1, <1>7, <1>8, EnterInv

LEMMA ConstructInv ==
    ASSUME Inv, Construct
    PROVE  Inv'
<1> DEFINE m == ProtoMade(Callee[2])
           h == Append(m.heap, PlainObject(Obj(m.obj)))
<1>1. I.op \in CallOps /\ Raised = NoError /\ Callee[1] = "fn" /\ prog' = prog
      /\ closures' = m.closures
      /\ Enter(Callee[2], h, Obj(Len(m.heap) + 1), TRUE)
    BY DEF Construct, Can, CallOps, Enter, control
<1>2. Live(Callee, NC, NO)
    BY <1>1, CallStack
<1>3. PICK c \in DOMAIN closures : c = Callee[2]
    BY <1>1, <1>2, Sizes DEF Live
<1>4. /\ Len(m.heap) \in Nat /\ Len(m.heap) >= NO
      /\ HeapLive(m.heap, NC, Len(m.heap))
      /\ DOMAIN m.closures = DOMAIN closures /\ Sq(m.closures) /\ Len(m.closures) = NC
      /\ \A d \in DOMAIN closures :
            m.closures[d] = [fn |-> closures[d].fn, hasThis |-> closures[d].hasThis,
                             arrow |-> closures[d].arrow, this |-> closures[d].this,
                             ups |-> closures[d].ups, proto |-> m.closures[d].proto]
      /\ \A d \in DOMAIN closures : m.closures[d].proto \in 0..Len(m.heap)
    BY <1>3, ProtoMadeOk
<1>5. PICK nc \in Nat, no \in Nat, l \in Nat : nc = NC /\ no = NO /\ l = Len(m.heap) /\ no <= l
    BY <1>4, StackFacts
<1>6. PICK this : this = Obj(l + 1)
    OBVIOUS
<1>7. /\ HeapLive(h, nc, l + 1) /\ Len(h) = l + 1 /\ Live(this, nc, l + 1)
    <2>1. ObjectOk(PlainObject(Obj(m.obj)), nc, l)
        BY NewCells
    <2>2. HeapLive(h, nc, l) /\ Len(h) = l + 1
        BY <1>4, <1>5, <2>1, HeapAppend
    <2>3. HeapLive(h, nc, l + 1)
        BY <2>2, HeapMonotone
    <2>4. l + 1 \in 1..(l + 1)
        OBVIOUS
    <2>5. QED
        BY <1>6, <2>2, <2>3, <2>4, LiveConstants
<1> HIDE DEF m, h
<1>8. Enter(c, h, this, TRUE)
    BY <1>1, <1>3, <1>5, <1>6
<1>9. HeapLive(h, NC, Len(h)) /\ Len(h) >= NO /\ Live(this, NC, Len(h)) /\ Len(closures') = NC
    BY <1>1, <1>4, <1>5, <1>7
<1>10. /\ StackOk' /\ HeapOk' /\ Grows /\ NO' >= Len(h)
       /\ CalleeAt + 1 \in Nat
       /\ Len(stack') = CalleeAt + 1 + Protos[closures[c].fn].nLocals
       /\ frames' = Append([frames EXCEPT ![Len(frames)].ip = @ + 1],
                           [fn |-> closures[c].fn, closure |-> c, ip |-> 1,
                            base |-> CalleeAt + 1, construct |-> TRUE])
       /\ UNCHANGED <<trys, cells>>
    BY <1>1, <1>8, <1>9, EnterMemory
<1>11. \A d \in DOMAIN closures : closures'[d].proto \in 0..NO'
    <2> TAKE d \in DOMAIN closures
    <2>1. closures'[d].proto \in 0..l
        BY <1>1, <1>4, <1>5
    <2>2. NO' >= l + 1 /\ NO' \in Nat
        BY <1>7, <1>10 DEF Grows
    <2>3. QED
        BY <2>1, <2>2
<1>12. \A d \in DOMAIN closures :
           closures'[d] = [fn |-> closures[d].fn, hasThis |-> closures[d].hasThis,
                           arrow |-> closures[d].arrow, this |-> closures[d].this,
                           ups |-> closures[d].ups, proto |-> closures'[d].proto]
    BY <1>1, <1>4
<1>13. Sq(closures') /\ DOMAIN closures' = DOMAIN closures
    BY <1>1, <1>4
<1>14. ClosuresOk' /\ ClosuresKept
    BY <1>1, <1>10, <1>11, <1>12, <1>13, ProtosChange
<1>15. QED
    BY <1>1, <1>10, <1>14, EnterInv

---------------------------------------------------------------------------
(* Closures.                                                               *)

(* A finite set is listed once over.                                       *)
LEMMA Listed ==
    ASSUME NEW T, IsFiniteSet(T)
    PROVE  LET new == SetToSeq(T)
           IN  /\ Sq(new)
               /\ \A i \in DOMAIN new : new[i] \in T
               /\ \A i, j \in DOMAIN new : new[i] = new[j] => i = j
               /\ \A x \in T : \E i \in DOMAIN new : new[i] = x
<1> DEFINE n == Cardinality(T)
           new == SetToSeq(T)
<1>1. n \in Nat /\ \E f : f \in Bijection(1..n, T)
    BY FS_CardinalityType DEF ExistsBijection
<1>2. PICK f : f \in Bijection(1..n, T)
    BY <1>1
<1>3. f \in [1..n -> T] /\ IsInjective(f)
    BY <1>2 DEF Bijection, Injection, IsInjective
<1>4. new \in [1..n -> T] /\ IsInjective(new)
    BY <1>3 DEF SetToSeq
<1>5. DOMAIN new = 1..n /\ new = [i \in 1..n |-> new[i]]
    BY <1>4
<1>6. Sq(new)
    BY <1>1, <1>5, SqFunction
<1>7. \A i, j \in 1..n : new[i] = new[j] => i = j
    BY <1>4 DEF IsInjective
<1>8. \A x \in T : \E i \in 1..n : new[i] = x
    <2>1. new \in Injection(1..n, T)
        BY <1>4 DEF Injection
    <2>2. Cardinality(1..n) = n
        BY <1>1, FS_Interval
    <2>3. new \in Surjection(1..n, T)
        BY <2>1, <2>2, FS_Injection
    <2>4. QED
        BY <2>3 DEF Surjection
<1>9. QED
    BY <1>4, <1>5, <1>6, <1>7, <1>8

(* New upvalues beside the old ones: at most one is open for a slot.       *)
LEMMA OpenedOk ==
    ASSUME Inv, NEW slots, IsFiniteSet(slots), slots \cap OpenSlots = {}
    PROVE  LET taken == Opened(slots)
           IN  /\ Sq(taken) /\ DOMAIN cells \subseteq DOMAIN taken
               /\ \A c \in DOMAIN cells : taken[c] = cells[c]
               /\ \A c \in DOMAIN taken : c \notin DOMAIN cells =>
                     \E s \in slots : taken[c] = [open |-> TRUE, slot |-> s, val |-> Undefined]
               /\ \A c, d \in DOMAIN taken :
                     taken[c].open /\ taken[d].open /\ taken[c].slot = taken[d].slot => c = d
               /\ \A s \in slots \cup OpenSlots : CellOf(taken, s) \in DOMAIN taken
<1> DEFINE new   == SetToSeq(slots)
           added == [i \in DOMAIN new |-> [open |-> TRUE, slot |-> new[i], val |-> Undefined]]
           taken == cells \o added
<1>1. /\ Sq(new)
      /\ \A i \in DOMAIN new : new[i] \in slots
      /\ \A i, j \in DOMAIN new : new[i] = new[j] => i = j
      /\ \A s \in slots : \E i \in DOMAIN new : new[i] = s
    BY Listed
<1>2. Opened(slots) = taken
    BY DEF Opened
<1> HIDE DEF new
<1>3. PICK m \in Nat : m = Len(new) /\ DOMAIN new = 1..m
    BY <1>1, SqFacts
<1>4. /\ Sq(added) /\ Len(added) = m
      /\ \A i \in 1..m : added[i] = [open |-> TRUE, slot |-> new[i], val |-> Undefined]
    <2>1. DOMAIN added = 1..m /\ added = [i \in 1..m |-> added[i]]
        BY <1>3
    <2>2. Sq(added) /\ Len(added) = m
        BY <1>3, <2>1, SqFunction
    <2>3. QED
        BY <1>3, <2>2
<1>5. Sq(cells)
    BY DEF Inv, CellsOk
<1>6. PICK n \in Nat : n = Len(cells) /\ DOMAIN cells = 1..n
    BY Sizes
<1> HIDE DEF added
<1>7. /\ Sq(taken) /\ DOMAIN taken = 1..(n + m)
      /\ \A c \in 1..n : taken[c] = cells[c]
      /\ \A i \in 1..m : taken[n + i] = added[i]
    <2>1. /\ Sq(taken) /\ Len(taken) = n + m
          /\ \A c \in 1..n : taken[c] = cells[c]
          /\ \A i \in 1..m : taken[n + i] = added[i]
        BY <1>4, <1>5, <1>6, SqCat
    <2>2. QED
        BY <2>1, SqFacts
<1> HIDE DEF taken
<1>8. \A c \in 1..(n + m) : c \notin 1..n =>
          /\ c - n \in 1..m
          /\ taken[c] = [open |-> TRUE, slot |-> new[c - n], val |-> Undefined]
    <2> SUFFICES ASSUME NEW c \in 1..(n + m), c \notin 1..n
                 PROVE  /\ c - n \in 1..m
                        /\ taken[c] = [open |-> TRUE, slot |-> new[c - n], val |-> Undefined]
        OBVIOUS
    <2>1. PICK i \in 1..m : c = n + i /\ i = c - n
        <3>1. c - n \in 1..m /\ c = n + (c - n)
            OBVIOUS
        <3>2. QED
            BY <3>1
    <2>2. QED
        BY <1>4, <1>7, <2>1
<1>9. \A c \in DOMAIN taken : c \notin DOMAIN cells =>
          \E s \in slots : taken[c] = [open |-> TRUE, slot |-> s, val |-> Undefined]
    BY <1>1, <1>3, <1>6, <1>7, <1>8
<1>10. \A c \in 1..n : taken[c].open => taken[c].slot \in OpenSlots
    <2> TAKE c \in 1..n
    <2> HAVE taken[c].open
    <2>1. taken[c] = cells[c]
        BY <1>7
    <2>2. QED
        BY <1>6, <2>1 DEF OpenSlots
<1>11. \A c \in 1..(n + m) : c \notin 1..n => taken[c].slot \in slots /\ taken[c].slot = new[c - n]
    <2> TAKE c \in 1..(n + m)
    <2> HAVE c \notin 1..n
    <2>1. PICK i \in 1..m : i = c - n
        BY <1>8
    <2>2. taken[c] = [open |-> TRUE, slot |-> new[i], val |-> Undefined]
        BY <1>8, <2>1
    <2>3. taken[c].slot = new[i]
        BY <2>2
    <2>4. QED
        BY <1>1, <1>3, <2>1, <2>3
<1>12. \A c, d \in DOMAIN taken :
           taken[c].open /\ taken[d].open /\ taken[c].slot = taken[d].slot => c = d
    <2> TAKE c, d \in DOMAIN taken
    <2> HAVE taken[c].open /\ taken[d].open /\ taken[c].slot = taken[d].slot
    <2>0. c \in 1..(n + m) /\ d \in 1..(n + m)
        BY <1>7
    <2>1. CASE c \in 1..n /\ d \in 1..n
        <3>1. taken[c] = cells[c] /\ taken[d] = cells[d]
            BY <1>7, <2>1
        <3>2. QED
            BY <1>6, <2>1, <3>1 DEF Inv, CellsOk
    <2>2. CASE c \in 1..n /\ d \notin 1..n
        BY <1>10, <1>11, <2>0, <2>2
    <2>3. CASE c \notin 1..n /\ d \in 1..n
        BY <1>10, <1>11, <2>0, <2>3
    <2>4. CASE c \notin 1..n /\ d \notin 1..n
        <3>1. c - n \in 1..m /\ d - n \in 1..m /\ new[c - n] = new[d - n]
            BY <1>8, <1>11, <2>0, <2>4
        <3>2. c - n = d - n
            BY <1>1, <1>3, <3>1
        <3>3. QED
            BY <2>0, <3>2
    <2>5. QED
        BY <2>1, <2>2, <2>3, <2>4
<1>13. \A s \in slots \cup OpenSlots : CellOf(taken, s) \in DOMAIN taken
    <2> TAKE s \in slots \cup OpenSlots
    <2>1. \E c \in DOMAIN taken : taken[c].open /\ taken[c].slot = s
        <3>1. CASE s \in slots
            <4>1. PICK i \in 1..m : new[i] = s
                BY <1>1, <1>3, <3>1
            <4>2. n + i \in 1..(n + m)
                OBVIOUS
            <4>3. taken[n + i] = [open |-> TRUE, slot |-> s, val |-> Undefined]
                BY <1>4, <1>7, <4>1
            <4>4. taken[n + i].open /\ taken[n + i].slot = s
                BY <4>3
            <4>5. QED
                BY <1>7, <4>2, <4>4
        <3>2. CASE s \in OpenSlots
            <4>1. PICK c \in 1..n : cells[c].open /\ cells[c].slot = s
                BY <1>6, <3>2 DEF OpenSlots
            <4>2. c \in 1..(n + m)
                OBVIOUS
            <4>3. QED
                BY <1>7, <4>1, <4>2
        <3>3. QED
            BY <3>1, <3>2
    <2>2. QED
        BY <2>1 DEF CellOf
<1>14. DOMAIN cells \subseteq DOMAIN taken /\ \A c \in DOMAIN cells : taken[c] = cells[c]
    BY <1>6, <1>7
<1>15. QED
    BY <1>2, <1>7, <1>9, <1>12, <1>13, <1>14

LEMMA MakeClosureInv ==
    ASSUME Inv, MakeClosure
    PROVE  Inv'
<1> DEFINE p     == Fun.consts[I.x][2]
           arrow == I.y = 1
           descs == Code[prog].protos[p].upvals
           S     == {LocalPos(u.idx) : u \in {d \in Range(descs) : d.fromLocal}}
           ups   == [k \in DOMAIN descs |->
                        IF descs[k].fromLocal THEN CellOf(Capture(S), LocalPos(descs[k].idx))
                        ELSE Self.ups[descs[k].idx]]
           new   == [fn |-> p, hasThis |-> arrow, arrow |-> arrow,
                     this |-> IF arrow THEN ThisVal ELSE Undefined, proto |-> 0, ups |-> ups]
<1>1. /\ I.op = "CLOSURE" /\ UNCHANGED <<prog, trys, heap, globals>>
      /\ cells' = Capture(S) /\ closures' = Append(closures, new)
      /\ stack' = Append(stack, Fn(Len(closures) + 1)) /\ Go(Frame.ip + 1)
    BY DEF MakeClosure, Can, Advance, control
<1>2. /\ p \in DOMAIN Protos
      /\ \A u \in DOMAIN descs : IF descs[u].fromLocal THEN descs[u].idx < Fun.nLocals
                                 ELSE descs[u].idx \in DOMAIN Fun.upvals
    <2>1. /\ IsProto(Fun, I.x)
          /\ LET child == Protos[Fun.consts[I.x][2]]
             IN  \A u \in DOMAIN child.upvals :
                     IF child.upvals[u].fromLocal THEN child.upvals[u].idx < Fun.nLocals
                     ELSE child.upvals[u].idx \in DOMAIN Fun.upvals
        BY <1>1, Here DEF OperandOk
    <2>2. FunctionRead(Protos, Fun)
        BY Here, Sizes, AtFrame
    <2>3. I.x \in DOMAIN Fun.consts
        BY <2>1 DEF IsProto
    <2>4. p \in DOMAIN Protos
        BY <2>1, <2>2, <2>3 DEF FunctionRead
    <2>5. QED
        BY <2>1, <2>4 DEF Protos
<1>3. Sq(descs) /\ \A u \in Range(descs) : u.fromLocal \in BOOLEAN /\ u.idx \in Nat
    <2>1. FunctionRead(Protos, Protos[p])
        BY <1>2, Loaded DEF Inv
    <2>2. QED
        BY <2>1 DEF FunctionRead, Protos, Sq
<1>4. PICK n \in DOMAIN frames : n = Len(frames) /\ frames[n] = Frame /\ FrameFun(n) = Fun
    BY Sizes, Here
<1>5. Frame.base \in Nat /\ Fun.nLocals \in Nat
    BY Here
<1> HIDE DEF p
<1>6. \A slot \in S : slot \in Nat /\ Local(slot)
    <2> TAKE slot \in S
    <2>1. PICK u \in Range(descs) : u.fromLocal /\ slot = LocalPos(u.idx)
        OBVIOUS
    <2>2. PICK k \in DOMAIN descs : u = descs[k]
        BY DEF Range
    <2>3. u.idx \in Nat /\ u.idx < Fun.nLocals
        BY <1>2, <1>3, <2>1, <2>2
    <2>4. PICK x \in Nat : x = u.idx
        BY <2>3
    <2>5. slot = Frame.base + x + 1
        BY <2>1, <2>4 DEF LocalPos
    <2>6. slot \in Nat /\ slot - Frame.base \in 1..Fun.nLocals
        BY <1>5, <2>3, <2>4, <2>5
    <2>7. slot - frames[n].base \in 1..FrameFun(n).nLocals
        BY <1>4, <2>6
    <2>8. QED
        BY <2>6, <2>7 DEF Local
<1>7. \A k \in DOMAIN descs : descs[k].fromLocal => LocalPos(descs[k].idx) \in S
    <2> TAKE k \in DOMAIN descs
    <2> HAVE descs[k].fromLocal
    <2>1. descs[k] \in {d \in Range(descs) : d.fromLocal}
        BY DEF Range
    <2>2. QED
        BY <2>1
<1> HIDE DEF descs, S
<1> DEFINE slots == S \ OpenSlots
<1>8. IsFiniteSet(slots)
    <2>1. S \subseteq 1..Len(stack)
        BY <1>6, LocalOnStack
    <2>2. IsFiniteSet(1..Len(stack))
        BY Sizes, FS_Interval
    <2>3. slots \in SUBSET (1..Len(stack))
        BY <2>1
    <2> HIDE DEF slots
    <2>4. QED
        BY <2>2, <2>3, FS_Subset
<1>9. slots \cap OpenSlots = {} /\ Capture(S) = Opened(slots) /\ S \subseteq slots \cup OpenSlots
      /\ slots \subseteq S
    BY DEF Capture
<1> HIDE DEF slots
<1>10. PICK taken : taken = Opened(slots)
    OBVIOUS
<1>11. /\ Sq(taken) /\ DOMAIN cells \subseteq DOMAIN taken
       /\ \A c \in DOMAIN cells : taken[c] = cells[c]
       /\ \A c \in DOMAIN taken : c \notin DOMAIN cells =>
             \E s \in slots : taken[c] = [open |-> TRUE, slot |-> s, val |-> Undefined]
       /\ \A c, d \in DOMAIN taken :
             taken[c].open /\ taken[d].open /\ taken[c].slot = taken[d].slot => c = d
       /\ \A s \in S : CellOf(taken, s) \in DOMAIN taken
    BY <1>8, <1>9, <1>10, OpenedOk
<1>12. cells' = taken
    BY <1>1, <1>9, <1>10
<1>13. PICK nc \in Nat, no \in Nat : nc = NC /\ no = NO
    BY StackFacts
<1>14. Sq(closures)
    BY DEF Inv, ClosuresOk
<1> HIDE DEF new
<1>15. /\ Sq(closures') /\ Len(closures') = nc + 1 /\ DOMAIN closures' = 1..(nc + 1)
       /\ DOMAIN closures = 1..nc
       /\ \A c \in 1..nc : closures'[c] = closures[c]
       /\ closures'[nc + 1] = new
    <2>1. /\ Sq(Append(closures, new)) /\ Len(Append(closures, new)) = nc + 1
          /\ \A c \in 1..nc : Append(closures, new)[c] = closures[c]
          /\ Append(closures, new)[nc + 1] = new
        BY <1>13, <1>14, SqAppend DEF NC
    <2>2. DOMAIN Append(closures, new) = 1..(nc + 1)
        BY <2>1, SqFacts
    <2>3. DOMAIN closures = 1..nc
        BY <1>13, Sizes
    <2>4. QED
        BY <1>1, <2>1, <2>2, <2>3
<1>16. NC' = nc + 1 /\ NO' = no /\ Grows
    <2>1. NC' = nc + 1 /\ NO' = no
        BY <1>1, <1>13, <1>15 DEF NC, NO
    <2>2. nc + 1 \in Nat /\ nc + 1 >= nc /\ no >= no
        OBVIOUS
    <2>3. QED
        BY <1>13, <2>1, <2>2 DEF Grows
<1>17. \A c \in DOMAIN closures : c \in DOMAIN closures' /\ closures'[c] = closures[c]
    <2>1. 1..nc \subseteq 1..(nc + 1)
        OBVIOUS
    <2>2. QED
        BY <1>15, <2>1
<1>18. ClosuresKept
    BY <1>17 DEF ClosuresKept
<1>19. StackOk'
    <2>1. Good(stack, nc + 1, no)
        <3>1. Good(stack, NC', NO')
            BY <1>16, StackFacts, Growth
        <3>2. QED
            BY <1>16, <3>1
    <2>2. Live(Fn(nc + 1), nc + 1, no)
        <3>1. nc + 1 \in 1..(nc + 1)
            OBVIOUS
        <3>2. QED
            BY <3>1, LiveConstants
    <2>3. Good(Append(stack, Fn(nc + 1)), nc + 1, no)
        BY <2>1, <2>2, GoodAppend
    <2>4. QED
        BY <1>1, <1>13, <1>16, <2>3 DEF StackOk, NC
<1>20. HeapOk'
    <2>1. HeapLive(heap, NC, NO) /\ AllLive(globals, NC, NO)
        BY DEF Inv, HeapOk
    <2>2. HeapLive(heap, NC', NO') /\ AllLive(globals, NC', NO')
        BY <1>16, <2>1, Growth
    <2>3. QED
        BY <1>1, <2>2 DEF HeapOk
<1>21. ClosuresOk'
    <2>1. \A c \in 1..nc : ClosureOk(closures[c])'
        <3> TAKE c \in 1..nc
        <3>1. PICK x : x = closures[c]
            OBVIOUS
        <3>2. ClosureOk(x)'
            BY <1>1, <1>11, <1>12, <1>15, <1>16, <3>1, ClosureKept
        <3>3. closures'[c] = x
            BY <1>15, <3>1
        <3>4. QED
            BY <3>2, <3>3
    <2>2. Protos' = Protos /\ descs = Protos[p].upvals
        BY <1>1 DEF Protos, descs
    <2>3. Live(ThisVal, NC', NO') /\ Live(Undefined, NC', NO')
        BY <1>16, SelfOk, Growth, LiveConstants
    <2>4. PICK l \in Nat : l = Len(descs) /\ DOMAIN descs = 1..l
        BY <1>3, SqFacts
    <2>5. \A k \in 1..l : descs[k] \in Range(descs)
        BY <2>4 DEF Range
    <2>6. \A k \in 1..l : ups[k] \in DOMAIN taken
        <3> TAKE k \in 1..l
        <3>1. CASE descs[k].fromLocal
            <4>1. ups[k] = CellOf(taken, LocalPos(descs[k].idx))
                BY <1>9, <1>10, <2>4, <3>1
            <4>2. QED
                BY <1>7, <1>11, <2>4, <3>1, <4>1
        <3>2. CASE ~descs[k].fromLocal
            <4>1. ups[k] = Self.ups[descs[k].idx]
                BY <2>4, <3>2
            <4>2. descs[k].idx \in DOMAIN Self.ups
                BY <1>2, <2>4, <3>2, SelfOk
            <4>3. QED
                BY <1>11, <4>1, <4>2, SelfOk DEF ClosureOk
        <3>3. QED
            BY <3>1, <3>2
    <2>7. DOMAIN ups = 1..l /\ ups = [k \in 1..l |-> ups[k]]
        BY <2>4
    <2> HIDE DEF ups
    <2>8. Sq(ups) /\ Len(ups) = l
        BY <2>4, <2>7, SqFunction
    <2>9. PICK x : x = new
        OBVIOUS
    <2>10. x = [fn |-> p, hasThis |-> arrow, arrow |-> arrow,
                this |-> IF arrow THEN ThisVal ELSE Undefined, proto |-> 0, ups |-> ups]
        BY <2>9 DEF new
    <2>11. Live(x.this, NC', NO')
        BY <2>3, <2>10
    <2>12. /\ x = [fn |-> x.fn, hasThis |-> x.hasThis, arrow |-> x.arrow, this |-> x.this,
                   ups |-> x.ups, proto |-> x.proto]
           /\ x.fn = p /\ x.proto = 0 /\ x.ups = ups
        BY <2>10
    <2>13. 0 \in 0..NO'
        BY <1>13, <1>16
    <2>14. Sq(x.ups) /\ Len(x.ups) = Len(Protos'[x.fn].upvals) /\ x.fn \in DOMAIN Protos'
        BY <1>2, <2>2, <2>4, <2>8, <2>12
    <2>15. \A u \in DOMAIN x.ups : x.ups[u] \in DOMAIN cells'
        BY <1>12, <2>6, <2>7, <2>12
    <2>16. ClosureOk(x)'
        BY <2>11, <2>12, <2>13, <2>14, <2>15 DEF ClosureOk
    <2>17. closures'[nc + 1] = x
        BY <1>15, <2>9
    <2>18. \A c \in 1..(nc + 1) : ClosureOk(closures[c])'
        <3> TAKE c \in 1..(nc + 1)
        <3>1. c \in 1..nc \/ c = nc + 1
            OBVIOUS
        <3>2. CASE c = nc + 1
            BY <2>16, <2>17, <3>2
        <3>3. CASE c \in 1..nc
            BY <2>1, <3>3
        <3>4. QED
            BY <3>1, <3>2, <3>3
    <2>19. QED
        BY <1>15, <2>18 DEF ClosuresOk
<1>22. /\ Decoded' /\ FramesOk' /\ HandlersOk'
       /\ \A slot \in Nat : Local(slot) => Local(slot)'
    <2>1. Delta(I) = 1 /\ I.op \notin Ends /\ I.op # "JUMP" /\ I.op # "GOSUB"
        BY <1>1, DepthTable DEF Pushes, Ends
    <2>2. Found(Len(frames), Frame.ip + 1, Depth + Delta(I))
        BY <2>1, NextFound
    <2>3. Len(stack') = Len(stack) + 1
        BY <1>1, StackFacts, SqAppend DEF Good
    <2>4. PICK f, len : f = FloorOf(Len(frames)) /\ len = Len(stack)
        OBVIOUS
    <2>5. f \in Nat /\ len \in Nat /\ len - f = Depth /\ len >= f
        BY <2>4, StackFacts
    <2>6. len + 1 \in Nat /\ len + 1 >= f /\ len + 1 - f = Depth + 1
        BY <2>5
    <2>7. /\ Len(stack') \in Nat /\ Len(stack') >= FloorOf(Len(frames))
          /\ Found(Len(frames), Frame.ip + 1, Len(stack') - FloorOf(Len(frames)))
        <3>1. PICK d : d = Depth + Delta(I)
            OBVIOUS
        <3>2. d = len + 1 - f
            BY <2>1, <2>6, <3>1
        <3>3. Found(Len(frames), Frame.ip + 1, len + 1 - f)
            BY <2>2, <3>1, <3>2
        <3>4. Len(stack') = len + 1
            BY <2>3, <2>4
        <3>5. Len(stack') \in Nat /\ Len(stack') >= FloorOf(Len(frames))
            BY <2>4, <2>6, <3>4
        <3>6. Len(stack') - FloorOf(Len(frames)) = len + 1 - f
            BY <2>4, <2>5, <3>4
        <3>7. QED
            BY <3>3, <3>5, <3>6
    <2>8. PICK ip : ip = Frame.ip + 1
        OBVIOUS
    <2>9. QED
        BY <1>1, <1>18, <2>7, <2>8, TopFrames
<1>23. CellsOk'
    <2>1. \A c \in DOMAIN taken : CellOk(taken[c])'
        <3> TAKE c \in DOMAIN taken
        <3>1. PICK x : x = taken[c]
            OBVIOUS
        <3>2. CASE c \in DOMAIN cells
            <4>1. CellOk(x)
                BY <1>11, <3>1, <3>2 DEF Inv, CellsOk
            <4>2. Live(x.val, NC', NO')
                BY <1>16, <4>1, Growth DEF CellOk
            <4>3. CellOk(x)'
                BY <1>22, <4>1, <4>2 DEF CellOk
            <4>4. QED
                BY <1>12, <3>1, <4>3 DEF CellOk
        <3>3. CASE c \notin DOMAIN cells
            <4>1. PICK s \in slots : x = [open |-> TRUE, slot |-> s, val |-> Undefined]
                BY <1>11, <3>1, <3>3
            <4>2. s \in Nat /\ Local(s)'
                BY <1>6, <1>9, <1>22
            <4>3. Live(Undefined, NC', NO')
                BY LiveConstants
            <4>4. CellOk(x)'
                BY <4>1, <4>2, <4>3 DEF CellOk
            <4>5. QED
                BY <1>12, <3>1, <4>4 DEF CellOk
        <3>4. QED
            BY <3>2, <3>3
    <2>2. Sq(cells') /\ \A c, d \in DOMAIN cells' :
              cells'[c].open /\ cells'[d].open /\ cells'[c].slot = cells'[d].slot => c = d
        BY <1>11, <1>12
    <2>3. \A c \in DOMAIN cells' : CellOk(cells[c])'
        <3> TAKE c \in DOMAIN cells'
        <3>1. PICK x : x = taken[c]
            OBVIOUS
        <3>2. cells'[c] = x
            BY <1>12, <3>1
        <3>3. QED
            BY <1>12, <2>1, <3>1, <3>2 DEF CellOk
    <2>4. QED
        BY <2>2, <2>3 DEF CellsOk
<1>24. QED
    BY <1>19, <1>20, <1>21, <1>22, <1>23 DEF Inv

---------------------------------------------------------------------------
(* The program from its first instruction on.                              *)

LEMMA InitInv ==
    ASSUME Init, Loads(prog)
    PROVE  Inv
<1> DEFINE main == Len(Protos)
           f == Protos[main]
           args == [i \in 1..f.nLocals |-> Undefined]
           closure == [fn |-> main, hasThis |-> FALSE, arrow |-> FALSE,
                       this |-> Undefined, ups |-> <<>>, proto |-> 0]
           frame == [fn |-> main, closure |-> 1, ip |-> 1, base |-> 2, construct |-> FALSE]
<1>1. /\ prog \in DOMAIN Code /\ Loads(prog)
      /\ closures = <<closure>> /\ frames = <<frame>>
      /\ stack = <<Fn(1), Undefined>> \o args
      /\ trys = <<>> /\ cells = <<>> /\ heap = <<>> /\ globals = Globals
    BY DEF Init, Protos
<1>2. Decoded
    BY <1>1 DEF Decoded
<1>3. main \in DOMAIN Protos
    <2>1. Sq(Protos) /\ Protos # <<>>
        BY <1>1, CodeAssumption DEF Protos, Sq
    <2>2. QED
        BY <2>1, FrontOk
<1>4. FunctionRead(Protos, f) /\ Accepted(Protos, main, Verified[prog][main])
    BY <1>2, <1>3, Loaded
<1>5. f.nLocals \in Nat /\ f.upvals = <<>> /\ <<1, 0, 0>> \in Verified[prog][main].shapes
    BY <1>4 DEF FunctionRead, Accepted, HeaderOk
<1> HIDE DEF main
<1>6. NC = 1 /\ NO = 0
    BY <1>1, SqTuples DEF NC, NO
<1>7. Good(args, 1, 0) /\ Len(args) = f.nLocals
    <2>1. DOMAIN args = 1..f.nLocals /\ args = [i \in 1..f.nLocals |-> args[i]]
        OBVIOUS
    <2>2. Sq(args) /\ Len(args) = f.nLocals
        BY <1>5, <2>1, SqFunction
    <2>3. Live(Undefined, 1, 0)
        BY LiveConstants
    <2>4. QED
        BY <2>1, <2>2, <2>3 DEF Good, AllLive
<1> HIDE DEF args
<1>8. Good(stack, 1, 0) /\ Len(stack) = 2 + f.nLocals
    <2>1. Live(Fn(1), 1, 0) /\ Live(Undefined, 1, 0)
        <3>1. 1 \in 1..1
            OBVIOUS
        <3>2. QED
            BY <3>1, LiveConstants
    <2>2. Good(<<Fn(1), Undefined>>, 1, 0) /\ Len(<<Fn(1), Undefined>>) = 2
        BY <2>1, GoodTuples
    <2>3. QED
        BY <1>1, <1>7, <2>2, GoodCat
<1>9. StackOk
    BY <1>6, <1>8 DEF StackOk
<1>10. HeapOk
    <2>1. HeapLive(heap, 1, 0)
        BY <1>1, SqTuples DEF HeapLive
    <2>2. AllLive(globals, 1, 0)
        <3>1. \A x \in DOMAIN Globals : Globals[x] = Undefined \/ Globals[x] = Native(x)
            BY DEF Globals
        <3>2. QED
            BY <1>1, <3>1, LiveConstants DEF AllLive
    <2>3. QED
        BY <1>6, <2>1, <2>2 DEF HeapOk
<1>11. DOMAIN closures = {1} /\ closures[1] = closure
    BY <1>1
<1>12. DOMAIN frames = {1} /\ frames[1] = frame
    BY <1>1
<1>13. ClosuresOk
    <2>1. Sq(closures)
        BY <1>1, SqTuples
    <2>2. Live(Undefined, NC, NO) /\ 0 \in 0..NO
        BY <1>6, LiveConstants
    <2>3. Sq(<<>>) /\ Len(<<>>) = 0
        BY SqTuples
    <2>4. ClosureOk(closure)
        BY <1>3, <1>5, <2>2, <2>3 DEF ClosureOk
    <2>5. QED
        BY <1>11, <2>1, <2>4 DEF ClosuresOk
<1>14. FramesOk
    <2>1. Sq(frames) /\ frames # <<>> /\ Len(frames) = 1
        BY <1>1, SqTuples
    <2>2. FrameOk(frame)
        BY <1>11 DEF FrameOk
    <2>3. FloorOf(1) = 2 + f.nLocals /\ TopOf(1) = 2 + f.nLocals
        BY <1>8, <1>12, <2>1 DEF FloorOf, FrameFun, TopOf, Protos
    <2>4. TopOf(1) >= FloorOf(1) /\ TopOf(1) - FloorOf(1) = 0
        BY <1>5, <2>3
    <2>5. <<1, 0, 0>> \in ShapesOf(1) /\ frames[1].ip = 1
        BY <1>5, <1>12 DEF ShapesOf
    <2>6. Found(1, frames[1].ip, TopOf(1) - FloorOf(1))
        BY <2>4, <2>5 DEF Found
    <2>7. \A i \in DOMAIN frames : i = 1
        BY <1>12
    <2>8. \A i, j \in DOMAIN frames : i < j => FloorOf(i) < frames[j].base
        <3> TAKE i, j \in DOMAIN frames
        <3>1. i = 1 /\ j = 1
            BY <2>7
        <3>2. ~(i < j)
            BY <3>1
        <3>3. QED
            BY <3>2
    <2>9. \A i \in DOMAIN frames : FrameOk(frames[i])
        BY <1>12, <2>2, <2>7
    <2>10. \A i \in DOMAIN frames :
              TopOf(i) >= FloorOf(i) /\ Found(i, frames[i].ip, TopOf(i) - FloorOf(i))
        BY <2>4, <2>6, <2>7
    <2>11. QED
        BY <2>1, <2>8, <2>9, <2>10 DEF FramesOk
<1>15. HandlersOk /\ CellsOk
    BY <1>1, SqTuples DEF HandlersOk, CellsOk
<1>16. QED
    BY <1>2, <1>9, <1>10, <1>13, <1>14, <1>15 DEF Inv

(* Each step of a program the loader vouches for keeps it.                 *)
LEMMA StepInv ==
    ASSUME Inv, Vouched, [Next]_vars
    PROVE  Inv'
<1>1. CASE Raise
    BY <1>1, RaiseInv
<1>2. CASE TryPush
    BY <1>2, TryPushInv
<1>3. CASE TryPop
    BY <1>3, TryPopInv
<1>4. CASE Compute
    BY <1>4, ComputeInv
<1>5. CASE SetUpval
    BY <1>5, SetUpvalInv
<1>6. CASE SetGlobal
    BY <1>6, SetGlobalInv
<1>7. CASE Jump
    BY <1>7, JumpInv
<1>8. CASE RetSub
    BY <1>8, RetSubInv
<1>9. CASE NewObject
    BY <1>9, NewObjectInv
<1>10. CASE NewArray
    BY <1>10, NewArrayInv
<1>11. CASE ArrayRest
    BY <1>11, ArrayRestInv
<1>12. CASE Write
    BY <1>12, WriteInv
<1>13. CASE GetPrototype \/ SetPrototype
    BY <1>13, GetPrototypeInv, SetPrototypeInv
<1>14. CASE MakeClosure
    BY <1>14, MakeClosureInv
<1>15. CASE CloseUpvals
    BY <1>15, CloseUpvalsInv
<1>16. CASE CallClosure
    BY <1>16, CallClosureInv
<1>17. CASE Construct
    BY <1>17, ConstructInv
<1>18. CASE CallLog
    BY <1>18, CallLogInv
<1>19. CASE CallHost
    BY <1>19, CallHostInv
<1>20. CASE CallHostOver
    BY <1>20, CallHostOverInv
<1>21. CASE ReturnOp
    BY <1>21, ReturnInv
<1>22. CASE Suspend
    BY <1>22, SuspendInv
<1>23. CASE Resume
    BY <1>23, ResumeInv
<1>24. CASE Interrupt
    BY <1>24, InterruptInv
<1>25. CASE UNCHANGED vars
    BY <1>25, NothingInv DEF vars
<1>26. QED
    BY <1>1, <1>2, <1>3, <1>4, <1>5, <1>6, <1>7, <1>8, <1>9, <1>10, <1>11, <1>12, <1>13,
       <1>14, <1>15, <1>16, <1>17, <1>18, <1>19, <1>20, <1>21, <1>22, <1>23, <1>24, <1>25
    DEF Next, Step

(* No step makes another program of it, or a loaded one.                   *)
LEMMA SameProgram ==
    ASSUME [Next]_vars
    PROVE  UNCHANGED <<prog, loaded>>
BY DEF Next, Step, Raise, TryPush, TryPop, Compute, SetUpval, SetGlobal, Jump, RetSub,
       NewObject, NewArray, ArrayRest, Allocate, Write, GetPrototype, SetPrototype, MakeClosure,
       CloseUpvals, CallClosure, Construct, Enter, CallLog, CallHost, CallHostOver, ReturnOp, Suspend,
       Resume, Interrupt, control, vars

---------------------------------------------------------------------------
(* What the host and the loop leave in the other variables.                *)
HostOk ==
    /\ prog \in DOMAIN Code /\ loaded \in BOOLEAN /\ interrupted \in BOOLEAN
    /\ status \in {"run", "suspended", "done", "error"}
    /\ Sq(answers) /\ Len(answers) <= MaxAnswers

LEMMA HostKept ==
    ASSUME HostOk, [Next]_vars
    PROVE  HostOk'
<1>1. UNCHANGED <<prog, loaded>>
    BY SameProgram
<1>2. interrupted' \in BOOLEAN
    BY DEF HostOk, Next, Step, Raise, TryPush, TryPop, Compute, SetUpval, SetGlobal, Jump, RetSub,
       NewObject, NewArray, ArrayRest, Allocate, Write, GetPrototype, SetPrototype, MakeClosure,
       CloseUpvals, CallClosure, Construct, Enter, CallLog, CallHost, CallHostOver, ReturnOp, Suspend,
       Resume, Interrupt, control, vars
<1>3. status' \in {"run", "suspended", "done", "error"}
    BY DEF HostOk, Next, Step, Raise, OnError, TryPush, TryPop, Compute, SetUpval, SetGlobal,
       Jump, RetSub, NewObject, NewArray, ArrayRest, Allocate, Write, GetPrototype, SetPrototype,
       MakeClosure, CloseUpvals, CallClosure, Construct, Enter, CallLog, CallHost, CallHostOver, Returns,
       ReturnOp, Suspend, Resume, Interrupt, vars
<1>4. UNCHANGED answers \/ (Len(answers) < MaxAnswers /\ \E a : answers' = Append(answers, a))
    BY DEF Next, Step, Raise, TryPush, TryPop, Compute, SetUpval, SetGlobal, Jump, RetSub,
       NewObject, NewArray, ArrayRest, Allocate, Write, GetPrototype, SetPrototype, MakeClosure,
       CloseUpvals, CallClosure, Construct, Enter, CallLog, CallHost, CallHostOver, ReturnOp, Suspend,
       Resume, Interrupt, control, vars
<1>5. Sq(answers') /\ Len(answers') <= MaxAnswers
    <2>1. Sq(answers) /\ Len(answers) <= MaxAnswers /\ MaxAnswers \in Nat
        BY HostAssumption DEF HostOk
    <2>2. CASE UNCHANGED answers
        BY <2>1, <2>2
    <2>3. CASE Len(answers) < MaxAnswers /\ \E a : answers' = Append(answers, a)
        <3>1. PICK a : answers' = Append(answers, a)
            BY <2>3
        <3>2. Sq(Append(answers, a)) /\ Len(Append(answers, a)) = Len(answers) + 1
              /\ Len(answers) \in Nat
            BY <2>1, SqAppend, SqFacts
        <3>3. QED
            BY <2>1, <2>3, <3>1, <3>2
    <2>4. QED
        BY <1>4, <2>2, <2>3
<1>6. QED
    BY <1>1, <1>2, <1>3, <1>5 DEF HostOk

LoadedInv == HostOk /\ (Vouched => Inv)

LEMMA InitLoaded == Init => LoadedInv
<1> SUFFICES ASSUME Init PROVE LoadedInv
    OBVIOUS
<1>1. HostOk
    <2>1. answers = <<>> /\ status = "run" /\ interrupted = FALSE
          /\ prog \in DOMAIN Code /\ loaded \in BOOLEAN
        BY DEF Init
    <2>2. Sq(answers) /\ Len(answers) = 0 /\ 0 <= MaxAnswers
        BY <2>1, HostAssumption, SqTuples
    <2>3. QED
        BY <2>1, <2>2 DEF HostOk
<1>2. Vouched => Inv
    <2>1. loaded => Loads(prog)
        BY DEF Init
    <2>2. QED
        BY <2>1, InitInv DEF Vouched
<1>3. QED
    BY <1>1, <1>2 DEF LoadedInv

LEMMA NextLoaded == LoadedInv /\ [Next]_vars => LoadedInv'
<1> SUFFICES ASSUME LoadedInv, [Next]_vars PROVE LoadedInv'
    OBVIOUS
<1>1. HostOk'
    BY HostKept DEF LoadedInv
<1>2. UNCHANGED <<prog, loaded>>
    BY SameProgram
<1>3. Vouched' = Vouched
    BY <1>2 DEF Vouched, Loads, Plain, Protos
<1>4. CASE Vouched
    BY <1>1, <1>2, <1>3, <1>4, StepInv DEF LoadedInv
<1>5. CASE ~Vouched
    BY <1>1, <1>2, <1>3, <1>5 DEF LoadedInv
<1>6. QED
    BY <1>4, <1>5

(* What a program the loader vouches for refers to exists, and its frames, *)
(* handlers and upvalues are in order, from the first instruction to the   *)
(* last.                                                                   *)
THEOREM LoadedHolds == Spec => []LoadedInv
<1>1. Init => LoadedInv
    BY InitLoaded
<1>2. LoadedInv /\ [Next]_vars => LoadedInv'
    BY NextLoaded
<1>3. QED
    BY <1>1, <1>2, PTL DEF Spec

(* Every frame and every handler of a program the loader vouches for is    *)
(* where the loader found it: of one that was just compiled too, when it   *)
(* has no finally block to return from (verify_pass2, run_fiber).          *)
THEOREM VouchedFrames == Spec => [](Vouched => FramesFound)
<1>1. LoadedInv => (Vouched => FramesFound)
    BY DEF LoadedInv, Inv, FramesOk, HandlersOk, HandlerOk, FramesFound
<1>2. QED
    BY <1>1, LoadedHolds, PTL

(* Bytecode the loader has accepted, whoever wrote it, is at every         *)
(* instruction of every frame, and at every handler, on an operand depth   *)
(* that the loader found (verify_pass2, run_fiber).                        *)
THEOREM LoadedStack == Spec => []StackProved
<1>1. (Vouched => FramesFound) => StackProved
    BY DEF Vouched, StackProved
<1>2. QED
    BY <1>1, VouchedFrames, PTL

(* In a program the loader vouches for every reference names something     *)
(* that exists: frames a closure and an instruction, closures and open     *)
(* upvalues a cell and a slot of the stack.                                *)
THEOREM VouchedTypes == Spec => [](Vouched => TypeOK)
<1>1. LoadedInv /\ Vouched => TypeOK
    <2> SUFFICES ASSUME HostOk, Inv PROVE TypeOK
        BY DEF LoadedInv
    <2>1. ASSUME NEW i \in DOMAIN frames
          PROVE  /\ frames[i].closure \in DOMAIN closures
                 /\ frames[i].fn = closures[frames[i].closure].fn
                 /\ frames[i].ip \in DOMAIN Code[prog].protos[frames[i].fn].code
                 /\ frames[i].base \in DOMAIN stack
        <3>1. FrameOk(frames[i]) /\ Found(i, frames[i].ip, TopOf(i) - FloorOf(i))
            BY DEF Inv, FramesOk
        <3>2. PICK s \in ShapesOf(i) : s[1] = frames[i].ip
            BY <3>1 DEF Found
        <3>3. frames[i].ip \in DOMAIN FrameFun(i).code
            BY <3>2, AtShape
        <3>4. frames[i].base <= Len(stack)
            BY BaseOnStack
        <3>5. frames[i].base \in DOMAIN stack
            BY <3>1, <3>4, Sizes DEF FrameOk
        <3>6. QED
            BY <3>1, <3>3, <3>5 DEF FrameOk, FrameFun
    <2>2. ASSUME NEW i \in DOMAIN closures
          PROVE  /\ closures[i].fn \in DOMAIN Code[prog].protos
                 /\ closures[i].proto \in 0..Len(heap)
                 /\ Len(closures[i].ups) = Len(Code[prog].protos[closures[i].fn].upvals)
                 /\ \A u \in DOMAIN closures[i].ups : closures[i].ups[u] \in DOMAIN cells
        BY DEF Inv, ClosuresOk, ClosureOk, Protos, NO
    <2>3. \A c \in DOMAIN cells : cells[c].open => cells[c].slot \in DOMAIN stack
        BY CellLive, Sizes
    <2>4. QED
        BY <2>1, <2>2, <2>3 DEF TypeOK, HostOk
<1>2. QED
    BY <1>1, LoadedHolds, PTL

(* In a program the loader vouches for at most one open upvalue stands for *)
(* a slot, and the slot is a local of a frame that is still there          *)
(* (upvalue_capture, upvalues_close_from).                                 *)
THEOREM VouchedUpvalues == Spec => [](Vouched => OpenUpvaluesLive)
<1>1. LoadedInv /\ Vouched => OpenUpvaluesLive
    BY DEF LoadedInv, Inv, CellsOk, CellOk, Local, FrameFun, OpenUpvaluesLive
<1>2. QED
    BY <1>1, LoadedHolds, PTL

(* An instruction of a program the loader vouches for finds its operands   *)
(* on its own frame's stack: it never reads or drops a local, a `this` or  *)
(* the stack of a caller, which the loop does not check (run_fiber).       *)
THEOREM VouchedOperands == Spec => [](Vouched => Depth >= MinIn(I))
<1>1. LoadedInv /\ Vouched => Depth >= MinIn(I)
    BY Here DEF LoadedInv
<1>2. QED
    BY <1>1, LoadedHolds, PTL

---------------------------------------------------------------------------
(* The order of the handlers, of any program.                              *)

(* What a step does to the frames and the handlers.                        *)
LEMMA StepKinds ==
    ASSUME [Next]_vars
    PROVE  \/ UNCHANGED <<frames, trys>>
           \/ trys' = trys /\ \E ip : Go(ip)
           \/ TryPush \/ TryPop \/ ReturnOp
           \/ /\ trys' = trys
              /\ \E f : frames' = Append([frames EXCEPT ![Len(frames)].ip = @ + 1], f)
           \/ \E e : OnError(e)
<1>1. CASE Raise
    BY <1>1 DEF Raise
<1>2. CASE TryPush \/ TryPop \/ ReturnOp
    BY <1>2
<1>3. CASE Compute \/ SetGlobal \/ Write \/ MakeClosure \/ CloseUpvals \/ Suspend
    BY <1>3 DEF Compute, SetGlobal, Write, MakeClosure, CloseUpvals, Suspend, Advance, store
<1>4. CASE SetUpval
    BY <1>4 DEF SetUpval, Advance
<1>5. CASE Jump \/ RetSub
    BY <1>5 DEF Jump, RetSub
<1>6. CASE NewObject \/ NewArray \/ ArrayRest \/ GetPrototype \/ SetPrototype
    BY <1>6 DEF NewObject, NewArray, ArrayRest, Allocate, GetPrototype, SetPrototype, Advance
<1>7. CASE CallClosure
    BY <1>7 DEF CallClosure, Enter
<1>8. CASE Construct
    BY <1>8 DEF Construct, Enter
<1>9. CASE CallLog \/ CallHostOver
    BY <1>9 DEF CallLog, CallHostOver, Returns, Advance
<1>10. CASE CallHost
    <2>1. PICK a : IF a[1] THEN Returns(a[2]) ELSE OnError(a[2])
        BY <1>10 DEF CallHost
    <2>2. QED
        BY <2>1 DEF Returns, Advance
<1>11. CASE Resume
    <2>1. PICK a : IF a[1] THEN UNCHANGED <<frames, trys>> ELSE OnError(a[2])
        BY <1>11 DEF Resume
    <2>2. QED
        BY <2>1
<1>12. CASE Interrupt
    BY <1>12 DEF Interrupt
<1>13. CASE UNCHANGED vars
    BY <1>13 DEF vars
<1>14. QED
    BY <1>1, <1>2, <1>3, <1>4, <1>5, <1>6, <1>7, <1>8, <1>9, <1>10, <1>11, <1>12, <1>13
    DEF Next, Step

(* As many handlers as before or fewer, of frames that are still there.    *)
LEMMA FewerStacked ==
    ASSUME Stacked, NEW n \in Nat, n >= 1, Sq(frames'), Len(frames') = n,
           NEW q \in Nat, q <= Len(trys), Sq(trys'), Len(trys') = q,
           \A j \in 1..q : trys'[j] = trys[j] /\ trys[j].frames <= n
    PROVE  Stacked'
<1>1. PICK m \in Nat : m >= 1 /\ DOMAIN frames = 1..m
    BY StackedSizes
<1>2. PICK l \in Nat : l = Len(trys) /\ DOMAIN trys = 1..l
    BY StackedSizes
<1>3. DOMAIN frames' = 1..n /\ DOMAIN trys' = 1..q
    BY SqFacts
<1>4. frames' # <<>>
    BY <1>3
<1>5. \A j \in 1..q : trys'[j].frames \in 1..n
    <2> TAKE j \in 1..q
    <2>1. trys[j].frames \in 1..m /\ trys[j].frames <= n /\ trys'[j] = trys[j]
        BY <1>1, <1>2 DEF Stacked
    <2>2. QED
        BY <2>1
<1>6. \A j, k \in 1..q : j < k => trys'[j].frames <= trys'[k].frames
    <2> TAKE j, k \in 1..q
    <2>1. j \in 1..l /\ k \in 1..l
        BY <1>2
    <2>2. j < k => trys[j].frames <= trys[k].frames
        BY <1>2, <2>1 DEF Stacked
    <2>3. QED
        BY <2>2
<1>7. QED
    BY <1>3, <1>4, <1>5, <1>6 DEF Stacked

(* The frames that are there stay in number, or one is added.              *)
LEMMA MoreStacked ==
    ASSUME Stacked, trys' = trys, NEW n \in Nat, n >= Len(frames), Sq(frames'), Len(frames') = n
    PROVE  Stacked'
<1>1. PICK m \in Nat : m = Len(frames) /\ m >= 1 /\ DOMAIN frames = 1..m
    BY StackedSizes
<1>2. PICK l \in Nat : l = Len(trys) /\ DOMAIN trys = 1..l
    BY StackedSizes
<1>3. \A j \in 1..l : trys'[j] = trys[j] /\ trys[j].frames <= n
    BY <1>1, <1>2 DEF Stacked
<1>4. n >= 1 /\ Sq(trys') /\ Len(trys') = l /\ l <= Len(trys)
    BY <1>1, <1>2 DEF Stacked
<1>5. QED
    BY <1>3, <1>4, FewerStacked

(* A frame is changed.                                                     *)
LEMMA FrameChanged ==
    ASSUME Stacked, NEW m, NEW v, NEW g, g = [frames EXCEPT ![m] = v]
    PROVE  Sq(g) /\ Len(g) = Len(frames)
<1>1. Sq(frames)
    BY DEF Stacked
<1>2. Sq([frames EXCEPT ![m] = v]) /\ Len([frames EXCEPT ![m] = v]) = Len(frames)
    BY <1>1, SqExcept
<1>3. QED
    BY <1>2

LEMMA GoStacked ==
    ASSUME Stacked, trys' = trys, NEW ip, Go(ip)
    PROVE  Stacked'
<1>1. PICK m \in Nat : m = Len(frames)
    BY StackedSizes
<1>2. PICK v : v = [frames[m] EXCEPT !.ip = ip]
    OBVIOUS
<1>3. frames' = [frames EXCEPT ![m] = v]
    BY <1>1, <1>2 DEF Go
<1>4. Sq(frames') /\ Len(frames') = m
    BY <1>1, <1>3, FrameChanged
<1>5. m >= Len(frames)
    BY <1>1
<1>6. QED
    BY <1>4, <1>5, MoreStacked

LEMMA EnterStacked ==
    ASSUME Stacked, trys' = trys, NEW f,
           frames' = Append([frames EXCEPT ![Len(frames)].ip = @ + 1], f)
    PROVE  Stacked'
<1>1. PICK m \in Nat : m = Len(frames)
    BY StackedSizes
<1>2. PICK v : v = [frames[m] EXCEPT !.ip = @ + 1]
    OBVIOUS
<1>3. PICK g : g = [frames EXCEPT ![m] = v]
    OBVIOUS
<1>4. Sq(g) /\ Len(g) = m
    BY <1>1, <1>3, FrameChanged
<1>5. frames' = Append(g, f)
    BY <1>1, <1>2, <1>3
<1>6. Sq(frames') /\ Len(frames') = m + 1
    BY <1>4, <1>5, SqAppend
<1>7. m + 1 \in Nat /\ m + 1 >= Len(frames)
    BY <1>1
<1>8. QED
    BY <1>6, <1>7, MoreStacked

LEMMA ErrorStacked ==
    ASSUME Stacked, NEW e, OnError(e)
    PROVE  Stacked'
<1>1. CASE trys = <<>>
    BY <1>1 DEF OnError, Stacked
<1>2. CASE trys # <<>>
    <2>1. PICK m \in Nat : m = Len(frames) /\ m >= 1 /\ DOMAIN frames = 1..m
        BY StackedSizes
    <2>2. PICK l \in Nat : l = Len(trys) /\ DOMAIN trys = 1..l
        BY StackedSizes
    <2>3. Sq(trys) /\ Sq(frames)
        BY DEF Stacked
    <2>4. Last(trys) = trys[l] /\ l \in 1..l
        BY <1>2, <2>2, <2>3, FrontOk
    <2>5. PICK k \in 1..m : k = trys[l].frames
        BY <2>1, <2>2, <2>4 DEF Stacked
    <2>6. PICK to : to = trys[l].target
        OBVIOUS
    <2>7. PICK kept : kept = SubSeq(frames, 1, k)
        OBVIOUS
    <2>8. Sq(kept) /\ Len(kept) = k
        <3>1. k \in Nat /\ k <= Len(frames)
            BY <2>1
        <3>2. /\ Sq(SubSeq(frames, 1, k))
              /\ Len(SubSeq(frames, 1, k)) = IF 1 <= k THEN k - 1 + 1 ELSE 0
            BY <2>3, <3>1, SqSub
        <3>3. QED
            BY <2>7, <3>1, <3>2
    <2>9. PICK v : v = [kept[k] EXCEPT !.ip = to]
        OBVIOUS
    <2>10. frames' = [kept EXCEPT ![k] = v] /\ trys' = Front(trys)
        BY <1>2, <2>4, <2>5, <2>6, <2>7, <2>9 DEF OnError, HandlersLeft
    <2>11. Sq(frames') /\ Len(frames') = k
        BY <2>8, <2>10, SqExcept
    <2>12. PICK q \in Nat : /\ q = l - 1 /\ Sq(trys') /\ Len(trys') = q
                            /\ \A j \in 1..q : trys'[j] = trys[j]
        BY <1>2, <2>2, <2>3, <2>10, FrontOk
    <2>13. \A j \in 1..q : trys[j].frames <= k
        <3> TAKE j \in 1..q
        <3>1. j \in 1..l /\ j < l
            BY <2>12
        <3>2. trys[j].frames <= trys[l].frames
            BY <2>2, <2>4, <3>1 DEF Stacked
        <3>3. QED
            BY <2>5, <3>2
    <2>14. q <= Len(trys) /\ k \in Nat /\ k >= 1
        BY <2>2, <2>12
    <2>15. QED
        BY <2>11, <2>12, <2>13, <2>14, FewerStacked
<1>3. QED
    BY <1>1, <1>2

LEMMA TryPushStacked ==
    ASSUME Stacked, TryPush
    PROVE  Stacked'
<1>1. PICK m \in Nat : m = Len(frames) /\ m >= 1 /\ DOMAIN frames = 1..m
    BY StackedSizes
<1>2. PICK l \in Nat : l = Len(trys) /\ DOMAIN trys = 1..l
    BY StackedSizes
<1>3. PICK t : trys' = Append(trys, t) /\ t.frames = m
    <2>1. trys' = Append(trys, [frames |-> Len(frames), sp |-> Len(stack), target |-> I.x])
        BY DEF TryPush
    <2>2. QED
        BY <1>1, <2>1
<1>4. PICK v : frames' = [frames EXCEPT ![m] = v]
    BY <1>1 DEF TryPush, Advance, Go
<1>5. Sq(frames') /\ Len(frames') = m
    BY <1>1, <1>4, FrameChanged
<1>6. /\ Sq(trys') /\ Len(trys') = l + 1
      /\ \A j \in 1..l : trys'[j] = trys[j]
      /\ trys'[l + 1] = t
    BY <1>2, <1>3, SqAppend DEF Stacked
<1>7. DOMAIN frames' = 1..m /\ DOMAIN trys' = 1..(l + 1)
    BY <1>5, <1>6, SqFacts
<1>8. \A j \in 1..l : trys'[j].frames \in 1..m
    BY <1>1, <1>2, <1>6 DEF Stacked
<1>9. \A j \in 1..(l + 1) : j \in 1..l \/ j = l + 1
    OBVIOUS
<1>10. \A j \in 1..(l + 1) : trys'[j].frames \in 1..m
    BY <1>1, <1>3, <1>6, <1>8, <1>9
<1>11. \A j, k \in 1..(l + 1) : j < k => trys'[j].frames <= trys'[k].frames
    <2> TAKE j, k \in 1..(l + 1)
    <2> HAVE j < k
    <2>1. CASE k = l + 1
        BY <1>3, <1>6, <1>10, <2>1
    <2>2. CASE k \in 1..l
        <3>1. j \in 1..l
            BY <2>2
        <3>2. trys[j].frames <= trys[k].frames
            BY <1>2, <2>2, <3>1 DEF Stacked
        <3>3. QED
            BY <1>6, <2>2, <3>1, <3>2
    <2>3. QED
        BY <1>9, <2>1, <2>2
<1>12. frames' # <<>>
    BY <1>1, <1>7
<1>13. QED
    BY <1>5, <1>6, <1>7, <1>10, <1>11, <1>12 DEF Stacked

LEMMA TryPopStacked ==
    ASSUME Stacked, TryPop
    PROVE  Stacked'
<1>1. trys # <<>> /\ trys' = Front(trys)
    BY NotRaised DEF TryPop, Can
<1>2. PICK m \in Nat : m = Len(frames) /\ m >= 1 /\ DOMAIN frames = 1..m
    BY StackedSizes
<1>3. PICK l \in Nat : l = Len(trys) /\ DOMAIN trys = 1..l
    BY StackedSizes
<1>4. PICK v : frames' = [frames EXCEPT ![m] = v]
    BY <1>2 DEF TryPop, Advance, Go
<1>5. Sq(frames') /\ Len(frames') = m
    BY <1>2, <1>4, FrameChanged
<1>6. PICK q \in Nat : /\ q = l - 1 /\ Sq(trys') /\ Len(trys') = q
                       /\ \A j \in 1..q : trys'[j] = trys[j]
    BY <1>1, <1>3, FrontOk DEF Stacked
<1>7. q <= Len(trys) /\ \A j \in 1..q : j \in 1..l
    BY <1>3, <1>6
<1>8. \A j \in 1..q : trys[j].frames <= m
    BY <1>2, <1>3, <1>7 DEF Stacked
<1>9. QED
    BY <1>2, <1>5, <1>6, <1>7, <1>8, FewerStacked

LEMMA ReturnStacked ==
    ASSUME Stacked, ReturnOp
    PROVE  Stacked'
<1>1. PICK m \in Nat : m = Len(frames) /\ m >= 1
    BY StackedSizes
<1>2. trys' = HandlersBelow
      /\ IF m = 1 THEN UNCHANGED frames ELSE frames' = Front(frames)
    BY <1>1 DEF ReturnOp
<1>3. PICK q \in Nat : /\ q <= Len(trys) /\ Sq(trys') /\ Len(trys') = q
                       /\ \A j \in 1..q : trys'[j] = trys[j] /\ trys[j].frames < m
    BY <1>1, <1>2, BelowOk
<1>4. \A j \in 1..q : trys[j].frames \in Nat
    BY <1>3, StackedSizes DEF Stacked
<1>5. CASE m = 1
    <2>1. Sq(frames') /\ Len(frames') = m
        BY <1>1, <1>2, <1>5 DEF Stacked
    <2>2. \A j \in 1..q : trys[j].frames <= m
        BY <1>3, <1>4
    <2>3. QED
        BY <1>1, <1>3, <2>1, <2>2, FewerStacked
<1>6. CASE m # 1
    <2>1. PICK n \in Nat : n = m - 1 /\ n >= 1 /\ Sq(frames') /\ Len(frames') = n
        <3>1. frames' = Front(frames) /\ frames # <<>> /\ Sq(frames)
            BY <1>2, <1>6 DEF Stacked
        <3>2. PICK n \in Nat : n = m - 1 /\ Sq(frames') /\ Len(frames') = n
            BY <1>1, <3>1, FrontOk
        <3>3. n >= 1
            BY <1>1, <1>6, <3>2
        <3>4. QED
            BY <3>2, <3>3
    <2>2. \A j \in 1..q : trys[j].frames <= n
        BY <1>3, <1>4, <2>1
    <2>3. QED
        BY <1>3, <2>1, <2>2, FewerStacked
<1>7. QED
    BY <1>5, <1>6

LEMMA NextStacked == Stacked /\ [Next]_vars => Stacked'
<1> SUFFICES ASSUME Stacked, [Next]_vars PROVE Stacked'
    OBVIOUS
<1>1. CASE UNCHANGED <<frames, trys>>
    BY <1>1 DEF Stacked
<1>2. CASE trys' = trys /\ \E ip : Go(ip)
    BY <1>2, GoStacked
<1>3. CASE TryPush
    BY <1>3, TryPushStacked
<1>4. CASE TryPop
    BY <1>4, TryPopStacked
<1>5. CASE ReturnOp
    BY <1>5, ReturnStacked
<1>6. CASE /\ trys' = trys
           /\ \E f : frames' = Append([frames EXCEPT ![Len(frames)].ip = @ + 1], f)
    BY <1>6, EnterStacked
<1>7. CASE \E e : OnError(e)
    BY <1>7, ErrorStacked
<1>8. QED
    BY <1>1, <1>2, <1>3, <1>4, <1>5, <1>6, <1>7, StepKinds

(* Whatever program runs, compiled or loaded, accepted by the loader or    *)
(* not: a handler belongs to a frame that is still there, and handlers are *)
(* ordered as their frames are, so that unwinding to the newest drops      *)
(* every frame above it and none of the handlers below (on_error,          *)
(* JS_OP_RETURN).                                                          *)
THEOREM HandlersInOrder == Spec => []HandlersOrdered
<1>1. Init => Stacked
    <2> SUFFICES ASSUME Init PROVE Stacked
        OBVIOUS
    <2>1. trys = <<>> /\ \E f : frames = <<f>>
        BY DEF Init
    <2>2. Sq(trys) /\ Sq(frames) /\ frames # <<>>
        BY <2>1, SqTuples
    <2>3. QED
        BY <2>1, <2>2 DEF Stacked
<1>2. Stacked /\ [Next]_vars => Stacked'
    BY NextStacked
<1>3. Stacked => HandlersOrdered
    <2> SUFFICES ASSUME Stacked PROVE HandlersOrdered
        OBVIOUS
    <2>1. \A i \in DOMAIN trys : i > 1 => i - 1 \in DOMAIN trys /\ i - 1 < i
        BY StackedSizes
    <2>2. QED
        BY <2>1 DEF Stacked, HandlersOrdered
<1>4. QED
    BY <1>1, <1>2, <1>3, PTL DEF Spec
=============================================================================
