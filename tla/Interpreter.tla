---------------------------- MODULE Interpreter ----------------------------
(***************************************************************************)
(* The bytecode interpreter: the dispatch loop, calls, closures and        *)
(* upvalues, handlers and their unwinding (run_fiber and the functions it  *)
(* uses, runtime/js_interp.c).                                             *)
(*                                                                         *)
(* One fiber runs one program: freshly compiled, or loaded from bytecode,  *)
(* when the verifier has accepted it.  The host gives it h(), which        *)
(* returns or throws what the host likes, and log(x); it settles what the  *)
(* program awaits and may interrupt it at any time.  One step is one       *)
(* instruction.  Left out: async calls (ModuleEval and Microtasks have     *)
(* them), fuel (Fuel has it), running out of memory.                       *)
(***************************************************************************)
EXTENDS Values, Verifier, SequencesExt

CONSTANTS Code,         \* compiled programs, by name (Compiler)
          Verified,     \* what the loader says of each of their functions (Verifier)
          Answers,      \* what h() and a settled await give: <<returned, value>>
          MaxAnswers,   \* a program that asks more often is interrupted
          MaxFrames     \* JS_MAX_FRAMES

(* A value that refers to nothing.                                         *)
Primitive(v) == v[1] \notin {"fn", "obj"} /\ (v[1] = "num" => v[2] \in Int)

(* What the compiler emits, or the reader decodes: counts are not          *)
(* negative, constants refer to functions of the program.                  *)
FunctionRead(protos, f) ==
    /\ f.code \in Seq(Range(f.code))
    /\ \A i \in DOMAIN f.code : f.code[i].op \in {"CALL", "NEW", "NEW_ARRAY", "GET_LOCAL",
           "SET_LOCAL", "TDZ", "CLOSE_UPVALS"} => f.code[i].x \in Nat
    /\ \A k \in DOMAIN f.consts : /\ Primitive(f.consts[k])
                                  /\ IsProto(f, k) => f.consts[k][2] \in DOMAIN protos
    /\ f.upvals \in Seq(Range(f.upvals))
    /\ \A u \in Range(f.upvals) : u.fromLocal \in BOOLEAN /\ u.idx \in Nat
    /\ f.nLocals \in Nat /\ f.params \in Nat /\ f.rest \in BOOLEAN

ASSUME CodeAssumption ==
    \A p \in DOMAIN Code :
        LET ps == Code[p].protos
        IN  /\ ps \in Seq(Range(ps)) /\ ps # <<>>
            /\ \A n \in DOMAIN ps : FunctionRead(ps, ps[n])

ASSUME VerdictAssumption ==
    \A p \in DOMAIN Code :
        /\ DOMAIN Verified[p] = DOMAIN Code[p].protos
        /\ \A n \in DOMAIN Verified[p] :
               Verified[p][n].ok => Accepted(Code[p].protos, n, Verified[p][n])

ASSUME HostAssumption ==
    /\ \A a \in Answers : a[1] \in BOOLEAN /\ Primitive(a[2])
    /\ MaxAnswers \in Nat /\ MaxFrames \in Nat

VARIABLES
    prog,               \* which program
    loaded,             \* it went through the loader
    frames,             \* JsFrame: [fn, closure, ip, base, construct]
    stack,              \* values; the frame with base b has its callee at b-1,
                        \* its `this` at b and its locals from b+1
    trys,               \* JsTryEntry: [frames, sp, target]
    cells,              \* JsUpvalue: [open, slot, val]
    closures,           \* JsClosure: [fn, arrow, this, hasThis, ups, proto]
    heap, globals,
    status,             \* "run", "suspended", "done", "error"
    result,             \* the value returned or thrown at the end
    interrupted,        \* vm->interrupt
    log, answers        \* what the host has seen and answered

control == <<prog, loaded, interrupted, log, answers>>
store   == <<cells, closures, heap, globals>>
vars    == <<prog, loaded, frames, stack, trys, cells, closures, heap, globals,
             status, result, interrupted, log, answers>>

Loads(p) == \A i \in DOMAIN Verified[p] : Verified[p][i].ok

Stale   == <<"stale">>      \* what lies above the top of the stack

---------------------------------------------------------------------------
(* The running frame and its instruction.                                  *)

Frame    == Last(frames)
Fun      == Code[prog].protos[Frame.fn]
Proved   == Verified[prog][Frame.fn]
Self     == closures[Frame.closure]
I        == Fun.code[Frame.ip]
Peek(n)  == stack[Len(stack) - n]
Drop(n)  == SubSeq(stack, 1, Len(stack) - n)
LocalPos(x) == Frame.base + x + 1
Depth    == Len(stack) - Frame.base - Fun.nLocals
ThisVal  == IF Self.hasThis THEN Self.this ELSE stack[Frame.base]
Name     == Fun.consts[I.x][2]

CellValue(c) == IF cells[c].open THEN stack[cells[c].slot] ELSE cells[c].val

(* Calls: the arguments lie on the stack, or in the array on top of it.    *)
Spreads  == I.op \in {"CALL_VARARGS", "NEW_VARARGS"}
Args     == IF Spreads THEN heap[Peek(0)[2]].elems
            ELSE SubSeq(stack, Len(stack) - I.x + 1, Len(stack))
CalleeAt == Len(stack) - (IF Spreads THEN 1 ELSE I.x) - 1
Callee   == stack[CalleeAt]

---------------------------------------------------------------------------
(* The error an instruction raises instead of its effect.                  *)

CallFault ==
    IF Spreads /\ ~IsArray(heap, Peek(0)) THEN Error("internal")
    ELSE IF ~IsFunction(Callee) THEN Error("TypeError")
    ELSE IF /\ I.op \in {"NEW", "NEW_VARARGS"} /\ Callee[1] = "fn"
            /\ closures[Callee[2]].arrow
         THEN Error("TypeError")
    ELSE IF Callee[1] = "fn" /\ Len(frames) >= MaxFrames THEN Error("RangeError")
    ELSE NoError

(* RET_SUB: loaded code returns only to what the verifier proved.          *)
RetSubFault ==
    IF \/ ~IsIndex(Peek(0))
       \/ Peek(0)[2] \notin DOMAIN Fun.code
       \/ loaded /\ <<Peek(0)[2], Depth - 1>> \notin Proved.rets
    THEN Error("internal") ELSE NoError

(* Mutation of Stops: the flag is polled where the code may loop.          *)
StopsAtJumps == interrupted /\ I.op \in Jumps

(* The interrupt flag is read before every instruction, and stays up.      *)
Stops == interrupted

Fault ==
    LET op == I.op
        on(cond, e) == IF cond THEN Error(e) ELSE NoError
    IN  CASE op = "THROW"    -> Peek(0)
          [] op = "GET_LOCAL" -> on(stack[LocalPos(I.x)] = Tdz, "ReferenceError")
          [] op = "GET_UPVAL" -> on(CellValue(Self.ups[I.x]) = Tdz, "ReferenceError")
          [] op \in {"GET_GLOBAL", "SET_GLOBAL"} ->
                on(Name \notin DOMAIN globals, "ReferenceError")
          [] op = "in"       -> on(Peek(0)[1] # "obj", "TypeError")
          [] op = "ARRAY_APPEND" -> on(~IsArray(heap, Peek(1)), "internal")
          [] op = "ARRAY_SPREAD" ->
                IF ~IsArray(heap, Peek(1)) THEN Error("internal")
                ELSE on(~Iterable(heap, Peek(0)), "TypeError")
          [] op = "ITER_NEW" -> on(~Iterable(heap, Peek(0)), "TypeError")
          [] op = "ARRAY_REST" -> on(~IsIndex(Peek(0)), "internal")
          [] op = "OBJ_SPREAD" -> on(Peek(1)[1] # "obj", "internal")
          [] op \in {"GET_PROP", "DELETE_PROP"} -> on(IsNullish(Peek(1)), "TypeError")
          [] op = "GET_PROP_ATOM" -> on(IsNullish(Peek(0)), "TypeError")
          [] op \in {"SET_PROP", "DEFINE_PROP"} ->
                SetFault(heap, Peek(2), Peek(1), Peek(0))
          [] op = "SET_PROP_ATOM" -> SetFault(heap, Peek(1), Str(Name), Peek(0))
          [] op = "ITER_NEXT" ->
                IF ~IsIndex(Peek(0)) THEN Error("internal")
                ELSE on(~Iterable(heap, Peek(1)), "TypeError")
          [] op \in {"CALL", "CALL_VARARGS", "NEW", "NEW_VARARGS"} -> CallFault
          [] op = "TRY_POP"  -> on(trys = <<>>, "internal")
          [] op = "RET_SUB"  -> RetSubFault
          [] OTHER -> NoError

Raised == IF Stops THEN Error("interrupted") ELSE Fault

Running  == status = "run"
Can(ops) == Running /\ I.op \in ops /\ Raised = NoError

Go(ip)      == frames' = [frames EXCEPT ![Len(frames)].ip = ip]
Advance(s) == stack' = s /\ Go(Frame.ip + 1)

---------------------------------------------------------------------------
(* Handlers.  The upvalues of slots above a floor take their values with   *)
(* them.  An error unwinds to the newest handler: frames above it go, the  *)
(* stack is cut to where the handler was set, the error is pushed.         *)

(* Mutation of CloseFrom: off by one.                                      *)
CloseAbove(floor) ==
    [c \in DOMAIN cells |->
        IF cells[c].open /\ cells[c].slot > floor
        THEN [open |-> FALSE, slot |-> 0, val |-> stack[cells[c].slot]] ELSE cells[c]]

CloseFrom(floor) ==
    [c \in DOMAIN cells |->
        IF cells[c].open /\ cells[c].slot >= floor
        THEN [open |-> FALSE, slot |-> 0, val |-> stack[cells[c].slot]] ELSE cells[c]]

(* Mutation of CutTo: the slot at the top is kept.                         *)
CutAbove(n) == [i \in 1..(n + 1) |-> IF i <= Len(stack) THEN stack[i] ELSE Stale]

CutTo(n) == [i \in 1..n |-> IF i <= Len(stack) THEN stack[i] ELSE Stale]

(* Mutation of HandlersLeft: the handler stays in place.                   *)
HandlersKept == trys

(* A handler is used up when it is entered.                                *)
HandlersLeft == Front(trys)

OnError(e) ==
    IF trys = <<>>
    THEN /\ status' = "error" /\ result' = e
         /\ UNCHANGED <<frames, stack, trys, cells>>
    ELSE LET t    == Last(trys)
             kept == SubSeq(frames, 1, t.frames)
         IN  /\ frames' = [kept EXCEPT ![t.frames].ip = t.target]
             /\ cells' = IF Len(frames) > t.frames
                         THEN CloseFrom(frames[t.frames + 1].base + 1) ELSE cells
             /\ stack' = Append(CutTo(t.sp), e)
             /\ trys' = HandlersLeft
             /\ status' = "run"
             /\ UNCHANGED result

Raise ==
    /\ Running /\ Raised # NoError
    /\ OnError(Raised)
    /\ UNCHANGED <<closures, heap, globals, control>>

TryPush ==
    /\ Can({"TRY_PUSH"})
    /\ trys' = Append(trys, [frames |-> Len(frames), sp |-> Len(stack), target |-> I.x])
    /\ Advance(stack)
    /\ UNCHANGED <<store, status, result, control>>

TryPop ==
    /\ Can({"TRY_POP"})
    /\ trys' = Front(trys)
    /\ Advance(stack)
    /\ UNCHANGED <<store, status, result, control>>

---------------------------------------------------------------------------
(* Instructions that only rewrite the stack.                               *)

StackAfter ==
    LET push(v)       == Append(stack, v)
        replace(n, v) == Append(Drop(n), v)
        setAt(i, v)   == [stack EXCEPT ![i] = v]
    IN  CASE I.op = "CONST"      -> push(Fun.consts[I.x])
          [] I.op = "UNDEFINED"  -> push(Undefined)
          [] I.op = "NULL"       -> push(Null)
          [] I.op = "TRUE"       -> push(Bool(TRUE))
          [] I.op = "FALSE"      -> push(Bool(FALSE))
          [] I.op = "POP"        -> Drop(1)
          [] I.op = "DUP"        -> push(Peek(0))
          [] I.op = "DUP2"       -> stack \o <<Peek(1), Peek(0)>>
          [] I.op = "SWAP"       -> Drop(2) \o <<Peek(0), Peek(1)>>
          [] I.op = "ROT3"       -> Drop(3) \o <<Peek(1), Peek(0), Peek(2)>>
          [] I.op = "GET_LOCAL"  -> push(stack[LocalPos(I.x)])
          [] I.op = "SET_LOCAL"  -> setAt(LocalPos(I.x), Peek(0))
          [] I.op = "TDZ"        -> setAt(LocalPos(I.x), Tdz)
          [] I.op = "GET_UPVAL"  -> push(CellValue(Self.ups[I.x]))
          [] I.op = "GET_THIS"   -> push(ThisVal)
          [] I.op = "GET_GLOBAL" -> push(globals[Name])
          [] I.op = "GET_GLOBAL_SOFT" ->
                push(IF Name \in DOMAIN globals THEN globals[Name] ELSE Undefined)
          [] I.op = "in"  -> replace(2, Bool(HasProperty(heap, Peek(0)[2], Peek(1))))
          [] I.op \in Calculated -> replace(2, BinaryOp(I.op, Peek(1), Peek(0)))
          [] I.op = "NEG"        -> replace(1, UnaryOp("-", Peek(0)))
          [] I.op = "POS"        -> replace(1, UnaryOp("+", Peek(0)))
          [] I.op = "NOT"        -> replace(1, UnaryOp("!", Peek(0)))
          [] I.op = "TYPEOF"     -> replace(1, UnaryOp("typeof", Peek(0)))
          [] I.op = "TO_STRING"  -> replace(1, UnaryOp("str", Peek(0)))
          [] I.op = "GET_PROP"   -> replace(2, GetProperty(heap, Peek(1), Peek(0)))
          [] I.op = "GET_PROP_ATOM" -> replace(1, GetProperty(heap, Peek(0), Str(Name)))
          [] I.op = "ITER_NEW"   -> push(Num(0))

StackOps == {"CONST", "UNDEFINED", "NULL", "TRUE", "FALSE", "POP", "DUP", "DUP2", "SWAP",
             "ROT3", "GET_LOCAL", "SET_LOCAL", "TDZ", "GET_UPVAL", "GET_THIS", "GET_GLOBAL",
             "GET_GLOBAL_SOFT", "NEG", "POS", "NOT", "TYPEOF", "TO_STRING", "GET_PROP",
             "GET_PROP_ATOM", "ITER_NEW", "in"} \cup Calculated

(* The prototype of a closure is made when it is first asked for.          *)
AsksPrototype ==
    \/ I.op = "GET_PROP_ATOM" /\ Peek(0)[1] = "fn" /\ Name = "prototype"
    \/ I.op = "GET_PROP" /\ Peek(1)[1] = "fn" /\ Peek(0) = Str("prototype")

Compute ==
    /\ Can(StackOps) /\ ~AsksPrototype
    /\ Advance(StackAfter)
    /\ UNCHANGED <<trys, store, status, result, control>>

SetUpval ==
    /\ Can({"SET_UPVAL"})
    /\ LET c == Self.ups[I.x]
       IN  IF cells[c].open
           THEN Advance([stack EXCEPT ![cells[c].slot] = Peek(0)]) /\ UNCHANGED cells
           ELSE Advance(stack) /\ cells' = [cells EXCEPT ![c].val = Peek(0)]
    /\ UNCHANGED <<trys, closures, heap, globals, status, result, control>>

SetGlobal ==
    /\ Can({"SET_GLOBAL"})
    /\ globals' = [globals EXCEPT ![Name] = Peek(0)]
    /\ Advance(stack)
    /\ UNCHANGED <<trys, cells, closures, heap, status, result, control>>

---------------------------------------------------------------------------
(* Control flow.                                                           *)

(* Where an instruction jumps, and the stack it leaves: taken or not.      *)
Branch ==
    LET jump(taken, s, t) == [ip |-> IF taken THEN I.x ELSE Frame.ip + 1,
                              stack |-> IF taken THEN s ELSE t]
        top  == Peek(0)
        elem == Elements(heap, Peek(1))
    IN  CASE I.op = "JUMP"          -> jump(TRUE, stack, stack)
          [] I.op = "JUMP_IF_FALSE" -> jump(~ToBoolean(top), Drop(1), Drop(1))
          [] I.op = "JUMP_IF_TRUE"  -> jump(ToBoolean(top), Drop(1), Drop(1))
          [] I.op = "JF_PEEK"       -> jump(~ToBoolean(top), stack, stack)
          [] I.op = "JT_PEEK"       -> jump(ToBoolean(top), stack, stack)
          [] I.op = "JNN_PEEK"      -> jump(~IsNullish(top), stack, stack)
          [] I.op = "OPT_CHAIN"     ->
                jump(IsNullish(top), Append(Drop(1), Undefined), stack)
          [] I.op = "OPT_CALL_CHECK" -> jump(IsNullish(Peek(1)), Drop(2), stack)
          [] I.op = "CASE"          -> jump(StrictEquals(top, Peek(1)), Drop(2), Drop(1))
          [] I.op = "ITER_NEXT"     ->
                IF top[2] >= Len(elem) THEN jump(TRUE, Drop(2), stack)
                ELSE jump(FALSE, stack, Drop(1) \o <<Num(top[2] + 1), elem[top[2] + 1]>>)
          [] I.op = "GOSUB"         -> jump(TRUE, Append(stack, Num(Frame.ip + 1)), stack)

Jump ==
    /\ Can(Jumps \ {"TRY_PUSH"})
    /\ stack' = Branch.stack /\ Go(Branch.ip)
    /\ UNCHANGED <<trys, store, status, result, control>>

RetSub ==
    /\ Can({"RET_SUB"})
    /\ stack' = Drop(1) /\ Go(Peek(0)[2])
    /\ UNCHANGED <<trys, store, status, result, control>>

---------------------------------------------------------------------------
(* Objects.                                                                *)

Allocate(cell, s) ==
    /\ heap' = Append(heap, cell)
    /\ Advance(Append(s, Obj(Len(heap) + 1)))
    /\ UNCHANGED <<trys, cells, closures, globals, status, result, control>>

NewObject == Can({"NEW_OBJECT"}) /\ Allocate(PlainObject(Null), stack)
NewArray  == /\ Can({"NEW_ARRAY"})
             /\ Allocate(ArrayOf(SubSeq(stack, Len(stack) - I.x + 1, Len(stack))), Drop(I.x))
ArrayRest == /\ Can({"ARRAY_REST"})
             /\ LET e == Elements(heap, Peek(1))
                IN  Allocate(ArrayOf(SubSeq(e, Peek(0)[2] + 1, Len(e))), Drop(2))

(* What a write leaves in the heap, and on the stack.                      *)
Written ==
    CASE I.op = "ARRAY_APPEND" ->
            <<[heap EXCEPT ![Peek(1)[2]].elems = Append(@, Peek(0))], Drop(1)>>
      [] I.op = "ARRAY_SPREAD" ->
            <<[heap EXCEPT ![Peek(1)[2]].elems = @ \o Elements(heap, Peek(0))], Drop(1)>>
      [] I.op = "OBJ_SPREAD"  -> <<SpreadInto(heap, Peek(1)[2], Peek(0)), Drop(1)>>
      [] I.op = "DEFINE_PROP" -> <<SetProperty(heap, Peek(2)[2], Peek(1), Peek(0)), Drop(2)>>
      [] I.op = "SET_PROP"    ->
            <<SetProperty(heap, Peek(2)[2], Peek(1), Peek(0)), Append(Drop(3), Peek(0))>>
      [] I.op = "SET_PROP_ATOM" ->
            <<SetProperty(heap, Peek(1)[2], Str(Name), Peek(0)), Append(Drop(2), Peek(0))>>
      [] I.op = "DELETE_PROP" ->
            <<IF Peek(1)[1] = "obj" THEN DeleteProperty(heap, Peek(1)[2], Peek(0)) ELSE heap,
              Append(Drop(2), Bool(TRUE))>>

(* A write to the prototype of a closure.                                  *)
SetsPrototype ==
    \/ /\ I.op \in {"SET_PROP", "DEFINE_PROP"}
       /\ Peek(2)[1] = "fn" /\ Peek(1) = Str("prototype")
    \/ I.op = "SET_PROP_ATOM" /\ Peek(1)[1] = "fn" /\ Name = "prototype"

Write ==
    /\ Can({"ARRAY_APPEND", "ARRAY_SPREAD", "OBJ_SPREAD", "DEFINE_PROP", "SET_PROP",
            "SET_PROP_ATOM", "DELETE_PROP"})
    /\ ~SetsPrototype
    /\ heap' = Written[1]
    /\ Advance(Written[2])
    /\ UNCHANGED <<trys, cells, closures, globals, status, result, control>>

(* The prototype of closure c: its object, and the heap and closures with  *)
(* it.                                                                     *)
ProtoMade(c) ==
    IF closures[c].proto > 0
    THEN [obj |-> closures[c].proto, heap |-> heap, closures |-> closures]
    ELSE [obj |-> Len(heap) + 1, heap |-> Append(heap, PrototypeOf(c)),
          closures |-> [closures EXCEPT ![c].proto = Len(heap) + 1]]

GetPrototype ==
    /\ Can({"GET_PROP", "GET_PROP_ATOM"}) /\ AsksPrototype
    /\ LET n == IF I.op = "GET_PROP" THEN 2 ELSE 1
           m == ProtoMade(Peek(n - 1)[2])
       IN  /\ heap' = m.heap /\ closures' = m.closures
           /\ Advance(Append(Drop(n), Obj(m.obj)))
    /\ UNCHANGED <<trys, cells, globals, status, result, control>>

(* What is no object leaves the prototype as it is.                        *)
SetPrototype ==
    /\ Can({"DEFINE_PROP", "SET_PROP", "SET_PROP_ATOM"}) /\ SetsPrototype
    /\ LET n == IF I.op = "SET_PROP_ATOM" THEN 2 ELSE 3
       IN  /\ closures' = IF Peek(0)[1] # "obj" THEN closures
                          ELSE [closures EXCEPT ![Peek(n - 1)[2]].proto = Peek(0)[2]]
           /\ Advance(IF I.op = "DEFINE_PROP" THEN Drop(2) ELSE Append(Drop(n), Peek(0)))
    /\ UNCHANGED <<trys, cells, heap, globals, status, result, control>>

---------------------------------------------------------------------------
(* Closures.  A captured local has one upvalue, shared by every closure    *)
(* that captures it while it is open.                                      *)

OpenSlots == {cells[c].slot : c \in {d \in DOMAIN cells : cells[d].open}}

Opened(slots) ==
    LET new == SetToSeq(slots)
    IN  cells \o [i \in DOMAIN new |-> [open |-> TRUE, slot |-> new[i], val |-> Undefined]]

(* Mutation of Capture: an upvalue for each closure.                       *)
CaptureAnew(slots) == Opened(slots)

Capture(slots) == Opened(slots \ OpenSlots)

(* The upvalue that stands for a slot.                                     *)
CellOf(cs, slot) == CHOOSE c \in DOMAIN cs : cs[c].open /\ cs[c].slot = slot

MakeClosure ==
    /\ Can({"CLOSURE"})
    /\ LET p     == Fun.consts[I.x][2]
           arrow == I.y = 1
           descs == Code[prog].protos[p].upvals
           taken == Capture({LocalPos(u.idx) : u \in {d \in Range(descs) : d.fromLocal}})
       IN  /\ cells' = taken
           /\ closures' = Append(closures, [fn |-> p, hasThis |-> arrow, arrow |-> arrow,
                  this |-> IF arrow THEN ThisVal ELSE Undefined, proto |-> 0,
                  ups |-> [k \in DOMAIN descs |->
                              IF descs[k].fromLocal THEN CellOf(taken, LocalPos(descs[k].idx))
                              ELSE Self.ups[descs[k].idx]]])
           /\ Advance(Append(stack, Fn(Len(closures) + 1)))
    /\ UNCHANGED <<trys, heap, globals, status, result, control>>

CloseUpvals ==
    /\ Can({"CLOSE_UPVALS"})
    /\ cells' = CloseFrom(LocalPos(I.x))
    /\ Advance(stack)
    /\ UNCHANGED <<trys, closures, heap, globals, status, result, control>>

---------------------------------------------------------------------------
(* Calls.                                                                  *)

(* frame_setup: the locals of a call of function f, the rest of the        *)
(* arguments in an array, object `o` of the heap.                          *)
Bound(f, args, o) ==
    [i \in 1..f.nLocals |->
        IF f.rest /\ i = f.params THEN Obj(o)
        ELSE IF i <= f.params /\ i <= Len(args) THEN args[i] ELSE Undefined]

RestOf(f, args) == SubSeq(args, f.params, Len(args))

(* Frame c is entered; `h` is the heap with what the call allocated.       *)
Enter(c, h, this, construct) ==
    LET f == Code[prog].protos[closures[c].fn]
        s == SubSeq(stack, 1, CalleeAt) \o <<this>>
    IN  /\ stack' = s \o Bound(f, Args, Len(h) + 1)
        /\ heap' = IF f.rest THEN Append(h, ArrayOf(RestOf(f, Args))) ELSE h
        /\ frames' = Append([frames EXCEPT ![Len(frames)].ip = @ + 1],
                            [fn |-> closures[c].fn, closure |-> c, ip |-> 1,
                             base |-> Len(s), construct |-> construct])
        /\ UNCHANGED <<trys, cells, globals, status, result, control>>

CallClosure ==
    /\ Can({"CALL", "CALL_VARARGS"}) /\ Callee[1] = "fn"
    /\ Enter(Callee[2], heap, stack[CalleeAt + 1], FALSE)
    /\ UNCHANGED closures

Construct ==
    /\ Can({"NEW", "NEW_VARARGS"}) /\ Callee[1] = "fn"
    /\ LET m == ProtoMade(Callee[2])
       IN  /\ Enter(Callee[2], Append(m.heap, PlainObject(Obj(m.obj))),
                    Obj(Len(m.heap) + 1), TRUE)
           /\ closures' = m.closures

Calls(f) == /\ Can({"CALL", "CALL_VARARGS", "NEW", "NEW_VARARGS"})
            /\ Callee = <<"native", f>>
Returns(v) == /\ Advance(Append(SubSeq(stack, 1, CalleeAt - 1), v))
              /\ UNCHANGED <<trys, cells, status, result>>

CallLog ==
    /\ Calls("log")
    /\ log' = Append(log, IF Len(Args) > 0 THEN Args[1] ELSE Undefined)
    /\ Returns(Undefined)
    /\ UNCHANGED <<closures, heap, globals, prog, loaded, interrupted, answers>>

(* The host answers, or has had enough and interrupts.                     *)
CallHost ==
    /\ Calls("h") /\ Len(answers) < MaxAnswers
    /\ \E a \in Answers :
          /\ answers' = Append(answers, a)
          /\ IF a[1] THEN Returns(a[2]) ELSE OnError(a[2])
    /\ UNCHANGED <<closures, heap, globals, prog, loaded, interrupted, log>>

CallHostOver ==
    /\ Calls("h") /\ Len(answers) = MaxAnswers
    /\ interrupted' = TRUE
    /\ Returns(Undefined)
    /\ UNCHANGED <<closures, heap, globals, prog, loaded, log, answers>>

(* Mutation of HandlersBelow: handlers outlive their frame.                *)
HandlersAll == trys

(* The handlers on top that the frame has set go.                          *)
HandlersBelow ==
    LET own == {k \in DOMAIN trys : \A j \in k..Len(trys) : trys[j].frames >= Len(frames)}
    IN  SubSeq(trys, 1, Len(trys) - Cardinality(own))

(* A constructor that returns no object returns `this`.  The frame's open  *)
(* upvalues close and its handlers go.                                     *)
ReturnOp ==
    /\ Can({"RETURN"})
    /\ LET v == IF Frame.construct /\ Peek(0)[1] # "obj" THEN stack[Frame.base] ELSE Peek(0)
       IN  /\ cells' = CloseFrom(Frame.base + 1)
           /\ trys' = HandlersBelow
           /\ IF Len(frames) = 1
              THEN status' = "done" /\ result' = v /\ UNCHANGED <<frames, stack>>
              ELSE /\ frames' = Front(frames)
                   /\ stack' = Append(SubSeq(stack, 1, Frame.base - 2), v)
                   /\ UNCHANGED <<status, result>>
    /\ UNCHANGED <<closures, heap, globals, control>>

---------------------------------------------------------------------------
(* Suspension: the awaited value stays on the stack until the host settles *)
(* it and the fiber resumes with a value or an error.  While the flag is   *)
(* up js_run_jobs takes no job, and the fiber stays where it is.           *)

Suspend ==
    /\ Can({"AWAIT"})
    /\ status' = "suspended"
    /\ Advance(stack)
    /\ UNCHANGED <<trys, store, result, control>>

Resume ==
    /\ status = "suspended" /\ ~interrupted /\ Len(answers) < MaxAnswers
    /\ \E a \in Answers :
          /\ answers' = Append(answers, a)
          /\ IF a[1]
             THEN /\ stack' = Append(Drop(1), a[2]) /\ status' = "run"
                  /\ UNCHANGED <<frames, trys, cells, result>>
             ELSE OnError(a[2])
    /\ UNCHANGED <<closures, heap, globals, prog, loaded, interrupted, log>>

(* js_vm_interrupt, from another thread or a signal handler, also while    *)
(* the program waits.                                                      *)
Interrupt ==
    /\ status \in {"run", "suspended"} /\ ~interrupted
    /\ interrupted' = TRUE
    /\ UNCHANGED <<frames, stack, trys, store, status, result, prog, loaded, log, answers>>

---------------------------------------------------------------------------
(* spawn_fiber: the module's function, the last proto, without arguments.  *)
Init ==
    /\ prog \in DOMAIN Code
    /\ loaded \in BOOLEAN
    /\ ~Code[prog].failed
    /\ loaded => Loads(prog)
    /\ LET main == Len(Code[prog].protos)
           f    == Code[prog].protos[main]
       IN  /\ closures = <<[fn |-> main, hasThis |-> FALSE, arrow |-> FALSE,
                            this |-> Undefined, ups |-> <<>>, proto |-> 0]>>
           /\ frames = <<[fn |-> main, closure |-> 1, ip |-> 1, base |-> 2,
                          construct |-> FALSE]>>
           /\ stack = <<Fn(1), Undefined>> \o [i \in 1..f.nLocals |-> Undefined]
    /\ trys = <<>> /\ cells = <<>> /\ heap = <<>>
    /\ globals = Globals
    /\ status = "run" /\ result = Undefined /\ interrupted = FALSE
    /\ log = <<>> /\ answers = <<>>

Step ==
    \/ Raise \/ TryPush \/ TryPop
    \/ Compute \/ SetUpval \/ SetGlobal \/ Jump \/ RetSub
    \/ NewObject \/ NewArray \/ ArrayRest \/ Write
    \/ GetPrototype \/ SetPrototype
    \/ MakeClosure \/ CloseUpvals
    \/ CallClosure \/ Construct \/ CallLog \/ CallHost \/ CallHostOver \/ ReturnOp
    \/ Suspend

Next == Step \/ Resume \/ Interrupt

Spec == Init /\ [][Next]_vars /\ WF_vars(Step)

---------------------------------------------------------------------------
Over == status \in {"done", "error"}

(* The number of handlers the running frame has.                           *)
OwnTrys == Cardinality({i \in DOMAIN trys : trys[i].frames = Len(frames)})

(* Types: every reference names something that exists: frames a closure    *)
(* and an instruction of its function, closures and open upvalues cells    *)
(* and slots.                                                              *)
TypeOK ==
    /\ prog \in DOMAIN Code /\ loaded \in BOOLEAN /\ interrupted \in BOOLEAN
    /\ \A i \in DOMAIN frames :
          /\ frames[i].closure \in DOMAIN closures
          /\ frames[i].fn = closures[frames[i].closure].fn
          /\ frames[i].ip \in DOMAIN Code[prog].protos[frames[i].fn].code
          /\ frames[i].base \in DOMAIN stack
    /\ \A i \in DOMAIN closures :
          /\ closures[i].fn \in DOMAIN Code[prog].protos
          /\ closures[i].proto \in 0..Len(heap)
          /\ Len(closures[i].ups) = Len(Code[prog].protos[closures[i].fn].upvals)
          /\ \A u \in DOMAIN closures[i].ups : closures[i].ups[u] \in DOMAIN cells
    /\ \A c \in DOMAIN cells : cells[c].open => cells[c].slot \in DOMAIN stack
    /\ status \in {"run", "suspended", "done", "error"}
    /\ Len(answers) <= MaxAnswers

(* An interrupted program touches nothing that anyone can see any more: no *)
(* handler and no finally block of it runs on its way out, whatever it was *)
(* in the middle of, and one that waits is told no answer (run_fiber, the  *)
(* check before each instruction; js_run_jobs).                            *)
StopKept == [][interrupted => UNCHANGED <<log, answers, globals, heap>>]_vars

(* An interrupted program that ends, ends with the error, whatever it      *)
(* would catch: no handler and no finally block that returns absorbs it.   *)
StopFails == interrupted /\ Over => status = "error"

(* The operand depth of frame i: below the top frame, what a call leaves   *)
(* there when it has taken its arguments and given its result.             *)
TopOf(i) == IF i = Len(frames) THEN Len(stack) ELSE frames[i + 1].base - 1

FrameFun(i)  == Code[prog].protos[frames[i].fn]
FloorOf(i)   == frames[i].base + FrameFun(i).nLocals
ShapesOf(i)  == Verified[prog][frames[i].fn].shapes

(* The worklist has found instruction ip of frame i at an operand depth.   *)
Found(i, ip, depth) == \E s \in ShapesOf(i) : s[1] = ip /\ s[2] = depth

(* Every frame and every handler is where the loader found it: where the   *)
(* frame goes on, and where an error would take it, was found at just that *)
(* operand depth, on top of the frame's locals.                            *)
FramesFound ==
    /\ \A i \in DOMAIN frames :
          TopOf(i) >= FloorOf(i) /\ Found(i, frames[i].ip, TopOf(i) - FloorOf(i))
    /\ \A k \in DOMAIN trys :
          LET t == trys[k]
          IN  /\ t.frames \in DOMAIN frames
              /\ t.sp >= FloorOf(t.frames)
              /\ Found(t.frames, t.target, t.sp + 1 - FloorOf(t.frames))

(* What the loader proves of bytecode, whoever wrote it, holds in every    *)
(* frame and at every handler.  RET_SUB goes where a value from the stack  *)
(* says, calls and unwinding cut the stack (verify_pass2, run_fiber).      *)
StackProved == loaded => FramesFound

(* The proof of the loader holds while the program runs: every instruction *)
(* is reached at an operand depth and a number of handlers that the        *)
(* worklist found for it (verify_pass2).                                   *)
DepthsProved ==
    status = "run" /\ Loads(prog) => <<Frame.ip, Depth, OwnTrys>> \in Proved.shapes

(* Conditions on the tables of the loader under which DepthsProved and     *)
(* HandlersLive hold of any bytecode.  The loader does not ask for them.   *)

(* A finally block is left with as many handlers wherever it returns to at *)
(* the depth: RET_SUB tests the depth only.                                *)
ReturnsAgree(f, v) ==
    \A s \in v.shapes : f.code[s[1]].op = "RET_SUB" =>
        \A r \in v.rets : r[2] = s[2] - 1 => <<r[1], r[2], s[3]>> \in v.shapes

(* With more handlers the operand stack is no shallower than where a       *)
(* handler was set with fewer.                                             *)
Layered(f, v) ==
    \A p, s \in v.shapes : f.code[p[1]].op = "TRY_PUSH" /\ s[3] > p[3] => p[2] <= s[2]

CountsSettled ==
    \A n \in DOMAIN Code[prog].protos : ReturnsAgree(Code[prog].protos[n], Verified[prog][n])
DepthsLayered ==
    \A n \in DOMAIN Code[prog].protos : Layered(Code[prog].protos[n], Verified[prog][n])

(* At most one open upvalue stands for a slot, and the slot is a local of  *)
(* a frame that is still there (upvalue_capture, upvalues_close_from).     *)
OpenUpvaluesLive ==
    \A c \in DOMAIN cells : cells[c].open =>
        /\ \A d \in DOMAIN cells : cells[d].open /\ cells[d].slot = cells[c].slot => c = d
        /\ \E i \in DOMAIN frames :
               cells[c].slot - frames[i].base
                   \in 1..Code[prog].protos[frames[i].fn].nLocals

(* A handler belongs to a frame that is still there, and handlers are      *)
(* ordered as their frames are (JS_OP_RETURN, on_error).                   *)
HandlersOrdered ==
    /\ \A i \in DOMAIN trys : trys[i].frames \in DOMAIN frames
    /\ \A i \in DOMAIN trys : i > 1 => trys[i-1].frames <= trys[i].frames

(* Handlers are in order, and each would cut the stack to operands of its  *)
(* frame that are still on it (on_error, JS_OP_RETURN).                    *)
HandlersLive ==
    /\ HandlersOrdered
    /\ \A i \in DOMAIN trys :
          LET fr == frames[trys[i].frames]
          IN  /\ trys[i].sp >= fr.base + Code[prog].protos[fr.fn].nLocals
              /\ trys[i].frames < Len(frames) => trys[i].sp < frames[trys[i].frames + 1].base
=============================================================================
