-------------------------------- MODULE Fuel --------------------------------
(***************************************************************************)
(* The instruction budget of a context (src/runtime/js_interp.c:           *)
(* spawn_fiber, advance_fiber and the check before every instruction;      *)
(* js_vm.c: js_context_set_fuel).                                          *)
(*                                                                         *)
(* js_context_set_fuel arms a budget for a turn.  The remainder moves by   *)
(* copying: a new fiber takes its caller's, or the context's at top level, *)
(* and hands what it has left back when it yields.  A fiber that awaits    *)
(* keeps its copy while it is parked, and brings it along when a later     *)
(* drain resumes it.                                                       *)
(***************************************************************************)
EXTENDS Naturals, Sequences

CONSTANTS
    Fibers,       (* fibers, those of async functions included              *)
    Budgets,      (* bound: what the host arms; 0 means no limit            *)
    Unlimited,    (* UINT64_MAX: a remainder no run counts down from        *)
    MaxReentry,   (* JS_MAX_REENTRY                                         *)
    MayInterrupt  (* whether the host may call js_vm_interrupt              *)

ASSUME FuelConstants ==
    /\ Budgets \subseteq Nat
    /\ Unlimited \in Nat \ {0}
    /\ \A n \in Budgets : n < Unlimited
    /\ MaxReentry \in Nat
    /\ MayInterrupt \in BOOLEAN

VARIABLES
    budget,       (* ctx->fuel                                              *)
    left,         (* ctx->fuel_left                                         *)
    fuel,         (* JsFiber.fuel                                           *)
    phase,        (* where each fiber is                                    *)
    stack,        (* ctx->fiber and its callers, innermost first            *)
    interrupt,    (* vm->interrupt                                          *)
    spent,        (* history: instructions charged in this turn             *)
    granted       (* history: fuel armed for this turn, and brought into it *)

vars == <<budget, left, fuel, phase, stack, interrupt, spent, granted>>

TypeOK ==
    /\ budget \in Nat
    /\ left \in Nat
    /\ fuel \in [Fibers -> Nat]
    /\ phase \in [Fibers -> {"new", "running", "parked", "done"}]
    /\ stack \in Seq(Fibers)
    /\ interrupt \in BOOLEAN
    /\ spent \in Nat
    /\ granted \in Nat

Init ==
    /\ budget = 0
    /\ left = 0
    /\ fuel = [f \in Fibers |-> 0]
    /\ phase = [f \in Fibers |-> "new"]
    /\ stack = <<>>
    /\ interrupt = FALSE
    /\ spent = 0
    /\ granted = 0

-----------------------------------------------------------------------------
Running == stack # <<>>

Top == Head(stack)

(* The end of advance_fiber: fiber f, whose remainder is n, goes back to   *)
(* the callers in `below`, or to the context.  `table` is the fuel of all  *)
(* fibers up to here.                                                      *)
HandBack(table, n, below) ==
    IF below # <<>>
    THEN /\ fuel' = [table EXCEPT ![Head(below)] = n]
         /\ UNCHANGED left
    ELSE /\ fuel' = table
         /\ left' = IF budget # 0 THEN n ELSE left

(* js_context_set_fuel, between turns.                                     *)
SetFuel(n) ==
    /\ ~Running
    /\ budget' = n
    /\ left' = n
    /\ spent' = 0
    /\ granted' = n
    /\ UNCHANGED <<fuel, phase, stack, interrupt>>

(* Mutation: a top-level fiber is given the whole budget.                  *)
FullTank ==
    CASE Running -> fuel[Top]
      [] ~Running /\ budget = 0 -> Unlimited
      [] OTHER -> budget

(* The remainder spawn_fiber gives a new fiber.                            *)
Share ==
    CASE Running -> fuel[Top]
      [] ~Running /\ budget = 0 -> Unlimited
      [] ~Running /\ budget # 0 /\ left = 0 -> 1
      [] OTHER -> left

(* Fiber f, whose remainder is n, fails before its first instruction.      *)
Ended(f, n) ==
    /\ phase' = [phase EXCEPT ![f] = "done"]
    /\ HandBack([fuel EXCEPT ![f] = n], n, stack)
    /\ UNCHANGED stack

(* advance_fiber on a fiber with remainder n: it enters the interpreter,   *)
(* or is failed because JS_MAX_REENTRY entries are on the C stack.         *)
Advance(f, n) ==
    \/ /\ Len(stack) < MaxReentry
       /\ stack' = <<f>> \o stack
       /\ phase' = [phase EXCEPT ![f] = "running"]
       /\ fuel' = [fuel EXCEPT ![f] = n]
       /\ UNCHANGED left
    \/ /\ Len(stack) >= MaxReentry
       /\ Ended(f, n)

(* js_call, js_run_module, call_async or a then-job: a new fiber, called   *)
(* by the host, by a native or by the running fiber.                       *)
Spawn(f) ==
    /\ phase[f] = "new"
    /\ Advance(f, Share)
    /\ UNCHANGED <<budget, interrupt, spent, granted>>

(* js_resume_fiber, from a drain: a parked fiber goes on with the          *)
(* remainder it was parked with, or ends at once with the rejection it     *)
(* awaited when it has no handler for it.                                  *)
Resume(f) ==
    /\ phase[f] = "parked"
    /\ ~interrupt
    /\ Advance(f, fuel[f]) \/ Ended(f, fuel[f])
    /\ granted' = IF fuel[f] = Unlimited THEN granted ELSE granted + fuel[f]
    /\ UNCHANGED <<budget, interrupt, spent>>

-----------------------------------------------------------------------------
(* What one instruction leaves of n.                                       *)
Less(n) == IF n = Unlimited THEN n ELSE n - 1

(* Mutation: an exhausted fiber is charged like any other.                 *)
ChargedUnchecked ==
    /\ Running
    /\ ~interrupt
    /\ spent' = IF fuel[Top] = Unlimited THEN spent ELSE spent + 1
    /\ UNCHANGED <<budget, interrupt, granted>>

(* The check before an instruction lets it through, and charges it.        *)
Charged ==
    /\ Running
    /\ fuel[Top] > 1
    /\ ~interrupt
    /\ spent' = IF fuel[Top] = Unlimited THEN spent ELSE spent + 1
    /\ UNCHANGED <<budget, interrupt, granted>>

(* An instruction that neither parks nor ends the fiber.                   *)
Execute ==
    /\ Charged
    /\ fuel' = [fuel EXCEPT ![Top] = Less(@)]
    /\ UNCHANGED <<left, phase, stack>>

(* AWAIT parks the fiber, RETURN from its outermost frame ends it.         *)
Yield(how) ==
    /\ Charged
    /\ phase' = [phase EXCEPT ![Top] = how]
    /\ stack' = Tail(stack)
    /\ LET n == Less(fuel[Top])
       IN  HandBack([fuel EXCEPT ![Top] = n], n, Tail(stack))

(* Mutation: a handler absorbs the error of an exhausted budget.           *)
StoppedAbsorbed ==
    /\ Running
    /\ interrupt
    /\ phase' = [phase EXCEPT ![Top] = "done"]
    /\ stack' = Tail(stack)
    /\ HandBack(fuel, fuel[Top], Tail(stack))
    /\ UNCHANGED <<budget, interrupt, spent, granted>>

(* The check fails and throws, no handler can absorb it, and the fiber     *)
(* ends with the error; its remainder is back at 1, or untouched by an     *)
(* interrupt.                                                              *)
Stopped ==
    /\ Running
    /\ fuel[Top] = 1 \/ interrupt
    /\ phase' = [phase EXCEPT ![Top] = "done"]
    /\ stack' = Tail(stack)
    /\ HandBack(fuel, fuel[Top], Tail(stack))
    /\ UNCHANGED <<budget, interrupt, spent, granted>>

(* js_vm_interrupt, at any time; js_vm_clear_interrupt between turns.      *)
Interrupt ==
    /\ MayInterrupt
    /\ interrupt' = TRUE
    /\ UNCHANGED <<budget, left, fuel, phase, stack, spent, granted>>

ClearInterrupt ==
    /\ ~Running
    /\ interrupt' = FALSE
    /\ UNCHANGED <<budget, left, fuel, phase, stack, spent, granted>>

RunCode == Execute \/ Yield("parked") \/ Yield("done") \/ Stopped

Next ==
    \/ \E n \in Budgets : SetFuel(n)
    \/ \E f \in Fibers : Spawn(f) \/ Resume(f)
    \/ RunCode
    \/ Interrupt
    \/ ClearInterrupt

Spec == Init /\ [][Next]_vars

(* Code on the C stack keeps running until it yields.                      *)
FairSpec == Spec /\ WF_vars(RunCode)

-----------------------------------------------------------------------------
(* No fiber that runs or waits ever holds a remainder of 0, which the next *)
(* decrement would turn into UINT64_MAX ("0 would underflow into an        *)
(* unlimited budget", js_interp.c:2168).                                   *)
NeverUnderflows ==
    \A f \in Fibers : phase[f] \in {"running", "parked"} => fuel[f] > 0

(* However calls nest and jobs requeue, a turn executes no more than was   *)
(* armed for it and brought into it by the fibers it resumed: calls and    *)
(* then-jobs cannot mint fuel.                                             *)
SpentIsGranted == spent <= granted

(* The promise of js_context_set_fuel: "nested calls and queued microtasks *)
(* all draw from the same remainder, so no amount of re-queueing extends   *)
(* it" (lamassu.h:304).                                                    *)
BudgetShared == budget # 0 => spent <= budget

(* Code that never returns by itself is stopped, unless a fiber still has  *)
(* an unlimited remainder from before a budget was armed.                  *)
TurnsEnd ==
    (Running /\ \A f \in Fibers : fuel[f] # Unlimited) ~> ~Running
=============================================================================
