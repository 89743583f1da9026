----------------------------- MODULE FuelProofs -----------------------------
(***************************************************************************)
(* What the fuel accounting guarantees for any number of fibers, any       *)
(* budgets and any nesting: no remainder ever underflows, and a turn       *)
(* executes no more instructions than were armed for it or brought into it *)
(* by resumed fibers.                                                      *)
(***************************************************************************)
EXTENDS Fuel, TLAPS

(* The fibers on the C stack are running, and each is there once.          *)
StackSound ==
    /\ \A i \in DOMAIN stack : phase[stack[i]] = "running"
    /\ \A i, j \in DOMAIN stack : stack[i] = stack[j] => i = j

(* What code can still spend, from where it is now, was granted: one       *)
(* remainder counts, the running fiber's or at top level the context's,    *)
(* and its last unit is never executed.                                    *)
Affordable(n) == n # Unlimited => spent + n <= granted + 1

Accounted ==
    /\ SpentIsGranted
    /\ Running => Affordable(fuel[Top])
    /\ ~Running /\ budget # 0 => Affordable(left)

FuelInv == TypeOK /\ NeverUnderflows /\ StackSound /\ Accounted

-----------------------------------------------------------------------------
(* The fiber on top of the stack is a running fiber with fuel, and those   *)
(* below it are others.                                                    *)
LEMMA TopRuns ==
    ASSUME TypeOK, NeverUnderflows, StackSound, Running
    PROVE  /\ Top \in Fibers
           /\ phase[Top] = "running"
           /\ fuel[Top] > 0
           /\ Tail(stack) \in Seq(Fibers)
           /\ Tail(stack) # <<>> => Head(Tail(stack)) \in Fibers \ {Top}
           /\ \A i \in DOMAIN Tail(stack) : Tail(stack)[i] # Top
           /\ \A i \in DOMAIN Tail(stack) : phase[Tail(stack)[i]] = "running"
           /\ \A i, j \in DOMAIN Tail(stack) :
                 Tail(stack)[i] = Tail(stack)[j] => i = j
<1> USE DEF TypeOK, StackSound, Running
<1>1. Len(stack) > 0 /\ Top = stack[1] /\ Top \in Fibers
    BY DEF Top
<1>2. phase[Top] = "running" /\ fuel[Top] > 0
    BY <1>1 DEF NeverUnderflows
<1>3. Tail(stack) \in Seq(Fibers) /\ Len(Tail(stack)) = Len(stack) - 1
    BY <1>1
<1>4. \A i \in DOMAIN Tail(stack) :
         i + 1 \in DOMAIN stack /\ Tail(stack)[i] = stack[i + 1]
    BY <1>1, <1>3
<1>5. \A i \in DOMAIN Tail(stack) : i \in Nat /\ i + 1 # 1
    BY <1>3
<1>6. \A i \in DOMAIN Tail(stack) : Tail(stack)[i] # Top
    BY <1>1, <1>4, <1>5
<1>7. \A i \in DOMAIN Tail(stack) : phase[Tail(stack)[i]] = "running"
    BY <1>4
<1>8. \A i, j \in DOMAIN Tail(stack) : Tail(stack)[i] = Tail(stack)[j] => i = j
    BY <1>4, <1>5
<1>9. Tail(stack) # <<>> => Head(Tail(stack)) \in Fibers \ {Top}
    <2> SUFFICES ASSUME Tail(stack) # <<>>
                 PROVE  Head(Tail(stack)) \in Fibers \ {Top}
        OBVIOUS
    <2>1. 1 \in DOMAIN Tail(stack) /\ Head(Tail(stack)) = Tail(stack)[1]
        BY <1>3
    <2>2. Tail(stack)[1] \in Fibers
        BY <1>3, <2>1
    <2>3. Tail(stack)[1] # Top
        BY <1>6, <2>1
    <2>4. QED
        BY <2>1, <2>2, <2>3
<1>10. QED
    BY <1>1, <1>2, <1>3, <1>6, <1>7, <1>8, <1>9

(* A fiber that enters the interpreter goes on a sound stack.              *)
LEMMA PushSound ==
    ASSUME TypeOK, StackSound, NEW f \in Fibers, phase[f] # "running",
           stack' = <<f>> \o stack,
           phase' = [phase EXCEPT ![f] = "running"]
    PROVE  StackSound' /\ stack' \in Seq(Fibers) /\ Running' /\ Top' = f
<1> USE DEF TypeOK, StackSound
<1>1. stack' \in Seq(Fibers) /\ Len(stack') = Len(stack) + 1 /\ stack'[1] = f
    OBVIOUS
<1>2. \A i \in DOMAIN stack' :
         i # 1 => i - 1 \in DOMAIN stack /\ stack'[i] = stack[i - 1]
    BY <1>1
<1>3. \A i \in DOMAIN stack : stack[i] # f /\ stack[i] \in Fibers
    OBVIOUS
<1>4. \A i \in DOMAIN stack' : phase'[stack'[i]] = "running"
    BY <1>1, <1>2, <1>3
<1>5. \A i, j \in DOMAIN stack' : stack'[i] = stack'[j] => i = j
    BY <1>1, <1>2, <1>3
<1>6. Running' /\ Top' = f
    BY <1>1 DEF Running, Top
<1>7. QED
    BY <1>1, <1>4, <1>5, <1>6

(* Handing back n leaves n, and nothing else that is new, with whoever     *)
(* goes on.                                                                *)
LEMMA HandBackLeaves ==
    ASSUME NEW table \in [Fibers -> Nat], NEW n \in Nat, NEW below \in Seq(Fibers),
           left \in Nat, HandBack(table, n, below)
    PROVE  /\ fuel' \in [Fibers -> Nat]
           /\ left' \in Nat
           /\ \A g \in Fibers : fuel'[g] = table[g] \/ fuel'[g] = n
           /\ below # <<>> => fuel'[Head(below)] = n
           /\ below = <<>> /\ budget # 0 => left' = n
<1>1. CASE below # <<>>
    <2>1. Head(below) \in Fibers
        BY <1>1
    <2>2. fuel' = [table EXCEPT ![Head(below)] = n] /\ left' = left
        BY <1>1 DEF HandBack
    <2>3. QED
        BY <1>1, <2>1, <2>2
<1>2. CASE below = <<>>
    BY <1>2 DEF HandBack
<1>3. QED
    BY <1>1, <1>2

(* The books balance after a step when whoever goes on, a fiber or the     *)
(* context, does so with a granted remainder n.                            *)
LEMMA AccountedNext ==
    ASSUME spent' <= granted',
           NEW n, n # Unlimited => spent' + n <= granted' + 1,
           Running' => fuel'[Top'] = n,
           ~Running' /\ budget' # 0 => left' = n
    PROVE  Accounted'
BY DEF Accounted, Affordable, SpentIsGranted

(* advance_fiber on a fiber that is not running, with a remainder n that   *)
(* was granted; it may fail at once.                                       *)
LEMMA AdvanceInv ==
    ASSUME FuelInv,
           NEW f \in Fibers, phase[f] # "running", NEW n \in Nat \ {0},
           Advance(f, n) \/ Ended(f, n),
           UNCHANGED <<budget, interrupt, spent>>,
           granted' \in Nat, granted' >= granted,
           n # Unlimited => spent + n <= granted' + 1
    PROVE  FuelInv'
<1> USE DEF FuelInv, TypeOK
<1> DEFINE table == [fuel EXCEPT ![f] = n]
<1>1. table \in [Fibers -> Nat]
    OBVIOUS
<1>2. spent' <= granted' /\ (n # Unlimited => spent' + n <= granted' + 1)
    <2>1. spent \in Nat /\ granted \in Nat /\ spent <= granted
        BY DEF Accounted, SpentIsGranted
    <2>2. spent' = spent
        OBVIOUS
    <2>3. spent' <= granted'
        BY <2>1, <2>2
    <2>4. n # Unlimited => spent' + n <= granted' + 1
        BY <2>2
    <2>5. QED
        BY <2>3, <2>4
<1>3. CASE /\ stack' = <<f>> \o stack
           /\ phase' = [phase EXCEPT ![f] = "running"]
           /\ fuel' = table
           /\ left' = left
    <2>1. StackSound' /\ stack' \in Seq(Fibers) /\ Running' /\ Top' = f
        BY <1>3, PushSound
    <2>2. TypeOK'
        BY <1>1, <1>3, <2>1
    <2>3. NeverUnderflows'
        BY <1>3 DEF NeverUnderflows
    <2>4. fuel'[Top'] = n
        BY <1>3, <2>1
    <2>5. Accounted'
        BY <1>2, <2>1, <2>4, AccountedNext
    <2>6. QED
        BY <2>1, <2>2, <2>3, <2>5
<1>4. CASE /\ phase' = [phase EXCEPT ![f] = "done"]
           /\ HandBack(table, n, stack)
           /\ stack' = stack
    <2>1. PICK below \in Seq(Fibers) : below = stack
        OBVIOUS
    <2>2. HandBack(table, n, below)
        BY <1>4, <2>1
    <2>3. /\ fuel' \in [Fibers -> Nat]
          /\ left' \in Nat
          /\ \A g \in Fibers : fuel'[g] = table[g] \/ fuel'[g] = n
          /\ stack # <<>> => fuel'[Head(stack)] = n
          /\ stack = <<>> /\ budget # 0 => left' = n
        BY <1>1, <2>1, <2>2, HandBackLeaves
    <2>4. TypeOK'
        BY <1>4, <2>3
    <2>5. NeverUnderflows'
        BY <1>4, <2>3, n > 0 DEF NeverUnderflows
    <2>6. StackSound'
        BY <1>4 DEF StackSound
    <2>7. /\ Running' => fuel'[Top'] = n
          /\ ~Running' /\ budget' # 0 => left' = n
        BY <1>4, <2>3 DEF Running, Top
    <2>8. Accounted'
        BY <1>2, <2>7, AccountedNext
    <2>9. QED
        BY <2>4, <2>5, <2>6, <2>8
<1>5. QED
    BY <1>3, <1>4 DEF Advance, Ended

(* What spawn_fiber gives a new fiber is positive and was granted.         *)
LEMMA ShareGranted ==
    ASSUME FuelInv
    PROVE  /\ Share \in Nat \ {0}
           /\ Share # Unlimited => spent + Share <= granted + 1
<1> USE FuelConstants DEF FuelInv, TypeOK, Accounted, Affordable, SpentIsGranted
<1>1. CASE Running
    BY <1>1, TopRuns DEF Share
<1>2. CASE ~Running
    BY <1>2 DEF Share
<1>3. QED
    BY <1>1, <1>2

(* The fiber on top leaves the stack and hands back n, its remainder.      *)
LEMMA PopInv ==
    ASSUME FuelInv, Running,
           NEW n \in Nat \ {0}, NEW table \in [Fibers -> Nat],
           \A g \in Fibers : table[g] = fuel[g] \/ table[g] = n,
           NEW how \in {"parked", "done"},
           phase' = [phase EXCEPT ![Top] = how],
           stack' = Tail(stack),
           HandBack(table, n, Tail(stack)),
           UNCHANGED <<budget, interrupt, granted>>,
           spent' \in Nat, spent' <= granted,
           n # Unlimited => spent' + n <= granted + 1
    PROVE  FuelInv'
<1> USE DEF FuelInv, TypeOK
<1>1. /\ Top \in Fibers
      /\ Tail(stack) \in Seq(Fibers)
      /\ \A i \in DOMAIN Tail(stack) : Tail(stack)[i] # Top
      /\ \A i \in DOMAIN Tail(stack) : phase[Tail(stack)[i]] = "running"
      /\ \A i, j \in DOMAIN Tail(stack) : Tail(stack)[i] = Tail(stack)[j] => i = j
    BY TopRuns
<1>2. PICK below \in Seq(Fibers) : below = Tail(stack)
    BY <1>1
<1>3. /\ fuel' \in [Fibers -> Nat]
      /\ left' \in Nat
      /\ \A g \in Fibers : fuel'[g] = table[g] \/ fuel'[g] = n
      /\ below # <<>> => fuel'[Head(below)] = n
      /\ below = <<>> /\ budget # 0 => left' = n
    BY <1>2, HandBackLeaves
<1>4. TypeOK'
    BY <1>1, <1>3
<1>5. NeverUnderflows'
    <2> SUFFICES ASSUME NEW g \in Fibers, phase'[g] \in {"running", "parked"}
                 PROVE  fuel'[g] > 0
        BY DEF NeverUnderflows
    <2>1. fuel[g] > 0
        <3>1. CASE g = Top
            BY <3>1, TopRuns
        <3>2. CASE g # Top
            BY <1>1, <3>2 DEF NeverUnderflows
        <3>3. QED
            BY <3>1, <3>2
    <2>2. fuel'[g] = fuel[g] \/ fuel'[g] = n
        BY <1>3
    <2>3. QED
        BY <2>1, <2>2, n > 0
<1>6. StackSound'
    <2>1. \A i \in DOMAIN below : phase'[below[i]] = phase[below[i]]
        BY <1>1, <1>2
    <2>2. QED
        BY <1>1, <1>2, <2>1 DEF StackSound
<1>7. /\ Running' => fuel'[Top'] = n
      /\ ~Running' /\ budget' # 0 => left' = n
    BY <1>2, <1>3 DEF Running, Top
<1>8. Accounted'
    BY <1>7, AccountedNext
<1>9. QED
    BY <1>4, <1>5, <1>6, <1>8

-----------------------------------------------------------------------------
(* One instruction that is let through: it is charged, and what is left    *)
(* stays positive and granted.                                             *)
LEMMA ChargedLeaves ==
    ASSUME FuelInv, Charged
    PROVE  /\ Less(fuel[Top]) \in Nat \ {0}
           /\ spent' \in Nat
           /\ spent' <= granted
           /\ Less(fuel[Top]) # Unlimited => spent' + Less(fuel[Top]) <= granted + 1
<1> USE DEF FuelInv, TypeOK, Accounted, Affordable, SpentIsGranted
<1>1. Top \in Fibers /\ fuel[Top] \in Nat /\ fuel[Top] > 1 /\ Running
    BY TopRuns DEF Charged
<1>2. CASE fuel[Top] = Unlimited
    BY <1>1, <1>2 DEF Charged, Less
<1>3. CASE fuel[Top] # Unlimited
    <2>1. spent' = spent + 1 /\ Less(fuel[Top]) = fuel[Top] - 1
        BY <1>3 DEF Charged, Less
    <2>2. spent + fuel[Top] <= granted + 1
        BY <1>1, <1>3
    <2>3. QED
        BY <1>1, <2>1, <2>2
<1>4. QED
    BY <1>2, <1>3

(* Every step keeps the accounts.                                          *)
LEMMA FuelStep ==
    FuelInv /\ [Next]_vars => FuelInv'
<1> SUFFICES ASSUME FuelInv, [Next]_vars
             PROVE  FuelInv'
    OBVIOUS
<1> USE FuelConstants DEF FuelInv, TypeOK
<1>1. ASSUME NEW n \in Budgets, SetFuel(n)
      PROVE  FuelInv'
    BY <1>1 DEF SetFuel, NeverUnderflows, StackSound, Accounted, Affordable,
                SpentIsGranted, Running, Top
<1>2. ASSUME NEW f \in Fibers, Spawn(f)
      PROVE  FuelInv'
    <2>1. PICK n \in Nat \ {0} : n = Share
        BY ShareGranted
    <2>2. phase[f] # "running" /\ Advance(f, n)
        BY <1>2, <2>1 DEF Spawn
    <2>3. UNCHANGED <<budget, interrupt, spent, granted>>
        BY <1>2 DEF Spawn
    <2>4. n # Unlimited => spent + n <= granted' + 1
        BY <2>1, <2>3, ShareGranted
    <2>5. granted' \in Nat /\ granted' >= granted
        BY <2>3
    <2>6. QED
        BY <2>2, <2>3, <2>4, <2>5, AdvanceInv
<1>3. ASSUME NEW f \in Fibers, Resume(f)
      PROVE  FuelInv'
    <2>1. PICK n \in Nat \ {0} : n = fuel[f]
        BY <1>3 DEF Resume, NeverUnderflows
    <2>2. phase[f] # "running"
        BY <1>3 DEF Resume
    <2>3. Advance(f, n) \/ Ended(f, n)
        <3>1. CASE Advance(f, fuel[f])
            BY <2>1, <3>1
        <3>2. CASE Ended(f, fuel[f])
            BY <2>1, <3>2
        <3>3. QED
            BY <1>3, <3>1, <3>2 DEF Resume
    <2>4. /\ UNCHANGED <<budget, interrupt, spent>>
          /\ granted' = IF n = Unlimited THEN granted ELSE granted + n
        BY <1>3, <2>1 DEF Resume
    <2>5. granted' \in Nat /\ granted' >= granted
        BY <2>4
    <2>6. spent <= granted
        BY DEF Accounted, SpentIsGranted
    <2>7. n # Unlimited => spent + n <= granted' + 1
        BY <2>4, <2>6
    <2>8. QED
        BY <2>2, <2>3, <2>4, <2>5, <2>7, AdvanceInv
<1>4. ASSUME Execute
      PROVE  FuelInv'
    <2>1. Charged /\ UNCHANGED <<left, phase, stack>>
        BY <1>4 DEF Execute
    <2>2. Running /\ UNCHANGED <<budget, interrupt, granted>>
        BY <2>1 DEF Charged
    <2>3. PICK n \in Nat \ {0} : n = Less(fuel[Top])
        BY <2>1, ChargedLeaves
    <2>4. /\ Top \in Fibers
          /\ fuel' = [fuel EXCEPT ![Top] = n]
        BY <1>4, <2>2, <2>3, TopRuns DEF Execute
    <2>5. /\ spent' \in Nat
          /\ spent' <= granted'
          /\ n # Unlimited => spent' + n <= granted' + 1
        BY <2>1, <2>2, <2>3, ChargedLeaves
    <2>6. Running' /\ Top' = Top /\ fuel'[Top'] = n
        BY <2>1, <2>2, <2>4 DEF Running, Top
    <2>7. TypeOK'
        BY <2>1, <2>2, <2>4, <2>5
    <2>8. NeverUnderflows'
        BY <2>1, <2>4, n > 0 DEF NeverUnderflows
    <2>9. StackSound'
        BY <2>1 DEF StackSound
    <2>10. Accounted'
        BY <2>5, <2>6, AccountedNext
    <2>11. QED
        BY <2>7, <2>8, <2>9, <2>10
<1>5. ASSUME NEW how \in {"parked", "done"}, Yield(how)
      PROVE  FuelInv'
    <2>1. Charged
        BY <1>5 DEF Yield
    <2>2. Running /\ UNCHANGED <<budget, interrupt, granted>>
        BY <2>1 DEF Charged
    <2>3. PICK n \in Nat \ {0} : n = Less(fuel[Top])
        BY <2>1, ChargedLeaves
    <2>4. PICK table \in [Fibers -> Nat] : table = [fuel EXCEPT ![Top] = n]
        BY <2>2, TopRuns
    <2>5. /\ phase' = [phase EXCEPT ![Top] = how]
          /\ stack' = Tail(stack)
          /\ HandBack(table, n, Tail(stack))
        BY <1>5, <2>3, <2>4 DEF Yield
    <2>6. \A g \in Fibers : table[g] = fuel[g] \/ table[g] = n
        BY <2>4
    <2>7. /\ spent' \in Nat
          /\ spent' <= granted
          /\ n # Unlimited => spent' + n <= granted + 1
        BY <2>1, <2>3, ChargedLeaves
    <2>8. QED
        BY <2>2, <2>5, <2>6, <2>7, PopInv
<1>6. ASSUME Stopped
      PROVE  FuelInv'
    <2>1. Running /\ UNCHANGED <<budget, interrupt, spent, granted>>
        BY <1>6 DEF Stopped
    <2>2. PICK n \in Nat \ {0} : n = fuel[Top]
        BY <2>1, TopRuns
    <2>3. PICK table \in [Fibers -> Nat] : table = fuel
        OBVIOUS
    <2>4. /\ phase' = [phase EXCEPT ![Top] = "done"]
          /\ stack' = Tail(stack)
          /\ HandBack(table, n, Tail(stack))
        BY <1>6, <2>2, <2>3 DEF Stopped
    <2>5. \A g \in Fibers : table[g] = fuel[g] \/ table[g] = n
        BY <2>3
    <2>6. /\ spent' \in Nat
          /\ spent' <= granted
          /\ n # Unlimited => spent' + n <= granted + 1
        BY <2>1, <2>2 DEF Accounted, Affordable, SpentIsGranted
    <2>7. QED
        BY <2>1, <2>4, <2>5, <2>6, PopInv
<1>7. ASSUME Interrupt \/ ClearInterrupt \/ UNCHANGED vars
      PROVE  FuelInv'
    BY <1>7 DEF Interrupt, ClearInterrupt, vars, NeverUnderflows, StackSound,
                Accounted, Affordable, SpentIsGranted, Running, Top
<1>8. QED
    BY <1>1, <1>2, <1>3, <1>4, <1>5, <1>6, <1>7 DEF Next, RunCode

(* A fresh context has nothing running and nothing spent.                  *)
LEMMA FuelInit == Init => FuelInv
<1> SUFFICES ASSUME Init
             PROVE  FuelInv
    OBVIOUS
<1> USE DEF Init
<1>1. TypeOK
    <2>1. stack \in Seq(Fibers)
        OBVIOUS
    <2>2. fuel \in [Fibers -> Nat]
        OBVIOUS
    <2>3. phase \in [Fibers -> {"new", "running", "parked", "done"}]
        OBVIOUS
    <2>4. QED
        BY <2>1, <2>2, <2>3 DEF TypeOK
<1>2. ~Running /\ DOMAIN stack = {}
    BY DEF Running
<1>3. NeverUnderflows /\ StackSound
    BY <1>2 DEF NeverUnderflows, StackSound
<1>4. Accounted
    BY <1>2 DEF Accounted, SpentIsGranted
<1>5. QED
    BY <1>1, <1>3, <1>4 DEF FuelInv

(* The remainders stay natural numbers and the C stack a sequence of       *)
(* fibers.                                                                 *)
THEOREM FuelTypeCorrect == Spec => []TypeOK
<1>1. FuelInv => TypeOK
    BY DEF FuelInv
<1>2. QED
    BY <1>1, FuelInit, FuelStep, PTL DEF Spec

(* At no budget and no nesting does a fiber reach a remainder of 0, which  *)
(* the next instruction would turn into an unlimited budget                *)
(* (js_interp.c:2168).                                                     *)
THEOREM FuelNeverUnderflows == Spec => []NeverUnderflows
<1>1. FuelInv => NeverUnderflows
    BY DEF FuelInv
<1>2. QED
    BY <1>1, FuelInit, FuelStep, PTL DEF Spec

(* A turn executes no more instructions than its budget and the remainders *)
(* of the fibers resumed in it: neither nested calls nor then-jobs extend  *)
(* it.  What resumed fibers bring is why BudgetShared fails.               *)
THEOREM TurnsSpendWhatTheyAreGranted == Spec => []SpentIsGranted
<1>1. FuelInv => SpentIsGranted
    BY DEF FuelInv, Accounted
<1>2. QED
    BY <1>1, FuelInit, FuelStep, PTL DEF Spec
=============================================================================
