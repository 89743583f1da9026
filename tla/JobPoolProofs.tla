--------------------------- MODULE JobPoolProofs ---------------------------
(***************************************************************************)
(* What the job-node reserve promises for every size of the pool: its      *)
(* counts stay counts, and as long as no more reactions are pending than a *)
(* trim keeps, each of them has its node and no settlement loses a job.    *)
(* MCJobPoolTrim.cfg shows that the condition cannot be dropped.           *)
(***************************************************************************)
EXTENDS JobPool, TLAPS

(* Every step keeps the counts natural and the pending reactions within    *)
(* their bound, whichever job it ends.                                     *)
LEMMA TypeStep ==
    TypeOK /\ [Next]_poolVars => TypeOK'
<1> SUFFICES ASSUME TypeOK, [Next]_poolVars
             PROVE  TypeOK'
    OBVIOUS
<1> USE PoolConstants DEF TypeOK, Returned
<1>1. ASSUME NEW back \in {0, 1}, Register(back)
      PROVE  TypeOK'
    BY <1>1 DEF Register
<1>2. ASSUME NEW back \in {0, 1}, RegisterSettled(back)
      PROVE  TypeOK'
    BY <1>2 DEF RegisterSettled
<1>3. ASSUME NEW back \in {0, 1}, RegisterFail(back)
      PROVE  TypeOK'
    BY <1>3 DEF RegisterFail
<1>4. ASSUME NEW back \in {0, 1}, NEW n \in 0..MaxPending, NEW made \in 0..n,
             Settle(n, made, back)
      PROVE  TypeOK'
    BY <1>4 DEF Settle
<1>5. ASSUME NEW n \in 1..MaxPending, Sweep(n)
      PROVE  TypeOK'
    BY <1>5 DEF Sweep
<1>6. CASE Start
    BY <1>6 DEF Start
<1>7. CASE Trim
    BY <1>7 DEF Trim
<1>8. CASE UNCHANGED poolVars
    BY <1>8 DEF poolVars
<1>9. QED
    BY <1>1, <1>2, <1>3, <1>4, <1>5, <1>6, <1>7, <1>8 DEF Next

(* The counts of vm->jobs_free, the queue and the running_job stack never  *)
(* go below zero, and the pending reactions stay within the bound.         *)
THEOREM PoolTypeCorrect == Spec => []TypeOK
<1>1. Init => TypeOK
    BY PoolConstants DEF Init, TypeOK
<1>2. QED
    BY <1>1, TypeStep, PTL DEF Spec

-----------------------------------------------------------------------------
(* The reserve.  NoJobLost is not inductive: whether a settlement finds a  *)
(* node for each of its reactions depends on how many are spare, which is  *)
(* what ReserveHeld says; that in turn survives a trim only because no     *)
(* more are pending than the trim keeps.                                   *)

ReserveInv == TypeOK /\ ReserveHeld /\ NoJobLost

(* A settlement that finds the reserve complete makes every job and leaves *)
(* a reserve that is complete for the reactions still pending.             *)
LEMMA SettleUsesOwnNodes ==
    ASSUME ReserveInv,
           NEW back \in {0, 1}, NEW n \in 0..MaxPending, NEW made \in 0..n,
           Settle(n, made, back)
    PROVE  ReserveHeld' /\ NoJobLost'
<1> USE PoolConstants DEF ReserveInv, TypeOK, ReserveHeld, NoJobLost, Settle
<1>1. n <= free
    OBVIOUS
<1>2. made = n
    BY <1>1
<1>3. lost' = 0
    BY <1>2
<1>4. pending' <= free'
    BY <1>1
<1>5. QED
    BY <1>3, <1>4

(* Every step keeps the reserve complete if at most FreeMax reactions are  *)
(* ever pending.                                                           *)
LEMMA ReserveStep ==
    ASSUME MaxPending <= FreeMax
    PROVE  ReserveInv /\ [Next]_poolVars => ReserveInv'
<1> SUFFICES ASSUME ReserveInv, [Next]_poolVars
             PROVE  ReserveHeld' /\ NoJobLost'
    BY TypeStep DEF ReserveInv
<1> USE PoolConstants DEF ReserveInv, TypeOK, ReserveHeld, NoJobLost, Returned
<1>1. ASSUME NEW back \in {0, 1}, Register(back)
      PROVE  ReserveHeld' /\ NoJobLost'
    BY <1>1 DEF Register
<1>2. ASSUME NEW back \in {0, 1}, RegisterSettled(back)
      PROVE  ReserveHeld' /\ NoJobLost'
    BY <1>2 DEF RegisterSettled
<1>3. ASSUME NEW back \in {0, 1}, RegisterFail(back)
      PROVE  ReserveHeld' /\ NoJobLost'
    BY <1>3 DEF RegisterFail
<1>4. ASSUME NEW back \in {0, 1}, NEW n \in 0..MaxPending, NEW made \in 0..n,
             Settle(n, made, back)
      PROVE  ReserveHeld' /\ NoJobLost'
    BY <1>4, SettleUsesOwnNodes
<1>5. ASSUME NEW n \in 1..MaxPending, Sweep(n)
      PROVE  ReserveHeld' /\ NoJobLost'
    BY <1>5 DEF Sweep
<1>6. CASE Start
    BY <1>6 DEF Start
<1>7. CASE Trim
    <2>1. pending <= FreeMax
        OBVIOUS
    <2>2. QED
        BY <1>7, <2>1 DEF Trim
<1>8. CASE UNCHANGED poolVars
    BY <1>8 DEF poolVars
<1>9. QED
    BY <1>1, <1>2, <1>3, <1>4, <1>5, <1>6, <1>7, <1>8 DEF Next

(* At any pool size, the reserve behind the pending reactions is complete: *)
(* "the reserve is never raided by anything else" (js_promise.c:215).      *)
THEOREM ReserveNeverRaided ==
    ASSUME MaxPending <= FreeMax
    PROVE  Spec => []ReserveHeld
<1>1. Init => ReserveInv
    BY PoolConstants DEF Init, ReserveInv, TypeOK, ReserveHeld, NoJobLost
<1>2. ReserveInv => ReserveHeld
    BY DEF ReserveInv
<1>3. QED
    BY <1>1, <1>2, ReserveStep, PTL DEF Spec

(* At any pool size, settling a promise never drops a job, so the branch   *)
(* that schedule_reaction calls unreachable (js_promise.c:145) is.         *)
THEOREM SettlementLosesNoJob ==
    ASSUME MaxPending <= FreeMax
    PROVE  Spec => []NoJobLost
<1>1. Init => ReserveInv
    BY PoolConstants DEF Init, ReserveInv, TypeOK, ReserveHeld, NoJobLost
<1>2. ReserveInv => NoJobLost
    BY DEF ReserveInv
<1>3. QED
    BY <1>1, <1>2, ReserveStep, PTL DEF Spec
=============================================================================
