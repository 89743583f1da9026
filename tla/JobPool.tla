------------------------------ MODULE JobPool ------------------------------
(***************************************************************************)
(* The reserve of job nodes behind the microtask queue of lamassu-js       *)
(* (src/runtime/js_promise.c).                                             *)
(*                                                                         *)
(* Settling a promise has no way to report failure, so every registered    *)
(* reaction pays in advance for the node its job will need: reaction_alloc *)
(* puts one spare node on vm->jobs_free (job_reserve) and settlement takes *)
(* one back (job_alloc).  A job that ran returns its node (job_recycle),   *)
(* and at the end of an outermost drain the list is cut down to            *)
(* JS_JOBS_FREE_MAX nodes (jobs_free_trim).                                *)
(*                                                                         *)
(* This module keeps the counts only.  Microtasks keeps the reactions and  *)
(* jobs themselves and implements this specification.                      *)
(***************************************************************************)
EXTENDS Naturals

CONSTANTS
    FreeMax,     (* JS_JOBS_FREE_MAX: nodes a trim keeps                    *)
    MaxPending,  (* bound: reactions waiting on pending promises            *)
    MaxJobs,     (* bound: jobs queued or running                           *)
    MaxFree,     (* bound: spare nodes beyond which nothing is registered   *)
    MayFail      (* whether js_realloc_raw may refuse an allocation         *)

ASSUME PoolConstants ==
    /\ FreeMax \in Nat
    /\ MaxPending \in Nat
    /\ MaxJobs \in Nat
    /\ MaxFree \in Nat
    /\ MayFail \in BOOLEAN

VARIABLES
    pending,     (* reactions linked to pending promises                    *)
    free,        (* length of vm->jobs_free                                 *)
    queued,      (* length of vm->jobs_head ... vm->jobs_tail               *)
    running,     (* depth of the vm->running_job stack                      *)
    lost         (* settled reactions for which no job could be made        *)

poolVars == <<pending, free, queued, running, lost>>

TypeOK ==
    /\ pending \in 0..MaxPending
    /\ free \in Nat
    /\ queued \in Nat
    /\ running \in Nat
    /\ lost \in Nat

Init ==
    /\ pending = 0
    /\ free = 0
    /\ queued = 0
    /\ running = 0
    /\ lost = 0

-----------------------------------------------------------------------------
(* Most steps may be the last thing a running job does.  `back` is 1 then: *)
(* js_run_jobs pops the job off running_job and recycles its node.         *)
-----------------------------------------------------------------------------

Returned(back) ==
    /\ back <= running
    /\ running' = running - back

(* Mutation: reaction_alloc without job_reserve.                           *)
RegisterUnreserved(back) ==
    /\ pending < MaxPending
    /\ free < MaxFree
    /\ pending' = pending + 1
    /\ free' = free + back
    /\ Returned(back)
    /\ UNCHANGED <<queued, lost>>

(* reaction_alloc, then add_reaction on a pending promise.                 *)
Register(back) ==
    /\ pending < MaxPending
    /\ free < MaxFree
    /\ pending' = pending + 1
    /\ free' = free + 1 + back
    /\ Returned(back)
    /\ UNCHANGED <<queued, lost>>

(* Mutation: the job of an already settled promise pops a node that nobody *)
(* reserved, without looking whether there is one.                         *)
RegisterSettledUnreserved(back) ==
    /\ free < MaxFree
    /\ queued + running < MaxJobs
    /\ queued' = queued + 1
    /\ free' = (free + back) - 1
    /\ Returned(back)
    /\ UNCHANGED <<pending, lost>>

(* reaction_alloc, then add_reaction on a settled promise: the node just   *)
(* reserved is the one the job takes.                                      *)
RegisterSettled(back) ==
    /\ free < MaxFree
    /\ queued + running < MaxJobs
    /\ queued' = queued + 1
    /\ free' = free + back
    /\ Returned(back)
    /\ UNCHANGED <<pending, lost>>

(* reaction_alloc refused: at the node, or at the reaction with the node   *)
(* already on the free list.                                               *)
RegisterFail(back) ==
    /\ MayFail
    /\ free < MaxFree
    /\ \E spare \in {0, 1} : free' = free + spare + back
    /\ Returned(back)
    /\ UNCHANGED <<pending, queued, lost>>

(* settle: one job per reaction of the promise.  The first `free` of them  *)
(* take a spare node, the others ask the allocator.                        *)
Settle(n, made, back) ==
    LET spare == IF n <= free THEN n ELSE free
    IN  /\ n <= pending
        /\ made \in spare..n
        /\ (made < n => MayFail)
        /\ queued + running + made <= MaxJobs
        /\ pending' = pending - n
        /\ queued' = queued + made
        /\ lost' = lost + (n - made)
        /\ free' = (free - spare) + back
        /\ Returned(back)

(* A collection frees pending promises nobody can reach, with their        *)
(* reactions; the nodes reserved for those stay on the free list.          *)
Sweep(n) ==
    /\ n <= pending
    /\ pending' = pending - n
    /\ UNCHANGED <<free, queued, running, lost>>

(* js_run_jobs dequeues a job onto the running_job stack.                  *)
Start ==
    /\ queued > 0
    /\ queued' = queued - 1
    /\ running' = running + 1
    /\ UNCHANGED <<pending, free, lost>>

(* Mutation: the trim keeps one node less than JS_JOBS_FREE_MAX (the test  *)
(* `kept < JS_JOBS_FREE_MAX` made after the count).                        *)
TrimOneTooMany ==
    /\ running = 0
    /\ free' = IF free < FreeMax THEN free ELSE FreeMax - 1
    /\ UNCHANGED <<pending, queued, running, lost>>

(* jobs_free_trim, run when a drain ends and no job is running.            *)
Trim ==
    /\ running = 0
    /\ free' = IF free <= FreeMax THEN free ELSE FreeMax
    /\ UNCHANGED <<pending, queued, running, lost>>

Next ==
    \/ \E back \in {0, 1} :
          \/ Register(back)
          \/ RegisterSettled(back)
          \/ RegisterFail(back)
          \/ \E n \in 0..MaxPending : \E made \in 0..n : Settle(n, made, back)
    \/ \E n \in 1..MaxPending : Sweep(n)
    \/ Start
    \/ Trim

Spec == Init /\ [][Next]_poolVars

-----------------------------------------------------------------------------
(* While no more reactions are pending than a trim keeps, every pending    *)
(* reaction has a spare node: "the reserve is never raided by anything     *)
(* else" (js_promise.c:215).  A trim while a promise is still pending is   *)
(* what could break it.                                                    *)
ReserveHeld == pending <= free

(* No settlement drops a job, so no await stays pending and no handler is  *)
(* skipped because the heap was full when its promise settled              *)
(* ("unreachable: reaction_alloc reserved this node", js_promise.c:145).   *)
NoJobLost == lost = 0
=============================================================================
