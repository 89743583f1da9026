----------------------------- MODULE Microtasks -----------------------------
(***************************************************************************)
(* Promises, reactions, the microtask queue and the async fibers it        *)
(* resumes (src/runtime/js_promise.c; advance_fiber, js_resume_fiber,      *)
(* call_async and the AWAIT opcode of src/runtime/js_interp.c).            *)
(*                                                                         *)
(* Everything runs on one C stack, but on that stack drains nest: a job's  *)
(* handler may run a module, which drains the same queue again.  `stack`   *)
(* is that C stack, innermost activation first; its job frames are the     *)
(* vm->running_job list.  Between two steps of the handler on top, the     *)
(* guest or a native may register reactions, settle any promise it can     *)
(* reach, start an async function, or drain.                               *)
(***************************************************************************)
EXTENDS Naturals, Sequences, FiniteSets, SequencesExt

CONSTANTS
    Promises,      (* promise cells                                         *)
    Fibers,        (* async fibers                                          *)
    Plain,         (* values that are not promises                          *)
    Undefined,     (* the value of a promise that has none yet              *)
    EngineError,   (* an error the engine itself raises                     *)
    NoPromise, NoFiber, NoJob,
    Resolutions,   (* bound: what code resolves promises with               *)
    Reasons,       (* bound: what code rejects promises with                *)
    HandlerPairs,  (* bound: the <<onFulfilled, onRejected>> passed to then *)
    MaxReactions,  (* bound: reactions ever registered                      *)
    MaxFree,       (* bound: spare nodes a refused allocation leaves behind *)
    FreeMax,       (* JS_JOBS_FREE_MAX                                      *)
    MaxReentry,    (* JS_MAX_REENTRY                                        *)
    MayFail,       (* whether js_realloc_raw may refuse an allocation       *)
    MayInterrupt   (* whether the host may call js_vm_interrupt             *)

Values == Plain \cup Promises

(* A handler is a guest function, run by the interpreter; a native or      *)
(* bound library function, run by C; or not callable at all.               *)
Handlers == {"interp", "native", "none"}

ASSUME MicrotaskConstants ==
    /\ Plain \cap Promises = {}
    /\ {Undefined, EngineError} \subseteq Plain
    /\ NoPromise \notin Promises
    /\ NoFiber \notin Fibers
    /\ Resolutions \subseteq Values
    /\ Reasons \subseteq Values
    /\ HandlerPairs \subseteq Handlers \X Handlers
    /\ {MaxReactions, MaxFree, FreeMax, MaxReentry} \subseteq Nat
    /\ {MayFail, MayInterrupt} \subseteq BOOLEAN

VARIABLES
    state,         (* JsPromise.state; "absent" before js_promise_alloc     *)
    value,         (* JsPromise.value                                       *)
    reactions,     (* JsPromise.reactions, most recently attached first     *)
    queue,         (* vm->jobs_head ... vm->jobs_tail                       *)
    free,          (* length of vm->jobs_free                               *)
    stack,         (* C activations, innermost first                        *)
    interrupt,     (* vm->interrupt                                         *)
    fstate,        (* where each async fiber is                             *)
    fpromise,      (* JsFiber.result_promise                                *)
    nextId,        (* history: number of the next reaction                  *)
    derived,       (* history: promises that js_promise_then returned       *)
    done           (* history: reactions whose job has run to its end       *)

promiseVars == <<state, value, reactions>>
fiberVars == <<fstate, fpromise>>
vars == <<state, value, reactions, queue, free, stack, interrupt, fstate,
          fpromise, nextId, derived, done>>

(* The fibers call_async has made.                                         *)
Called == {f \in Fibers : fpromise[f] \in Promises}

(* JsReaction; `id` numbers it in order of registration and `on` is the    *)
(* promise it was registered on.                                           *)
ThenReactions ==
    [id: Nat, on: Promises, kind: {"then"}, onF: Handlers, onR: Handlers,
     result: Promises, fiber: {NoFiber}]

AwaitReactions ==
    [id: Nat, on: Promises, kind: {"await"}, onF: {"none"}, onR: {"none"},
     result: {NoPromise}, fiber: Called]

Reaction == ThenReactions \cup AwaitReactions

(* JsJob: a reaction with the settlement it reacts to.                     *)
Job == [rx: Reaction, fulfilled: BOOLEAN, value: Values]

(* What is on the C stack: an activation of js_run_jobs, the first stretch *)
(* of an async call, or a job.  A body is "interp" inside run_fiber,       *)
(* "native" inside a native, "none" when there is nothing to call, "deep"  *)
(* when advance_fiber refuses to enter the interpreter.                    *)
DrainFrames ==
    [kind: {"drain"}, body: {"drain"}, job: {NoJob}, fiber: {NoFiber}]

CallFrames ==
    [kind: {"call"}, body: {"interp"}, job: {NoJob}, fiber: Called]

JobFrames ==
    {frame \in [kind: {"job"}, body: {"interp", "native", "none", "deep"},
                job: Job, fiber: Called \cup {NoFiber}] :
        frame.fiber = frame.job.rx.fiber}

Frame == DrainFrames \cup CallFrames \cup JobFrames

PromisesOK ==
    /\ state \in [Promises -> {"absent", "pending", "fulfilled", "rejected"}]
    /\ value \in [Promises -> Values]
    /\ reactions \in [Promises -> Seq(Reaction)]

QueueOK ==
    /\ queue \in Seq(Job)
    /\ free \in Nat
    /\ nextId \in Nat

StackOK ==
    /\ stack \in Seq(Frame)
    /\ done \subseteq Nat

FibersOK ==
    /\ fstate \in [Fibers -> {"none", "running", "suspended", "done"}]
    /\ fpromise \in [Fibers -> Promises \cup {NoPromise}]

(* A fiber that a reaction, a job or an activation refers to has a result  *)
(* promise.                                                                *)
TypeOK ==
    /\ PromisesOK
    /\ QueueOK
    /\ StackOK
    /\ FibersOK
    /\ interrupt \in BOOLEAN
    /\ derived \subseteq Promises

Init ==
    /\ state = [p \in Promises |-> "absent"]
    /\ value = [p \in Promises |-> Undefined]
    /\ reactions = [p \in Promises |-> <<>>]
    /\ queue = <<>>
    /\ free = 0
    /\ stack = <<>>
    /\ interrupt = FALSE
    /\ fstate = [f \in Fibers |-> "none"]
    /\ fpromise = [f \in Fibers |-> NoPromise]
    /\ nextId = 1
    /\ derived = {}
    /\ done = {}

-----------------------------------------------------------------------------
(* The C stack                                                             *)

(* With nothing on the stack the host itself runs, as free as any native.  *)
Host == [kind |-> "host", body |-> "native", job |-> NoJob, fiber |-> NoFiber]

Top == IF stack = <<>> THEN Host ELSE Head(stack)

(* ctx->reentry_depth                                                      *)
Depth == Cardinality({i \in DOMAIN stack : stack[i].body = "interp"})

Draining == Top.kind = "drain"

(* Code that can call into the engine: the host between turns, a native,   *)
(* or guest code, which an interrupt stops at its next instruction.        *)
CodeRuns == Top.body = "native" \/ (Top.body = "interp" /\ ~interrupt)

(* A value that code can hold: a promise must have been allocated.         *)
Known(v) == v \in Plain \/ (v \in Promises /\ state[v] # "absent")

RunningJobs == {i \in DOMAIN stack : stack[i].kind = "job"}

(* The node a step gives back when it is the last step of a job.           *)
Back == IF Top.kind = "job" THEN 1 ELSE 0

(* The activation on top returns; a job is popped off running_job and      *)
(* recycled.                                                               *)
Leave ==
    /\ stack' = Tail(stack)
    /\ done' = IF Top.kind = "job" THEN done \cup {Top.job.rx.id} ELSE done

-----------------------------------------------------------------------------
(* Settlement and registration.  The operators below leave `back` nodes    *)
(* more on the free list: 0, or Back when the step ends a job.             *)

JobOf(rx, outcome, v) ==
    [rx |-> rx, fulfilled |-> outcome = "fulfilled", value |-> v]

(* Which of n reactions get a job, in order: the first `free` of them take *)
(* a spare node, and for each of the others job_alloc may be refused one.  *)
Served(n) ==
    IF free >= n \/ ~MayFail
    THEN {[i \in 1..n |-> i]}
    ELSE {pick \in UNION {[1..m -> 1..n] : m \in free..n} :
             /\ \A i \in 1..free : pick[i] = i
             /\ \A i, j \in DOMAIN pick : i < j => pick[i] < pick[j]}

(* Mutation: no guard against a second settlement.                         *)
ResettleAlways(p, outcome, v, back) ==
    LET rxs == Reverse(reactions[p])
    IN  /\ state' = [state EXCEPT ![p] = outcome]
        /\ value' = [value EXCEPT ![p] = v]
        /\ reactions' = [reactions EXCEPT ![p] = <<>>]
        /\ queue' = queue \o [i \in 1..Len(rxs) |-> JobOf(rxs[i], outcome, v)]
        /\ free' = (IF Len(rxs) <= free THEN free - Len(rxs) ELSE 0) + back
        /\ UNCHANGED nextId

(* Mutation: the reaction list is walked as it was built, newest first.    *)
SettleUnreversed(p, outcome, v, back) ==
    \/ /\ state[p] # "pending"
       /\ free' = free + back
       /\ UNCHANGED <<promiseVars, queue, nextId>>
    \/ /\ state[p] = "pending"
       /\ state' = [state EXCEPT ![p] = outcome]
       /\ value' = [value EXCEPT ![p] = v]
       /\ reactions' = [reactions EXCEPT ![p] = <<>>]
       /\ queue' = queue \o [i \in 1..Len(reactions[p]) |->
                                JobOf(reactions[p][i], outcome, v)]
       /\ free' = (IF Len(reactions[p]) <= free
                   THEN free - Len(reactions[p]) ELSE 0) + back
       /\ UNCHANGED nextId

(* settle: only the first call settles; it turns every reaction of p into  *)
(* a job, in the order they were attached.                                 *)
Settle(p, outcome, v, back) ==
    \/ /\ state[p] # "pending"
       /\ free' = free + back
       /\ UNCHANGED <<promiseVars, queue, nextId>>
    \/ /\ state[p] = "pending"
       /\ state' = [state EXCEPT ![p] = outcome]
       /\ value' = [value EXCEPT ![p] = v]
       /\ reactions' = [reactions EXCEPT ![p] = <<>>]
       /\ LET rxs == Reverse(reactions[p])
              n == Len(rxs)
          IN  /\ \E pick \in Served(n) :
                    queue' = queue \o [i \in DOMAIN pick |->
                                          JobOf(rxs[pick[i]], outcome, v)]
              /\ free' = (IF n <= free THEN free - n ELSE 0) + back
       /\ UNCHANGED nextId

(* Mutation: reaction_alloc without job_reserve; a job pops whatever node  *)
(* there should be.                                                        *)
SubscribeUnreserved(p, outcome, v, rx, back) ==
    /\ nextId <= MaxReactions
    /\ nextId' = nextId + 1
    /\ \/ /\ outcome = "pending"
          /\ reactions' = [reactions EXCEPT ![p] = <<rx>> \o @]
          /\ free' = free + back
          /\ UNCHANGED queue
       \/ /\ outcome \in {"fulfilled", "rejected"}
          /\ queue' = Append(queue, JobOf(rx, outcome, v))
          /\ free' = (free + back) - 1
          /\ UNCHANGED reactions

(* Mutation: add_reaction parks the reaction whatever the state of p.      *)
SubscribeParking(p, outcome, v, rx, back) ==
    /\ nextId <= MaxReactions
    /\ nextId' = nextId + 1
    /\ reactions' = [reactions EXCEPT ![p] = <<rx>> \o @]
    /\ free' = free + 1 + back
    /\ UNCHANGED queue

(* reaction_alloc and add_reaction: the reserved node goes to the free     *)
(* list, or straight into a job when p, whose state is `outcome` and whose *)
(* value is `v`, is settled already.                                       *)
Subscribe(p, outcome, v, rx, back) ==
    /\ nextId <= MaxReactions
    /\ nextId' = nextId + 1
    /\ \/ /\ outcome = "pending"
          /\ reactions' = [reactions EXCEPT ![p] = <<rx>> \o @]
          /\ free' = free + 1 + back
          /\ UNCHANGED queue
       \/ /\ outcome \in {"fulfilled", "rejected"}
          /\ queue' = Append(queue, JobOf(rx, outcome, v))
          /\ free' = free + back
          /\ UNCHANGED reactions

(* reaction_alloc refused at the node, or at the reaction with the node    *)
(* already on the free list.                                               *)
Refused(back) ==
    /\ MayFail
    /\ \/ free' = free + back
       \/ free < MaxFree /\ free' = free + 1 + back
    /\ UNCHANGED <<reactions, queue, nextId>>

ThenReaction(p, onF, onR, r) ==
    [id |-> nextId, on |-> p, kind |-> "then", onF |-> onF, onR |-> onR,
     result |-> r, fiber |-> NoFiber]

AwaitReaction(p, f) ==
    [id |-> nextId, on |-> p, kind |-> "await", onF |-> "none",
     onR |-> "none", result |-> NoPromise, fiber |-> f]

(* Mutation: fulfil with whatever was passed, promise or not.              *)
FulfilWith(p, v, back) == Settle(p, "fulfilled", v, back)

(* Mutation: adoption subscribes nothing when p is not the value itself.   *)
ResolveWithoutAdopting(p, v, back) ==
    \/ /\ v \notin Promises
       /\ Settle(p, "fulfilled", v, back)
    \/ /\ v \in Promises
       /\ free' = free + back
       /\ UNCHANGED <<promiseVars, queue, nextId>>

(* js_promise_resolve_with: p adopts a promise by a pass-through reaction, *)
(* refuses itself, and is fulfilled with anything else.  When the reaction *)
(* cannot be allocated nothing happens and nobody is told.                 *)
ResolveWith(p, v, back) ==
    \/ /\ v \notin Promises
       /\ Settle(p, "fulfilled", v, back)
    \/ /\ v = p
       /\ Settle(p, "rejected", EngineError, back)
    \/ /\ v \in Promises \ {p}
       /\ \/ Subscribe(v, state[v], value[v],
                       ThenReaction(v, "none", "none", p), back)
          \/ Refused(back)
       /\ UNCHANGED <<state, value>>

-----------------------------------------------------------------------------
(* What the host, a native or guest code does                              *)

(* js_promise_new, Promise.resolve and Promise.reject of a fresh promise.  *)
NewPromise(p) ==
    /\ CodeRuns
    /\ state[p] = "absent"
    /\ state' = [state EXCEPT ![p] = "pending"]
    /\ UNCHANGED <<value, reactions, queue, free, stack, interrupt, fiberVars,
                   nextId, derived, done>>

(* js_promise_then (then, catch, finally, Promise.all ... and race).       *)
Then(p, onF, onR, r) ==
    /\ CodeRuns
    /\ state[p] # "absent"
    /\ state[r] = "absent"
    /\ Subscribe(p, state[p], value[p], ThenReaction(p, onF, onR, r), 0)
    /\ state' = [state EXCEPT ![r] = "pending"]
    /\ derived' = derived \cup {r}
    /\ UNCHANGED <<value, stack, interrupt, fiberVars, done>>

(* The same, out of memory: the caller gets NULL and throws.               *)
ThenRefused ==
    /\ CodeRuns
    /\ Refused(0)
    /\ UNCHANGED <<state, value, stack, interrupt, fiberVars, derived, done>>

(* js_resolve, and the resolve function a Promise executor is given.       *)
Resolve(p, v) ==
    /\ CodeRuns
    /\ state[p] # "absent"
    /\ Known(v)
    /\ ResolveWith(p, v, 0)
    /\ UNCHANGED <<stack, interrupt, fiberVars, derived, done>>

(* js_reject, and the reject function a Promise executor is given.         *)
Reject(p, reason) ==
    /\ CodeRuns
    /\ state[p] # "absent"
    /\ Known(reason)
    /\ Settle(p, "rejected", reason, 0)
    /\ UNCHANGED <<stack, interrupt, fiberVars, derived, done>>

(* call_async: a fresh fiber with a fresh result promise runs its first    *)
(* stretch at once; past JS_MAX_REENTRY advance_fiber rejects it instead.  *)
CallAsync(f, p) ==
    /\ CodeRuns
    /\ fstate[f] = "none"
    /\ state[p] = "absent"
    /\ fpromise' = [fpromise EXCEPT ![f] = p]
    /\ \/ /\ Depth < MaxReentry
          /\ state' = [state EXCEPT ![p] = "pending"]
          /\ fstate' = [fstate EXCEPT ![f] = "running"]
          /\ stack' = <<[kind |-> "call", body |-> "interp", job |-> NoJob,
                         fiber |-> f]>> \o stack
          /\ UNCHANGED value
       \/ /\ Depth >= MaxReentry
          /\ state' = [state EXCEPT ![p] = "rejected"]
          /\ value' = [value EXCEPT ![p] = EngineError]
          /\ fstate' = [fstate EXCEPT ![f] = "done"]
          /\ UNCHANGED stack
    /\ UNCHANGED <<reactions, queue, free, interrupt, nextId, derived, done>>

-----------------------------------------------------------------------------
(* How an activation ends                                                  *)

GuestRuns == Top.body = "interp" /\ ~interrupt

(* JS_OP_AWAIT with a promise: the fiber parks on it and run_fiber returns *)
(* to whoever advanced it.                                                 *)
Await(p) ==
    /\ GuestRuns
    /\ Top.fiber # NoFiber
    /\ state[p] # "absent"
    /\ Subscribe(p, state[p], value[p], AwaitReaction(p, Top.fiber), Back)
    /\ fstate' = [fstate EXCEPT ![Top.fiber] = "suspended"]
    /\ Leave
    /\ UNCHANGED <<state, value, interrupt, fpromise, derived>>

(* JS_OP_AWAIT with anything else: it is wrapped in a fulfilled promise.   *)
AwaitValue(v, p) ==
    /\ GuestRuns
    /\ Top.fiber # NoFiber
    /\ v \notin Promises
    /\ state[p] = "absent"
    /\ state' = [state EXCEPT ![p] = "fulfilled"]
    /\ value' = [value EXCEPT ![p] = v]
    /\ Subscribe(p, "fulfilled", v, AwaitReaction(p, Top.fiber), Back)
    /\ fstate' = [fstate EXCEPT ![Top.fiber] = "suspended"]
    /\ Leave
    /\ UNCHANGED <<interrupt, fpromise, derived>>

(* advance_fiber, JS_RUN_DONE: the fiber's promise is resolved with what   *)
(* it returned.                                                            *)
FiberReturn(v) ==
    /\ GuestRuns
    /\ Top.fiber # NoFiber
    /\ Known(v)
    /\ ResolveWith(fpromise[Top.fiber], v, Back)
    /\ fstate' = [fstate EXCEPT ![Top.fiber] = "done"]
    /\ Leave
    /\ UNCHANGED <<interrupt, fpromise, derived>>

(* advance_fiber, JS_RUN_ERROR: an uncaught throw, the rejection it        *)
(* awaited when no handler takes it, the interrupt, or no room for another *)
(* interpreter entry.                                                      *)
FiberThrow(reason) ==
    /\ Top.body \in {"interp", "deep"}
    /\ Top.fiber # NoFiber
    /\ \/ reason = EngineError
       \/ Top.body = "interp" /\ ~interrupt
       \/ /\ Top.body = "interp" /\ Top.kind = "job"
          /\ ~Top.job.fulfilled /\ reason = Top.job.value
    /\ Known(reason)
    /\ Settle(fpromise[Top.fiber], "rejected", reason, Back)
    /\ fstate' = [fstate EXCEPT ![Top.fiber] = "done"]
    /\ Leave
    /\ UNCHANGED <<interrupt, fpromise, derived>>

(* run_then_job after js_call succeeded: the derived promise is resolved   *)
(* with what the handler returned.                                         *)
HandlerReturn(v) ==
    /\ CodeRuns
    /\ Top.kind = "job" /\ Top.fiber = NoFiber
    /\ Known(v)
    /\ ResolveWith(Top.job.rx.result, v, Back)
    /\ Leave
    /\ UNCHANGED <<interrupt, fiberVars, derived>>

(* run_then_job after js_call failed: the derived promise is rejected.     *)
HandlerThrow(reason) ==
    /\ Top.body \in {"interp", "native", "deep"}
    /\ Top.kind = "job" /\ Top.fiber = NoFiber
    /\ Top.body = "deep" \/ (Top.body = "interp" /\ interrupt)
          => reason = EngineError
    /\ Known(reason)
    /\ Settle(Top.job.rx.result, "rejected", reason, Back)
    /\ Leave
    /\ UNCHANGED <<interrupt, fiberVars, derived>>

(* run_then_job without a callable handler: the settlement passes through. *)
PassThrough ==
    /\ Top.body = "none" /\ Top.fiber = NoFiber
    /\ LET r == Top.job.rx.result
       IN  \/ Top.job.fulfilled /\ ResolveWith(r, Top.job.value, Back)
           \/ ~Top.job.fulfilled /\ Settle(r, "rejected", Top.job.value, Back)
    /\ Leave
    /\ UNCHANGED <<interrupt, fiberVars, derived>>

-----------------------------------------------------------------------------
(* js_run_jobs                                                             *)

(* The host drains, or code on top of the stack runs a module.             *)
EnterDrain ==
    /\ CodeRuns
    /\ stack' = <<[kind |-> "drain", body |-> "drain", job |-> NoJob,
                   fiber |-> NoFiber]>> \o stack
    /\ UNCHANGED <<promiseVars, queue, free, interrupt, fiberVars, nextId,
                   derived, done>>

(* What the dequeued job will run: its handler for this settlement, or the *)
(* fiber it resumes; neither enters the interpreter past JS_MAX_REENTRY.   *)
Body(job) ==
    LET handler == IF job.fulfilled THEN job.rx.onF ELSE job.rx.onR
        wanted == IF job.rx.kind = "await" THEN "interp" ELSE handler
    IN  IF wanted = "interp" /\ Depth >= MaxReentry THEN "deep" ELSE wanted

(* Mutation: the job is looked at, but stays at the head of the queue      *)
(* while its handler runs.                                                 *)
StartJobLeavingIt ==
    /\ Draining /\ queue # <<>> /\ ~interrupt
    /\ LET job == Head(queue)
       IN  /\ stack' = <<[kind |-> "job", body |-> Body(job), job |-> job,
                          fiber |-> job.rx.fiber]>> \o stack
           /\ fstate' = [f \in Fibers |-> IF f = job.rx.fiber
                                          THEN "running" ELSE fstate[f]]
    /\ UNCHANGED <<promiseVars, queue, free, interrupt, fpromise, nextId,
                   derived, done>>

(* The head of the queue becomes the innermost running job.                *)
StartJob ==
    /\ Draining /\ queue # <<>> /\ ~interrupt
    /\ LET job == Head(queue)
       IN  /\ queue' = Tail(queue)
           /\ stack' = <<[kind |-> "job", body |-> Body(job), job |-> job,
                          fiber |-> job.rx.fiber]>> \o stack
           /\ fstate' = [f \in Fibers |-> IF f = job.rx.fiber
                                          THEN "running" ELSE fstate[f]]
    /\ UNCHANGED <<promiseVars, free, interrupt, fpromise, nextId, derived, done>>

(* Mutation: the loop ends one job early (it tests jobs_head->next).       *)
LeaveDrainEarly ==
    /\ Draining
    /\ Len(queue) <= 1 \/ interrupt
    /\ stack' = Tail(stack)
    /\ free' = IF RunningJobs = {} /\ free > FreeMax THEN FreeMax ELSE free
    /\ UNCHANGED <<promiseVars, queue, interrupt, fiberVars, nextId, derived, done>>

(* Queue empty or interrupted: the drain returns, and the outermost one    *)
(* trims the free list.                                                    *)
LeaveDrain ==
    /\ Draining
    /\ queue = <<>> \/ interrupt
    /\ stack' = Tail(stack)
    /\ free' = IF RunningJobs = {} /\ free > FreeMax THEN FreeMax ELSE free
    /\ UNCHANGED <<promiseVars, queue, interrupt, fiberVars, nextId, derived, done>>

(* js_vm_interrupt, from any thread at any time.                           *)
Interrupt ==
    /\ MayInterrupt
    /\ interrupt' = TRUE
    /\ UNCHANGED <<promiseVars, queue, free, stack, fiberVars, nextId, derived, done>>

(* js_vm_clear_interrupt, by the host before it uses the VM again.         *)
ClearInterrupt ==
    /\ stack = <<>>
    /\ interrupt' = FALSE
    /\ UNCHANGED <<promiseVars, queue, free, stack, fiberVars, nextId, derived, done>>

-----------------------------------------------------------------------------
Code ==
    \/ \E p \in Promises :
          \/ NewPromise(p)
          \/ \E r \in Promises, h \in HandlerPairs : Then(p, h[1], h[2], r)
          \/ \E v \in Resolutions : Resolve(p, v)
          \/ \E reason \in Reasons : Reject(p, reason)
          \/ \E f \in Fibers : CallAsync(f, p)
    \/ ThenRefused

(* The ways the activation on top can end.                                 *)
Finish ==
    \/ \E p \in Promises : Await(p)
    \/ \E p \in Promises, v \in Resolutions : AwaitValue(v, p)
    \/ \E v \in Resolutions : FiberReturn(v) \/ HandlerReturn(v)
    \/ \E reason \in Reasons \cup {EngineError} :
          FiberThrow(reason) \/ HandlerThrow(reason)
    \/ PassThrough

Drain == EnterDrain \/ StartJob \/ LeaveDrain

Next == Code \/ Finish \/ Drain \/ Interrupt \/ ClearInterrupt

Spec == Init /\ [][Next]_vars

(* The host comes back and drains while jobs are queued, a drain goes on   *)
(* until the queue is empty, and guest code ends: js_context_set_fuel      *)
(* bounds every stretch of it.  Code may drain and return any number of    *)
(* times before it ends, hence strong fairness.                            *)
FairSpec ==
    /\ Spec
    /\ WF_vars(stack = <<>> /\ queue # <<>> /\ EnterDrain)
    /\ WF_vars(StartJob \/ LeaveDrain)
    /\ SF_vars(Finish)
    /\ WF_vars(ClearInterrupt)

-----------------------------------------------------------------------------
(* Safety                                                                  *)

Listed(p) == {reactions[p][i] : i \in DOMAIN reactions[p]}

(* The reactions that wait for their job to start: on a pending promise or *)
(* in the queue.                                                           *)
Waiting == (UNION {Listed(p) : p \in Promises}) \cup
           {queue[i].rx : i \in DOMAIN queue}

(* The reactions whose job is on the C stack.                              *)
Active == {stack[i].job.rx : i \in RunningJobs}

(* In how many places the job or reaction number `id` is.                  *)
Places(id) ==
    Cardinality({s \in Promises \X (1..MaxReactions) :
                    s[2] \in DOMAIN reactions[s[1]] /\ reactions[s[1]][s[2]].id = id})
    + Cardinality({i \in DOMAIN queue : queue[i].rx.id = id})
    + Cardinality({i \in RunningJobs : stack[i].job.rx.id = id})
    + Cardinality({id} \cap done)

(* Whatever order promises are settled in, however drains nest and         *)
(* whatever the allocator refuses, a registered reaction is never dropped  *)
(* and never doubled: it waits on its promise, in the queue, or in one     *)
(* running job, or its job has run ("a dropped job leaves an `await`       *)
(* pending forever", js_promise.c:211).                                    *)
NoReactionLost == \A id \in 1..(nextId - 1) : Places(id) = 1

(* A promise settles once: no later resolve, reject, adoption or executor  *)
(* throw changes its state or its value (js_promise.c:4).                  *)
SettleOnce ==
    [][\A p \in Promises :
          state[p] \in {"fulfilled", "rejected"} =>
             state'[p] = state[p] /\ value'[p] = value[p]]_vars

(* Adoption is never skipped: no promise is fulfilled with a promise.      *)
FulfilledPlain == \A p \in Promises : state[p] = "fulfilled" => value[p] \in Plain

(* Handlers fire in the order they were attached ("handlers fire FIFO, as  *)
(* the spec requires", js_promise.c:168), also across a settlement and     *)
(* from nested drains: a job that starts is the oldest one that waits on   *)
(* its promise.                                                            *)
StartOrder ==
    [][\A rx \in Waiting :
          rx.id \in {r.id : r \in Active'} \ {r.id : r \in Active} =>
             \A other \in Waiting : other.on = rx.on => rx.id <= other.id]_vars

Activations(f) == {i \in DOMAIN stack : stack[i].fiber = f}

(* A suspended fiber is waited for by exactly one reaction or queued job,  *)
(* and a fiber that runs or has ended by none: it is never resumed twice   *)
(* for one await, nor while it is running, and never forgotten.            *)
ResumedOnce ==
    \A f \in Fibers :
       LET awaits == {rx \in Waiting : rx.fiber = f}
       IN  /\ Cardinality(awaits) = IF fstate[f] = "suspended" THEN 1 ELSE 0
           /\ Cardinality(Activations(f)) = IF fstate[f] = "running" THEN 1 ELSE 0

(* Reactions are linked only to pending promises (lamassu_internal.h,      *)
(* JsPromise.reactions: "non-empty only while PENDING").                   *)
ReactionsOnlyWhilePending ==
    \A p \in Promises : reactions[p] # <<>> => state[p] = "pending"

(* A promise that js_promise_then returned is settled, or something will   *)
(* settle it: a reaction or job it is the result of, and none of the       *)
(* promises it waits for through adoption was silently left out.           *)
NoOrphan ==
    \A r \in derived :
       state[r] = "pending" => \E rx \in Waiting \cup Active : rx.result = r

(* What an async function returned to its caller is settled as soon as     *)
(* the fiber ends, or adopts another promise.                              *)
NoOrphanAsync ==
    \A f \in Fibers :
       fstate[f] = "done" /\ state[fpromise[f]] = "pending" =>
          \E rx \in Waiting \cup Active : rx.result = fpromise[f]

(* The reserve of job nodes is the one JobPool describes.                  *)
PendingReactions ==
    Cardinality({s \in Promises \X (1..MaxReactions) : s[2] \in DOMAIN reactions[s[1]]})

Lost == {id \in 1..(nextId - 1) : Places(id) = 0}

Pool == INSTANCE JobPool WITH
    pending <- PendingReactions,
    queued <- Len(queue),
    running <- Cardinality(RunningJobs),
    lost <- Cardinality(Lost),
    MaxPending <- MaxReactions,
    MaxJobs <- 2 * MaxReactions,
    MaxFree <- MaxReactions + MaxFree + 2

PoolSpec == Pool!Spec

-----------------------------------------------------------------------------
(* Liveness                                                                *)

(* Once interrupts are over, a reaction whose promise has settled is       *)
(* eventually served: the handler has run, or the fiber was resumed.       *)
SettledIsServed ==
    <>[](~interrupt) =>
       \A id \in 1..MaxReactions :
          (\E i \in DOMAIN queue : queue[i].rx.id = id) ~> (id \in done)
=============================================================================
