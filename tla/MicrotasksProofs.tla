-------------------------- MODULE MicrotasksProofs --------------------------
(***************************************************************************)
(* What is proved about the microtask queue for any number of promises,    *)
(* fibers and reactions, any nesting of drains, any allocation failures    *)
(* and any interrupts: types and settlement first, then that no reaction   *)
(* is lost, no fiber is resumed twice and no promise is forgotten.         *)
(***************************************************************************)
EXTENDS Microtasks, SequenceTheorems, FiniteSetTheorems, FunctionTheorems, TLAPS

-----------------------------------------------------------------------------
(* What settlement and registration do to the types                        *)

(* A job made from a reaction has the type of jobs.                        *)
LEMMA JobType ==
    ASSUME NEW rx \in Reaction, NEW outcome, NEW v \in Values
    PROVE  JobOf(rx, outcome, v) \in Job
BY DEF JobOf, Job

(* Reversing a sequence keeps its elements and its length.                 *)
LEMMA ReverseType ==
    ASSUME NEW S, NEW s \in Seq(S)
    PROVE  /\ Reverse(s) \in Seq(S)
           /\ Len(Reverse(s)) = Len(s)
<1>1. \A i \in 1..Len(s) : (Len(s) - i) + 1 \in 1..Len(s)
    OBVIOUS
<1>2. Reverse(s) \in [1..Len(s) -> S]
    BY <1>1 DEF Reverse
<1>3. QED
    BY <1>2

(* A function on an initial segment of the naturals is a sequence.         *)
LEMMA FunctionIsSeq ==
    ASSUME NEW S, NEW m \in Nat, NEW s \in [1..m -> S]
    PROVE  s \in Seq(S)
OBVIOUS

(* The reactions that get a job are picked from the n there are.           *)
LEMMA ServedType ==
    ASSUME NEW n \in Nat, NEW pick \in Served(n), free \in Nat
    PROVE  \E m \in 0..n : pick \in [1..m -> 1..n]
<1>1. CASE free >= n \/ ~MayFail
    <2>1. pick = [i \in 1..n |-> i]
        BY <1>1 DEF Served
    <2>2. pick \in [1..n -> 1..n]
        BY <2>1
    <2>3. QED
        BY <2>2
<1>2. CASE ~(free >= n \/ ~MayFail)
    <2>1. PICK m \in free..n : pick \in [1..m -> 1..n]
        BY <1>2 DEF Served
    <2>2. m \in 0..n
        OBVIOUS
    <2>3. QED
        BY <2>1, <2>2
<1>3. QED
    BY <1>1, <1>2

(* settle turns a list of reactions into a list of jobs.                   *)
LEMMA SettleType ==
    ASSUME PromisesOK, QueueOK,
           NEW p \in Promises, NEW outcome \in {"fulfilled", "rejected"},
           NEW v \in Values, NEW back \in {0, 1},
           Settle(p, outcome, v, back)
    PROVE  /\ state' \in [Promises -> {"absent", "pending", "fulfilled", "rejected"}]
           /\ value' \in [Promises -> Values]
           /\ reactions' \in [Promises -> Seq(Reaction)]
           /\ queue' \in Seq(Job)
           /\ free' \in Nat
           /\ nextId' \in Nat
<1> USE DEF PromisesOK, QueueOK
<1>1. CASE state[p] # "pending"
    <2>1. /\ free' = free + back
          /\ UNCHANGED <<promiseVars, queue, nextId>>
        BY <1>1 DEF Settle
    <2>2. QED
        BY <2>1 DEF promiseVars
<1>2. CASE state[p] = "pending"
    <2> DEFINE rxs == Reverse(reactions[p])
               n == Len(rxs)
    <2>1. /\ state' = [state EXCEPT ![p] = outcome]
          /\ value' = [value EXCEPT ![p] = v]
          /\ reactions' = [reactions EXCEPT ![p] = <<>>]
          /\ free' = (IF n <= free THEN free - n ELSE 0) + back
          /\ nextId' = nextId
        BY <1>2 DEF Settle
    <2>2. PICK pick \in Served(n) :
             queue' = queue \o [i \in DOMAIN pick |-> JobOf(rxs[pick[i]], outcome, v)]
        BY <1>2 DEF Settle
    <2>3. rxs \in Seq(Reaction) /\ n \in Nat
        BY ReverseType
    <2>4. PICK m \in 0..n : pick \in [1..m -> 1..n]
        BY <2>3, ServedType
    <2>5. \A i \in 1..m : rxs[pick[i]] \in Reaction
        BY <2>3, <2>4
    <2>6. [i \in DOMAIN pick |-> JobOf(rxs[pick[i]], outcome, v)] \in [1..m -> Job]
        BY <2>4, <2>5, JobType
    <2>7. [i \in DOMAIN pick |-> JobOf(rxs[pick[i]], outcome, v)] \in Seq(Job)
        BY <2>6, <2>3, FunctionIsSeq
    <2>8. queue' \in Seq(Job)
        BY <2>2, <2>7
    <2>9. <<>> \in Seq(Reaction)
        OBVIOUS
    <2>10. QED
        BY <2>1, <2>3, <2>8, <2>9
<1>3. QED
    BY <1>1, <1>2

(* add_reaction links a reaction to its promise or queues its job.         *)
LEMMA SubscribeType ==
    ASSUME PromisesOK, QueueOK,
           NEW p \in Promises, NEW outcome, NEW v \in Values,
           NEW rx \in Reaction, NEW back \in {0, 1},
           Subscribe(p, outcome, v, rx, back)
    PROVE  /\ reactions' \in [Promises -> Seq(Reaction)]
           /\ queue' \in Seq(Job)
           /\ free' \in Nat
           /\ nextId' \in Nat
<1> USE DEF PromisesOK, QueueOK
<1>1. nextId' \in Nat
    BY DEF Subscribe
<1>2. CASE /\ reactions' = [reactions EXCEPT ![p] = <<rx>> \o @]
           /\ free' = free + 1 + back
           /\ UNCHANGED queue
    <2>1. <<rx>> \o reactions[p] \in Seq(Reaction)
        OBVIOUS
    <2>2. QED
        BY <1>1, <1>2, <2>1
<1>3. CASE /\ queue' = Append(queue, JobOf(rx, outcome, v))
           /\ free' = free + back
           /\ UNCHANGED reactions
    <2>1. JobOf(rx, outcome, v) \in Job
        BY JobType
    <2>2. QED
        BY <1>1, <1>3, <2>1
<1>4. QED
    BY <1>2, <1>3 DEF Subscribe

(* js_promise_resolve_with, whichever of its ways it takes.                *)
LEMMA ResolveType ==
    ASSUME PromisesOK, QueueOK,
           NEW p \in Promises, NEW v \in Values, NEW back \in {0, 1},
           ResolveWith(p, v, back)
    PROVE  /\ state' \in [Promises -> {"absent", "pending", "fulfilled", "rejected"}]
           /\ value' \in [Promises -> Values]
           /\ reactions' \in [Promises -> Seq(Reaction)]
           /\ queue' \in Seq(Job)
           /\ free' \in Nat
           /\ nextId' \in Nat
<1>1. CASE v \notin Promises /\ Settle(p, "fulfilled", v, back)
    BY <1>1, SettleType
<1>2. CASE v = p /\ Settle(p, "rejected", EngineError, back)
    <2>1. EngineError \in Values
        BY MicrotaskConstants DEF Values
    <2>2. QED
        BY <1>2, <2>1, SettleType
<1>3. CASE /\ v \in Promises \ {p}
           /\ Subscribe(v, state[v], value[v],
                        ThenReaction(v, "none", "none", p), back)
           /\ UNCHANGED <<state, value>>
    <2>1. ThenReaction(v, "none", "none", p) \in Reaction
        BY <1>3 DEF ThenReaction, Reaction, ThenReactions, Handlers, QueueOK
    <2>2. value[v] \in Values
        BY <1>3 DEF PromisesOK
    <2>3. PICK outcome \in {"absent", "pending", "fulfilled", "rejected"},
               w \in Values, rx \in Reaction :
             Subscribe(v, outcome, w, rx, back)
        BY <1>3, <2>1, <2>2 DEF Subscribe, PromisesOK
    <2>4. /\ reactions' \in [Promises -> Seq(Reaction)]
          /\ queue' \in Seq(Job)
          /\ free' \in Nat
          /\ nextId' \in Nat
        BY <1>3, <2>3, SubscribeType
    <2>5. QED
        BY <1>3, <2>4 DEF PromisesOK
<1>4. CASE /\ v \in Promises \ {p}
           /\ Refused(back)
           /\ UNCHANGED <<state, value>>
    BY <1>4 DEF Refused, PromisesOK, QueueOK
<1>5. QED
    BY <1>1, <1>2, <1>3, <1>4 DEF ResolveWith

-----------------------------------------------------------------------------
(* The C stack                                                             *)

(* Whatever is on the stack is a frame.                                    *)
LEMMA TopType ==
    ASSUME StackOK, stack # <<>>
    PROVE  Top \in Frame /\ Tail(stack) \in Seq(Frame)
BY DEF StackOK, Top

(* When a fiber runs on top of the stack it has a result promise.          *)
LEMMA TopFiber ==
    ASSUME StackOK, Top.fiber # NoFiber
    PROVE  stack # <<>> /\ Top.fiber \in Called
<1>1. stack # <<>>
    BY DEF Top, Host
<1>2. Top \in Frame
    BY <1>1, TopType
<1>3. QED
    BY <1>1, <1>2 DEF Frame, DrainFrames, CallFrames, JobFrames

(* The job on top of the stack; without a fiber it is a then-job.          *)
LEMMA TopJob ==
    ASSUME StackOK, Top.kind = "job"
    PROVE  /\ stack # <<>>
           /\ Top.job \in Job
           /\ Top.fiber = NoFiber => Top.job.rx \in ThenReactions
<1>1. stack # <<>>
    BY DEF Top, Host
<1>2. Top \in JobFrames
    BY <1>1, TopType DEF Frame, DrainFrames, CallFrames
<1>3. Top.job \in Job /\ Top.fiber = Top.job.rx.fiber
    BY <1>2 DEF JobFrames
<1>4. Top.job.rx \in Reaction
    BY <1>3 DEF Job
<1>5. Top.fiber = NoFiber => Top.job.rx \in ThenReactions
    BY <1>3, <1>4, MicrotaskConstants DEF Reaction, AwaitReactions, Called
<1>6. QED
    BY <1>1, <1>3, <1>5

(* What the pass-through branch of run_then_job finds on the stack.        *)
LEMMA PassThroughFrame ==
    ASSUME StackOK, PassThrough
    PROVE  stack # <<>> /\ Top.job \in Job /\ Top.job.rx \in ThenReactions
<1>1. Top.body = "none" /\ Top.fiber = NoFiber
    BY DEF PassThrough
<1>2. stack # <<>>
    BY <1>1 DEF Top, Host
<1>3. Top.kind = "job"
    BY <1>1, <1>2, TopType DEF Frame, DrainFrames, CallFrames, JobFrames
<1>4. QED
    BY <1>1, <1>3, TopJob

(* A job calls a handler, or enters the interpreter if there is room.      *)
LEMMA BodyType ==
    ASSUME NEW job \in Job
    PROVE  Body(job) \in {"interp", "native", "none", "deep"}
BY DEF Body, Job, Reaction, ThenReactions, AwaitReactions, Handlers

(* Reactions have natural numbers.                                         *)
LEMMA JobIds ==
    ASSUME NEW job \in Job
    PROVE  job.rx \in Reaction /\ job.rx.id \in Nat
BY DEF Job, Reaction, ThenReactions, AwaitReactions

(* An activation that returns leaves frames behind.                        *)
LEMMA LeaveType ==
    ASSUME StackOK, stack # <<>>, Leave
    PROVE  stack' \in Seq(Frame) /\ done' \subseteq Nat
<1>1. stack' \in Seq(Frame)
    BY TopType DEF Leave
<1>2. Top.kind = "job" => Top.job.rx.id \in Nat
    BY TopJob, JobIds
<1>3. done' \subseteq Nat
    BY <1>2 DEF Leave, StackOK
<1>4. QED
    BY <1>1, <1>3

-----------------------------------------------------------------------------
(* Type correctness                                                        *)

(* While no fiber is called, the types of reactions, jobs and frames stay. *)
LEMMA SameTypes ==
    ASSUME FibersOK, fpromise' = fpromise,
           state' \in [Promises -> {"absent", "pending", "fulfilled", "rejected"}],
           value' \in [Promises -> Values],
           reactions' \in [Promises -> Seq(Reaction)],
           queue' \in Seq(Job),
           free' \in Nat,
           nextId' \in Nat,
           stack' \in Seq(Frame),
           done' \subseteq Nat,
           fstate' \in [Fibers -> {"none", "running", "suspended", "done"}],
           interrupt' \in BOOLEAN,
           derived' \subseteq Promises
    PROVE  TypeOK'
<1>1. Called' = Called
    BY DEF Called
<1>2. Reaction' = Reaction
    BY <1>1 DEF Reaction, ThenReactions, AwaitReactions
<1>3. Job' = Job
    BY <1>2 DEF Job
<1>4. Frame' = Frame
    BY <1>1, <1>3 DEF Frame, DrainFrames, CallFrames, JobFrames
<1>5. PromisesOK'
    BY <1>2 DEF PromisesOK
<1>6. QueueOK'
    BY <1>3 DEF QueueOK
<1>7. StackOK'
    BY <1>4 DEF StackOK
<1>8. FibersOK'
    BY DEF FibersOK
<1>9. QED
    BY <1>5, <1>6, <1>7, <1>8 DEF TypeOK

(* A call adds a fiber to the called ones and an activation to the stack;  *)
(* what was typed before stays typed.                                      *)
LEMMA CallAsyncType ==
    ASSUME TypeOK, NEW f \in Fibers, NEW p \in Promises, CallAsync(f, p)
    PROVE  TypeOK'
<1> USE DEF TypeOK
<1>1. /\ fpromise' = [fpromise EXCEPT ![f] = p]
      /\ UNCHANGED <<reactions, queue, free, interrupt, nextId, derived, done>>
    BY DEF CallAsync
<1>2. FibersOK' /\ Called \subseteq Called' /\ f \in Called'
    BY <1>1 DEF FibersOK, Called, CallAsync
<1>3. Reaction \subseteq Reaction'
    BY <1>2 DEF Reaction, ThenReactions, AwaitReactions
<1>4. Job \subseteq Job'
    BY <1>3 DEF Job
<1>5. Frame \subseteq Frame'
    BY <1>2, <1>4 DEF Frame, DrainFrames, CallFrames, JobFrames
<1>6. PromisesOK'
    <2>1. state' \in [Promises -> {"absent", "pending", "fulfilled", "rejected"}]
        BY DEF CallAsync, PromisesOK
    <2>2. value' \in [Promises -> Values]
        BY MicrotaskConstants DEF CallAsync, PromisesOK, Values
    <2>3. Seq(Reaction) \subseteq Seq(Reaction')
        BY <1>3, SeqMonotonic
    <2>4. QED
        BY <1>1, <2>1, <2>2, <2>3 DEF PromisesOK
<1>7. QueueOK'
    <2>1. Seq(Job) \subseteq Seq(Job')
        BY <1>4, SeqMonotonic
    <2>2. QED
        BY <1>1, <2>1 DEF QueueOK
<1>8. StackOK'
    <2>1. stack \in Seq(Frame')
        BY <1>5, SeqMonotonic DEF StackOK
    <2> DEFINE frame == [kind |-> "call", body |-> "interp", job |-> NoJob,
                         fiber |-> f]
    <2>2. frame \in Frame'
        BY <1>2 DEF Frame, CallFrames
    <2>3. stack' = stack \/ stack' = <<frame>> \o stack
        BY DEF CallAsync
    <2>4. <<frame>> \o stack \in Seq(Frame')
        BY <2>1, <2>2
    <2>5. stack' \in Seq(Frame')
        BY <2>1, <2>3, <2>4
    <2>6. QED
        BY <1>1, <2>5 DEF StackOK
<1>9. QED
    BY <1>1, <1>2, <1>6, <1>7, <1>8

(* Registering reactions and settling promises keep the types.             *)
LEMMA CodeType ==
    ASSUME TypeOK, Code
    PROVE  TypeOK'
<1> USE DEF TypeOK
<1>1. ASSUME NEW p \in Promises, NewPromise(p)
      PROVE  TypeOK'
    BY <1>1, SameTypes
       DEF NewPromise, fiberVars, PromisesOK, QueueOK, StackOK, FibersOK
<1>2. ASSUME NEW p \in Promises, NEW r \in Promises, NEW h \in HandlerPairs,
             Then(p, h[1], h[2], r)
      PROVE  TypeOK'
    <2>1. ThenReaction(p, h[1], h[2], r) \in Reaction
        BY MicrotaskConstants
           DEF ThenReaction, Reaction, ThenReactions, Handlers, QueueOK
    <2>2. PICK outcome \in {"absent", "pending", "fulfilled", "rejected"},
               w \in Values, rx \in Reaction :
             Subscribe(p, outcome, w, rx, 0)
        BY <1>2, <2>1 DEF Then, Subscribe, PromisesOK
    <2>3. /\ reactions' \in [Promises -> Seq(Reaction)]
          /\ queue' \in Seq(Job)
          /\ free' \in Nat
          /\ nextId' \in Nat
        BY <2>2, SubscribeType
    <2>4. /\ state' = [state EXCEPT ![r] = "pending"]
          /\ derived' = derived \cup {r}
          /\ UNCHANGED <<value, stack, interrupt, fiberVars, done>>
        BY <1>2 DEF Then
    <2>5. QED
        BY <2>3, <2>4, SameTypes DEF fiberVars, PromisesOK, StackOK, FibersOK
<1>3. ASSUME ThenRefused
      PROVE  TypeOK'
    BY <1>3, SameTypes
       DEF ThenRefused, Refused, fiberVars, PromisesOK, QueueOK, StackOK, FibersOK
<1>4. ASSUME NEW p \in Promises, NEW v \in Resolutions, Resolve(p, v)
      PROVE  TypeOK'
    <2>1. v \in Values
        BY MicrotaskConstants
    <2>2. ResolveWith(p, v, 0) /\ UNCHANGED <<stack, interrupt, fiberVars, derived, done>>
        BY <1>4 DEF Resolve
    <2>3. QED
        BY <2>1, <2>2, ResolveType, SameTypes DEF fiberVars, StackOK, FibersOK
<1>5. ASSUME NEW p \in Promises, NEW reason \in Reasons, Reject(p, reason)
      PROVE  TypeOK'
    <2>1. reason \in Values
        BY MicrotaskConstants
    <2>2. /\ Settle(p, "rejected", reason, 0)
          /\ UNCHANGED <<stack, interrupt, fiberVars, derived, done>>
        BY <1>5 DEF Reject
    <2>3. QED
        BY <2>1, <2>2, SettleType, SameTypes DEF fiberVars, StackOK, FibersOK
<1>6. ASSUME NEW p \in Promises, NEW f \in Fibers, CallAsync(f, p)
      PROVE  TypeOK'
    BY <1>6, CallAsyncType
<1>7. QED
    BY <1>1, <1>2, <1>3, <1>4, <1>5, <1>6 DEF Code

(* Everything an activation does as it ends keeps the types.               *)
LEMMA FinishType ==
    ASSUME TypeOK, Finish
    PROVE  TypeOK'
<1> USE DEF TypeOK
<1>1. PICK back \in {0, 1} : back = Back
    BY DEF Back
<1>2. ASSUME NEW p \in Promises, Await(p)
      PROVE  TypeOK'
    <2>1. stack # <<>> /\ Top.fiber \in Called
        BY <1>2, TopFiber DEF Await
    <2>2. AwaitReaction(p, Top.fiber) \in Reaction
        BY <2>1 DEF AwaitReaction, Reaction, AwaitReactions, QueueOK
    <2>3. PICK outcome \in {"absent", "pending", "fulfilled", "rejected"},
               w \in Values, rx \in Reaction :
             Subscribe(p, outcome, w, rx, back)
        BY <1>1, <1>2, <2>2 DEF Await, Subscribe, PromisesOK
    <2>4. /\ reactions' \in [Promises -> Seq(Reaction)]
          /\ queue' \in Seq(Job)
          /\ free' \in Nat
          /\ nextId' \in Nat
        BY <2>3, SubscribeType
    <2>5. stack' \in Seq(Frame) /\ done' \subseteq Nat
        BY <1>2, <2>1, LeaveType DEF Await
    <2>6. /\ fstate' = [fstate EXCEPT ![Top.fiber] = "suspended"]
          /\ UNCHANGED <<state, value, interrupt, fpromise, derived>>
        BY <1>2 DEF Await
    <2>7. QED
        BY <2>4, <2>5, <2>6, SameTypes DEF PromisesOK, FibersOK
<1>3. ASSUME NEW p \in Promises, NEW v \in Resolutions, AwaitValue(v, p)
      PROVE  TypeOK'
    <2>1. stack # <<>> /\ Top.fiber \in Called
        BY <1>3, TopFiber DEF AwaitValue
    <2>2. AwaitReaction(p, Top.fiber) \in Reaction
        BY <2>1 DEF AwaitReaction, Reaction, AwaitReactions, QueueOK
    <2>3. v \in Values
        BY MicrotaskConstants
    <2>4. PICK rx \in Reaction : Subscribe(p, "fulfilled", v, rx, back)
        BY <1>1, <1>3, <2>2 DEF AwaitValue, Subscribe
    <2>5. /\ reactions' \in [Promises -> Seq(Reaction)]
          /\ queue' \in Seq(Job)
          /\ free' \in Nat
          /\ nextId' \in Nat
        BY <2>3, <2>4, SubscribeType
    <2>6. stack' \in Seq(Frame) /\ done' \subseteq Nat
        BY <1>3, <2>1, LeaveType DEF AwaitValue
    <2>7. /\ state' = [state EXCEPT ![p] = "fulfilled"]
          /\ value' = [value EXCEPT ![p] = v]
          /\ fstate' = [fstate EXCEPT ![Top.fiber] = "suspended"]
          /\ UNCHANGED <<interrupt, fpromise, derived>>
        BY <1>3 DEF AwaitValue
    <2>8. QED
        BY <2>3, <2>5, <2>6, <2>7, SameTypes DEF PromisesOK, FibersOK
<1>4. ASSUME NEW v \in Resolutions, FiberReturn(v)
      PROVE  TypeOK'
    <2>1. stack # <<>> /\ Top.fiber \in Called
        BY <1>4, TopFiber DEF FiberReturn
    <2>2. PICK p \in Promises : p = fpromise[Top.fiber]
        BY <2>1 DEF Called
    <2>3. v \in Values
        BY MicrotaskConstants
    <2>4. ResolveWith(p, v, back)
        BY <1>1, <1>4, <2>2 DEF FiberReturn
    <2>5. stack' \in Seq(Frame) /\ done' \subseteq Nat
        BY <1>4, <2>1, LeaveType DEF FiberReturn
    <2>6. /\ fstate' = [fstate EXCEPT ![Top.fiber] = "done"]
          /\ UNCHANGED <<interrupt, fpromise, derived>>
        BY <1>4 DEF FiberReturn
    <2>7. QED
        BY <2>3, <2>4, <2>5, <2>6, ResolveType, SameTypes DEF FibersOK
<1>5. ASSUME NEW reason \in Reasons \cup {EngineError}, FiberThrow(reason)
      PROVE  TypeOK'
    <2>1. stack # <<>> /\ Top.fiber \in Called
        BY <1>5, TopFiber DEF FiberThrow
    <2>2. PICK p \in Promises : p = fpromise[Top.fiber]
        BY <2>1 DEF Called
    <2>3. reason \in Values
        BY MicrotaskConstants DEF Values
    <2>4. Settle(p, "rejected", reason, back)
        BY <1>1, <1>5, <2>2 DEF FiberThrow
    <2>5. stack' \in Seq(Frame) /\ done' \subseteq Nat
        BY <1>5, <2>1, LeaveType DEF FiberThrow
    <2>6. /\ fstate' = [fstate EXCEPT ![Top.fiber] = "done"]
          /\ UNCHANGED <<interrupt, fpromise, derived>>
        BY <1>5 DEF FiberThrow
    <2>7. QED
        BY <2>3, <2>4, <2>5, <2>6, SettleType, SameTypes DEF FibersOK
<1>6. ASSUME NEW v \in Resolutions, HandlerReturn(v)
      PROVE  TypeOK'
    <2>1. stack # <<>> /\ Top.job.rx \in ThenReactions
        BY <1>6, TopJob DEF HandlerReturn
    <2>2. PICK p \in Promises : p = Top.job.rx.result
        BY <2>1 DEF ThenReactions
    <2>3. v \in Values
        BY MicrotaskConstants
    <2>4. ResolveWith(p, v, back)
        BY <1>1, <1>6, <2>2 DEF HandlerReturn
    <2>5. stack' \in Seq(Frame) /\ done' \subseteq Nat
        BY <1>6, <2>1, LeaveType DEF HandlerReturn
    <2>6. UNCHANGED <<interrupt, fiberVars, derived>>
        BY <1>6 DEF HandlerReturn
    <2>7. QED
        BY <2>3, <2>4, <2>5, <2>6, ResolveType, SameTypes DEF fiberVars, FibersOK
<1>7. ASSUME NEW reason \in Reasons \cup {EngineError}, HandlerThrow(reason)
      PROVE  TypeOK'
    <2>1. stack # <<>> /\ Top.job.rx \in ThenReactions
        BY <1>7, TopJob DEF HandlerThrow
    <2>2. PICK p \in Promises : p = Top.job.rx.result
        BY <2>1 DEF ThenReactions
    <2>3. reason \in Values
        BY MicrotaskConstants DEF Values
    <2>4. Settle(p, "rejected", reason, back)
        BY <1>1, <1>7, <2>2 DEF HandlerThrow
    <2>5. stack' \in Seq(Frame) /\ done' \subseteq Nat
        BY <1>7, <2>1, LeaveType DEF HandlerThrow
    <2>6. UNCHANGED <<interrupt, fiberVars, derived>>
        BY <1>7 DEF HandlerThrow
    <2>7. QED
        BY <2>3, <2>4, <2>5, <2>6, SettleType, SameTypes DEF fiberVars, FibersOK
<1>8. ASSUME PassThrough
      PROVE  TypeOK'
    <2>1. stack # <<>> /\ Top.job \in Job /\ Top.job.rx \in ThenReactions
        BY <1>8, PassThroughFrame
    <2>2. PICK p \in Promises : p = Top.job.rx.result
        BY <2>1 DEF ThenReactions
    <2>3. PICK v \in Values : v = Top.job.value
        BY <2>1 DEF Job
    <2>4. stack' \in Seq(Frame) /\ done' \subseteq Nat
        BY <1>8, <2>1, LeaveType DEF PassThrough
    <2>5. UNCHANGED <<interrupt, fiberVars, derived>>
        BY <1>8 DEF PassThrough
    <2>6. ResolveWith(p, v, back) \/ Settle(p, "rejected", v, back)
        BY <1>1, <1>8, <2>2, <2>3 DEF PassThrough
    <2>7. QED
        BY <2>4, <2>5, <2>6, ResolveType, SettleType, SameTypes
           DEF fiberVars, FibersOK
<1>9. QED
    BY <1>2, <1>3, <1>4, <1>5, <1>6, <1>7, <1>8 DEF Finish

(* Draining moves jobs from the queue to the stack and off it.             *)
LEMMA DrainType ==
    ASSUME TypeOK, Drain
    PROVE  TypeOK'
<1> USE DEF TypeOK
<1>1. CASE EnterDrain
    <2> DEFINE frame == [kind |-> "drain", body |-> "drain", job |-> NoJob,
                         fiber |-> NoFiber]
    <2>1. frame \in Frame
        BY DEF Frame, DrainFrames
    <2>2. stack' = <<frame>> \o stack
        BY <1>1 DEF EnterDrain
    <2>3. stack' \in Seq(Frame)
        BY <2>1, <2>2 DEF StackOK
    <2>4. QED
        BY <1>1, <2>3, SameTypes
           DEF EnterDrain, promiseVars, fiberVars, PromisesOK, QueueOK, StackOK,
               FibersOK
<1>2. CASE StartJob
    <2> DEFINE job == Head(queue)
               frame == [kind |-> "job", body |-> Body(job), job |-> job,
                         fiber |-> job.rx.fiber]
    <2>1. job \in Job /\ Tail(queue) \in Seq(Job)
        BY <1>2 DEF StartJob, QueueOK
    <2>2. job.rx \in Reaction
        BY <2>1, JobIds
    <2>3. frame \in Frame
        BY <2>1, <2>2, BodyType
           DEF Frame, JobFrames, Reaction, ThenReactions, AwaitReactions
    <2>4. /\ queue' = Tail(queue)
          /\ stack' = <<frame>> \o stack
          /\ fstate' = [f \in Fibers |-> IF f = job.rx.fiber
                                         THEN "running" ELSE fstate[f]]
          /\ UNCHANGED <<promiseVars, free, interrupt, fpromise, nextId, derived,
                         done>>
        BY <1>2 DEF StartJob
    <2>5. stack' \in Seq(Frame)
        BY <2>3, <2>4 DEF StackOK
    <2>6. fstate' \in [Fibers -> {"none", "running", "suspended", "done"}]
        BY <2>4 DEF FibersOK
    <2>7. QED
        BY <2>1, <2>4, <2>5, <2>6, SameTypes
           DEF promiseVars, PromisesOK, QueueOK, StackOK, FibersOK
<1>3. CASE LeaveDrain
    <2>1. stack # <<>>
        BY <1>3 DEF LeaveDrain, Draining, Top, Host
    <2>2. stack' \in Seq(Frame)
        BY <1>3, <2>1, TopType DEF LeaveDrain
    <2>3. free' \in Nat
        BY <1>3, MicrotaskConstants DEF LeaveDrain, QueueOK
    <2>4. QED
        BY <1>3, <2>2, <2>3, SameTypes
           DEF LeaveDrain, promiseVars, fiberVars, PromisesOK, QueueOK, StackOK,
               FibersOK
<1>4. QED
    BY <1>1, <1>2, <1>3 DEF Drain

(* Every step of the engine keeps the types.                               *)
LEMMA TypeStep ==
    TypeOK /\ [Next]_vars => TypeOK'
<1> SUFFICES ASSUME TypeOK, [Next]_vars
             PROVE  TypeOK'
    OBVIOUS
<1>1. CASE Interrupt \/ ClearInterrupt
    BY <1>1, SameTypes
       DEF Interrupt, ClearInterrupt, promiseVars, fiberVars, TypeOK, PromisesOK,
           QueueOK, StackOK, FibersOK
<1>2. CASE UNCHANGED vars
    BY <1>2, SameTypes
       DEF vars, TypeOK, PromisesOK, QueueOK, StackOK, FibersOK
<1>3. QED
    BY <1>1, <1>2, CodeType, FinishType, DrainType DEF Next

(* The engine starts well-typed: no promise, no fiber, nothing queued.     *)
LEMMA InitType == Init => TypeOK
<1> SUFFICES ASSUME Init
             PROVE  TypeOK
    OBVIOUS
<1> USE DEF Init
<1>1. <<>> \in Seq(Reaction) /\ <<>> \in Seq(Job) /\ <<>> \in Seq(Frame)
    OBVIOUS
<1>2. Undefined \in Values
    BY MicrotaskConstants DEF Values
<1>3. PromisesOK
    BY <1>1, <1>2 DEF PromisesOK
<1>4. QueueOK /\ StackOK
    BY <1>1 DEF QueueOK, StackOK
<1>5. FibersOK
    BY DEF FibersOK
<1>6. QED
    BY <1>3, <1>4, <1>5 DEF TypeOK

(* In every reachable state the promises, the queue, the stack and the     *)
(* fibers are well-formed: no reaction, job or activation refers to a      *)
(* fiber that has no result promise to settle.                             *)
THEOREM TypeCorrect == Spec => []TypeOK
BY InitType, TypeStep, PTL DEF Spec

-----------------------------------------------------------------------------
(* What a step may do to a promise.  Three properties share this argument: *)
(* none of them is inductive without the types, and ReactionsOnlyWhile-    *)
(* Pending is what makes a settlement take every reaction there is.        *)

PromiseStep ==
    \A q \in Promises :
       /\ state[q] \in {"fulfilled", "rejected"} =>
             state'[q] = state[q] /\ value'[q] = value[q]
       /\ state'[q] = "fulfilled" /\ state[q] # "fulfilled" => value'[q] \in Plain
       /\ reactions'[q] # <<>> => state'[q] = "pending"

(* settle, with a value that is no promise if it fulfils.                  *)
LEMMA SettleStep ==
    ASSUME PromisesOK, ReactionsOnlyWhilePending,
           NEW p \in Promises, NEW outcome \in {"fulfilled", "rejected"},
           NEW v \in Values, outcome = "fulfilled" => v \in Plain,
           NEW back, Settle(p, outcome, v, back)
    PROVE  PromiseStep
<1>1. CASE UNCHANGED promiseVars
    BY <1>1 DEF promiseVars, PromiseStep, ReactionsOnlyWhilePending
<1>2. CASE /\ state[p] = "pending"
           /\ state' = [state EXCEPT ![p] = outcome]
           /\ value' = [value EXCEPT ![p] = v]
           /\ reactions' = [reactions EXCEPT ![p] = <<>>]
    BY <1>2 DEF PromiseStep, PromisesOK, ReactionsOnlyWhilePending
<1>3. QED
    BY <1>1, <1>2 DEF Settle

(* add_reaction changes no promise, and parks a reaction only on p, and    *)
(* only when told that p is pending.                                       *)
LEMMA SubscribeStep ==
    ASSUME PromisesOK,
           NEW p \in Promises, NEW outcome, NEW v, NEW rx, NEW back,
           Subscribe(p, outcome, v, rx, back)
    PROVE  \A q \in Promises :
              reactions'[q] # reactions[q] => q = p /\ outcome = "pending"
BY DEF Subscribe, PromisesOK

(* js_promise_resolve_with, whichever of its ways it takes.                *)
LEMMA ResolveStep ==
    ASSUME PromisesOK, ReactionsOnlyWhilePending,
           NEW p \in Promises, NEW v \in Values, NEW back,
           ResolveWith(p, v, back)
    PROVE  PromiseStep
<1>1. CASE v \notin Promises /\ Settle(p, "fulfilled", v, back)
    <2>1. v \in Plain
        BY <1>1 DEF Values
    <2>2. QED
        BY <1>1, <2>1, SettleStep
<1>2. CASE v = p /\ Settle(p, "rejected", EngineError, back)
    <2>1. EngineError \in Values
        BY MicrotaskConstants DEF Values
    <2>2. QED
        BY <1>2, <2>1, SettleStep
<1>3. CASE /\ v \in Promises \ {p}
           /\ Subscribe(v, state[v], value[v],
                        ThenReaction(v, "none", "none", p), back)
           /\ UNCHANGED <<state, value>>
    <2>1. \A q \in Promises :
             reactions'[q] # reactions[q] => q = v /\ state[v] = "pending"
        BY <1>3 DEF Subscribe, PromisesOK
    <2>2. QED
        BY <1>3, <2>1 DEF PromiseStep, ReactionsOnlyWhilePending
<1>4. CASE /\ v \in Promises \ {p}
           /\ Refused(back)
           /\ UNCHANGED <<state, value>>
    BY <1>4 DEF Refused, PromiseStep, ReactionsOnlyWhilePending
<1>5. QED
    BY <1>1, <1>2, <1>3, <1>4 DEF ResolveWith

(* What ends an activation resolves a promise, rejects one, or awaits.     *)
LEMMA FinishCases ==
    ASSUME TypeOK, Finish
    PROVE  \/ \E p \in Promises, v \in Values, back \in {0, 1} :
                 /\ back = Back
                 /\ ResolveWith(p, v, back) \/ Settle(p, "rejected", v, back)
           \/ \E p \in Promises : Await(p)
           \/ \E p \in Promises, v \in Resolutions : AwaitValue(v, p)
<1> USE DEF TypeOK
<1>1. PICK back \in {0, 1} : back = Back
    BY DEF Back
<1>2. Resolutions \subseteq Values /\ Reasons \cup {EngineError} \subseteq Values
    BY MicrotaskConstants DEF Values
<1>3. ASSUME NEW v \in Resolutions, FiberReturn(v)
      PROVE  \E p \in Promises : ResolveWith(p, v, back)
    <2>1. PICK p \in Promises : p = fpromise[Top.fiber]
        BY <1>3, TopFiber DEF FiberReturn, Called
    <2>2. QED
        BY <1>1, <1>3, <2>1 DEF FiberReturn
<1>4. ASSUME NEW reason \in Reasons \cup {EngineError}, FiberThrow(reason)
      PROVE  \E p \in Promises : Settle(p, "rejected", reason, back)
    <2>1. PICK p \in Promises : p = fpromise[Top.fiber]
        BY <1>4, TopFiber DEF FiberThrow, Called
    <2>2. QED
        BY <1>1, <1>4, <2>1 DEF FiberThrow
<1>5. ASSUME NEW v \in Resolutions, HandlerReturn(v)
      PROVE  \E p \in Promises : ResolveWith(p, v, back)
    <2>1. PICK p \in Promises : p = Top.job.rx.result
        BY <1>5, TopJob DEF HandlerReturn, ThenReactions
    <2>2. QED
        BY <1>1, <1>5, <2>1 DEF HandlerReturn
<1>6. ASSUME NEW reason \in Reasons \cup {EngineError}, HandlerThrow(reason)
      PROVE  \E p \in Promises : Settle(p, "rejected", reason, back)
    <2>1. PICK p \in Promises : p = Top.job.rx.result
        BY <1>6, TopJob DEF HandlerThrow, ThenReactions
    <2>2. QED
        BY <1>1, <1>6, <2>1 DEF HandlerThrow
<1>7. ASSUME PassThrough
      PROVE  \E p \in Promises, v \in Values :
                ResolveWith(p, v, back) \/ Settle(p, "rejected", v, back)
    <2>1. Top.job \in Job /\ Top.job.rx \in ThenReactions
        BY <1>7, PassThroughFrame
    <2>2. PICK p \in Promises : p = Top.job.rx.result
        BY <2>1 DEF ThenReactions
    <2>3. PICK v \in Values : v = Top.job.value
        BY <2>1 DEF Job
    <2>4. QED
        BY <1>1, <1>7, <2>2, <2>3 DEF PassThrough
<1>8. QED
    BY <1>1, <1>2, <1>3, <1>4, <1>5, <1>6, <1>7 DEF Finish

(* No step of the engine, whatever it is, unsettles a promise, fulfils one *)
(* with a promise, or leaves a reaction on a settled one.                  *)
LEMMA EveryPromiseStep ==
    ASSUME TypeOK, ReactionsOnlyWhilePending, [Next]_vars
    PROVE  PromiseStep
<1> USE DEF TypeOK
<1>1. CASE Code
    <2>1. ASSUME NEW p \in Promises, NewPromise(p)
          PROVE  PromiseStep
        BY <2>1 DEF NewPromise, PromiseStep, PromisesOK, ReactionsOnlyWhilePending
    <2>2. ASSUME NEW p \in Promises, NEW r \in Promises, NEW h \in HandlerPairs,
                 Then(p, h[1], h[2], r)
          PROVE  PromiseStep
        <3>1. /\ state[r] = "absent"
              /\ state' = [state EXCEPT ![r] = "pending"]
              /\ value' = value
            BY <2>2 DEF Then
        <3>2. \A q \in Promises :
                 reactions'[q] # reactions[q] => q = p /\ state[p] = "pending"
            BY <2>2 DEF Then, Subscribe, PromisesOK
        <3>3. QED
            BY <3>1, <3>2 DEF PromiseStep, PromisesOK, ReactionsOnlyWhilePending
    <2>3. ASSUME ThenRefused
          PROVE  PromiseStep
        BY <2>3 DEF ThenRefused, Refused, PromiseStep, ReactionsOnlyWhilePending
    <2>4. ASSUME NEW p \in Promises, NEW v \in Resolutions, Resolve(p, v)
          PROVE  PromiseStep
        BY <2>4, ResolveStep, MicrotaskConstants DEF Resolve
    <2>5. ASSUME NEW p \in Promises, NEW reason \in Reasons, Reject(p, reason)
          PROVE  PromiseStep
        BY <2>5, SettleStep, MicrotaskConstants DEF Reject
    <2>6. ASSUME NEW p \in Promises, NEW f \in Fibers, CallAsync(f, p)
          PROVE  PromiseStep
        BY <2>6 DEF CallAsync, PromiseStep, PromisesOK, ReactionsOnlyWhilePending
    <2>7. QED
        BY <1>1, <2>1, <2>2, <2>3, <2>4, <2>5, <2>6 DEF Code
<1>2. CASE Finish
    <2>1. ASSUME NEW p \in Promises, NEW v \in Values, NEW back \in {0, 1},
                 ResolveWith(p, v, back) \/ Settle(p, "rejected", v, back)
          PROVE  PromiseStep
        BY <2>1, ResolveStep, SettleStep
    <2>2. ASSUME NEW p \in Promises, Await(p)
          PROVE  PromiseStep
        <3>1. \A q \in Promises :
                 reactions'[q] # reactions[q] => q = p /\ state[p] = "pending"
            BY <2>2 DEF Await, Subscribe, PromisesOK
        <3>2. UNCHANGED <<state, value>>
            BY <2>2 DEF Await
        <3>3. QED
            BY <3>1, <3>2 DEF PromiseStep, ReactionsOnlyWhilePending
    <2>3. ASSUME NEW p \in Promises, NEW v \in Resolutions, AwaitValue(v, p)
          PROVE  PromiseStep
        <3>1. reactions' = reactions
            BY <2>3 DEF AwaitValue, Subscribe
        <3>2. /\ state[p] = "absent"
              /\ state' = [state EXCEPT ![p] = "fulfilled"]
              /\ value' = [value EXCEPT ![p] = v]
            BY <2>3 DEF AwaitValue
        <3>3. v \in Plain
            BY <2>3, MicrotaskConstants DEF AwaitValue, Values
        <3>4. QED
            BY <3>1, <3>2, <3>3 DEF PromiseStep, PromisesOK, ReactionsOnlyWhilePending
    <2>4. QED
        BY <1>2, <2>1, <2>2, <2>3, FinishCases
<1>3. CASE Drain \/ Interrupt \/ ClearInterrupt \/ UNCHANGED vars
    <2>1. UNCHANGED promiseVars
        BY <1>3 DEF Drain, EnterDrain, StartJob, LeaveDrain, Interrupt,
                    ClearInterrupt, promiseVars, vars
    <2>2. QED
        BY <2>1 DEF promiseVars, PromiseStep, ReactionsOnlyWhilePending
<1>4. QED
    BY <1>1, <1>2, <1>3 DEF Next

PromiseInv == TypeOK /\ ReactionsOnlyWhilePending /\ FulfilledPlain

LEMMA PromiseInvStep ==
    PromiseInv /\ [Next]_vars => PromiseInv' /\ PromiseStep
<1> SUFFICES ASSUME PromiseInv, [Next]_vars
             PROVE  PromiseInv' /\ PromiseStep
    OBVIOUS
<1>1. PromiseStep
    BY EveryPromiseStep DEF PromiseInv
<1>2. TypeOK'
    BY TypeStep DEF PromiseInv
<1>3. ReactionsOnlyWhilePending'
    BY <1>1 DEF PromiseStep, ReactionsOnlyWhilePending
<1>4. FulfilledPlain'
    BY <1>1 DEF PromiseStep, PromiseInv, FulfilledPlain
<1>5. QED
    BY <1>1, <1>2, <1>3, <1>4 DEF PromiseInv

LEMMA PromiseInvInit == Init => PromiseInv
<1> SUFFICES ASSUME Init
             PROVE  PromiseInv
    OBVIOUS
<1>1. TypeOK
    BY InitType
<1>2. ReactionsOnlyWhilePending /\ FulfilledPlain
    BY DEF Init, ReactionsOnlyWhilePending, FulfilledPlain
<1>3. QED
    BY <1>1, <1>2 DEF PromiseInv

(* Settling a promise takes every reaction it has, and a reaction that     *)
(* comes later is never parked on it (add_reaction, settle): no handler    *)
(* waits on a promise that will not settle again.                          *)
THEOREM ReactionsMeanPending == Spec => []ReactionsOnlyWhilePending
<1>1. PromiseInv => ReactionsOnlyWhilePending
    BY DEF PromiseInv
<1>2. QED
    BY <1>1, PromiseInvInit, PromiseInvStep, PTL DEF Spec

(* However a promise is resolved, by a handler's result, by an async       *)
(* function's return or by the host, a promise is adopted and never        *)
(* becomes the value (js_promise_resolve_with).                            *)
THEOREM NeverFulfilledWithPromise == Spec => []FulfilledPlain
<1>1. PromiseInv => FulfilledPlain
    BY DEF PromiseInv
<1>2. QED
    BY <1>1, PromiseInvInit, PromiseInvStep, PTL DEF Spec

(* "A promise settles once" (js_promise.c:4), for any number of promises   *)
(* and callers of its resolving functions.                                 *)
THEOREM PromisesSettleOnce == Spec => SettleOnce
<1>1. PromiseStep =>
         [\A p \in Promises :
             state[p] \in {"fulfilled", "rejected"} =>
                state'[p] = state[p] /\ value'[p] = value[p]]_vars
    BY DEF PromiseStep
<1>2. QED
    BY <1>1, PromiseInvInit, PromiseInvStep, PTL DEF Spec, SettleOnce

-----------------------------------------------------------------------------
(* Places.  A reaction waits on its promise or in the queue, is active on  *)
(* the C stack, or is done: each reaction is in one of these places, once, *)
(* and every step moves reactions from one to the next.                    *)

(* Where the numbers of reactions are.                                     *)
ListIds  == {rx.id : rx \in UNION {Listed(p) : p \in Promises}}
WaitIds  == {rx.id : rx \in Waiting}
TakenIds == {rx.id : rx \in Active} \cup done
Ids      == 1..(nextId - 1)

-----------------------------------------------------------------------------
(* The lists of a promise: newest first, all of them registered on it.     *)
ListInv ==
    /\ nextId \in 1..(MaxReactions + 1)
    /\ \A p \in Promises :
          /\ Len(reactions[p]) < nextId
          /\ \A i \in DOMAIN reactions[p] :
                reactions[p][i].id \in Ids /\ reactions[p][i].on = p
          /\ \A i, j \in DOMAIN reactions[p] :
                i < j => reactions[p][j].id < reactions[p][i].id
    /\ \A p, q \in Promises : p # q =>
          \A i \in DOMAIN reactions[p], j \in DOMAIN reactions[q] :
             reactions[p][i].id # reactions[q][j].id

(* The queue: the jobs of each promise oldest first.                       *)
QueueInv ==
    /\ \A i \in DOMAIN queue :
          /\ queue[i].rx.id \in Ids
          /\ state[queue[i].rx.on] \in {"fulfilled", "rejected"}
    /\ \A i, j \in DOMAIN queue : i < j =>
          /\ queue[i].rx.id # queue[j].rx.id
          /\ queue[i].rx.on = queue[j].rx.on => queue[i].rx.id < queue[j].rx.id
    /\ \A p \in Promises : \A i \in DOMAIN reactions[p], j \in DOMAIN queue :
          reactions[p][i].id # queue[j].rx.id

(* The C stack.                                                            *)
ActiveInv ==
    /\ \A i, j \in RunningJobs :
          stack[i].job.rx.id = stack[j].job.rx.id => i = j
    /\ \A i \in RunningJobs : stack[i].job.rx.id \notin done

(* Together they are all the reactions ever registered.                    *)
PlacesInv == WaitIds \cap TakenIds = {} /\ WaitIds \cup TakenIds = Ids

(* Every reaction on a list has a spare node.                              *)
Reserved == MayFail => Cardinality(ListIds) <= free

(* The reserve outlasts the outermost drain, which trims the free list,    *)
(* when no allocation fails or no more reactions are pending than a trim   *)
(* keeps.  The theorems assume it of every state.                          *)
ReserveKept == MayFail => PendingReactions <= FreeMax

LostInv == /\ PromiseInv /\ ListInv /\ QueueInv /\ ActiveInv
           /\ PlacesInv /\ Reserved

(* A fiber is waited for or runs, in one place, as its state says.         *)
Once(f) == \A i, j \in Activations(f) : i = j

FiberAt(f) ==
    /\ fstate[f] = "suspended" <=> \E rx \in Waiting : rx.fiber = f
    /\ \A rx, ry \in Waiting : rx.fiber = f /\ ry.fiber = f => rx = ry
    /\ fstate[f] = "running" <=> Activations(f) # {}
    /\ Once(f)

FibersInv == \A f \in Fibers : FiberAt(f)

(* The promises that have been handed out: by then, and by the async       *)
(* functions that have ended.                                              *)
Promised == derived \cup {fpromise[f] : f \in {g \in Fibers : fstate[g] = "done"}}

(* Each of them is settled, or a reaction will settle it.                  *)
Owing(r) ==
    /\ r \in Promises /\ state[r] # "absent"
    /\ state[r] = "pending" => \E rx \in Waiting \cup Active : rx.result = r

OwedInv ==
    /\ \A f \in Fibers : fstate[f] # "none" => f \in Called /\ state[fpromise[f]] # "absent"
    /\ \A r \in Promised : Owing(r)

-----------------------------------------------------------------------------
(* Lists and the queue.                                                    *)

Settled == {"fulfilled", "rejected"}

IdsOn(p) == {rx.id : rx \in Listed(p)}

(* The types as the lemmas below use them.                                 *)
LEMMA SomeTypes ==
    ASSUME TypeOK
    PROVE  /\ state \in [Promises -> {"absent", "pending"} \cup Settled]
           /\ value \in [Promises -> Values]
           /\ reactions \in [Promises -> Seq(Reaction)]
           /\ queue \in Seq(Job) /\ free \in Nat /\ nextId \in Nat
           /\ stack \in Seq(Frame)
           /\ \A p \in Promises :
                 /\ Len(reactions[p]) \in Nat
                 /\ DOMAIN reactions[p] = 1..Len(reactions[p])
                 /\ \A i \in DOMAIN reactions[p] : reactions[p][i] \in Reaction
           /\ Len(queue) \in Nat /\ DOMAIN queue = 1..Len(queue)
           /\ \A i \in DOMAIN queue : queue[i] \in Job /\ queue[i].rx \in Reaction
<1>1. /\ state \in [Promises -> {"absent", "pending"} \cup Settled]
      /\ value \in [Promises -> Values]
      /\ reactions \in [Promises -> Seq(Reaction)]
      /\ queue \in Seq(Job) /\ free \in Nat /\ nextId \in Nat
      /\ stack \in Seq(Frame)
    BY DEF TypeOK, PromisesOK, QueueOK, StackOK, Settled
<1>2. ASSUME NEW p \in Promises
      PROVE  /\ Len(reactions[p]) \in Nat
             /\ DOMAIN reactions[p] = 1..Len(reactions[p])
             /\ \A i \in DOMAIN reactions[p] : reactions[p][i] \in Reaction
  <2>1. reactions[p] \in Seq(Reaction)
      BY <1>1
  <2>2. QED
      BY <2>1, LenProperties, ElementOfSeq
<1>3. /\ Len(queue) \in Nat /\ DOMAIN queue = 1..Len(queue)
      /\ \A i \in DOMAIN queue : queue[i] \in Job
    BY <1>1, LenProperties, ElementOfSeq
<1>4. QED
    BY <1>1, <1>2, <1>3, JobIds

(* A list has as many numbers as reactions; all of them are finitely many. *)
LEMMA ListCount ==
    ASSUME TypeOK, ListInv, NEW p \in Promises
    PROVE  /\ IsFiniteSet(ListIds) /\ ListIds \subseteq Ids
           /\ IdsOn(p) \subseteq ListIds
           /\ IsFiniteSet(IdsOn(p)) /\ Cardinality(IdsOn(p)) = Len(reactions[p])
<1>1. ListIds \subseteq Ids /\ IdsOn(p) \subseteq ListIds
    BY DEF ListIds, IdsOn, Listed, ListInv
<1>2. IsFiniteSet(Ids)
  <2>1. 1 \in Int /\ nextId - 1 \in Int
      BY SomeTypes
  <2>2. QED
      BY <2>1, FS_Interval DEF Ids
<1>3. IsFiniteSet(ListIds) /\ IsFiniteSet(IdsOn(p))
    BY <1>1, <1>2, FS_Subset
<1>4. Cardinality(IdsOn(p)) = Len(reactions[p])
  <2>. DEFINE n == Len(reactions[p])
              f == [i \in 1..n |-> reactions[p][i].id]
  <2>1. n \in Nat /\ DOMAIN reactions[p] = 1..n
      BY SomeTypes
  <2>2. f \in [1..n -> IdsOn(p)]
      BY <2>1 DEF IdsOn, Listed
  <2>3. ASSUME NEW i \in 1..n, NEW j \in 1..n, f[i] = f[j] PROVE i = j
    <3>1. \A k \in 1..n : reactions[p][k].id \in Nat
        BY <2>1, SomeTypes DEF ListInv, Ids
    <3>2. ~(i < j) /\ ~(j < i)
        BY <2>1, <2>3, <3>1 DEF ListInv
    <3>3. QED
        BY <3>2
  <2>4. \A x \in IdsOn(p) : \E i \in 1..n : f[i] = x
      BY <2>1 DEF IdsOn, Listed
  <2>5. f \in Bijection(1..n, IdsOn(p))
      BY <2>2, <2>3, <2>4, Fun_IsBij
  <2>6. ExistsBijection(1..n, IdsOn(p))
      BY <2>5 DEF ExistsBijection
  <2>7. QED
      BY <2>1, <2>6, FS_CountingElements
<1>5. QED
    BY <1>1, <1>3, <1>4

(* With a spare node for each of them, all reactions of p get a job.       *)
LEMMA AllServed ==
    ASSUME LostInv, NEW p \in Promises
    PROVE  LET n == Len(reactions[p])
           IN  Served(n) = {[i \in 1..n |-> i]}
<1>1. MayFail => Len(reactions[p]) <= free
  <2>1. /\ Cardinality(IdsOn(p)) = Len(reactions[p])
        /\ Cardinality(IdsOn(p)) <= Cardinality(ListIds)
        /\ Cardinality(ListIds) \in Nat
      BY ListCount, FS_Subset, FS_CardinalityType DEF LostInv, PromiseInv
  <2>2. free \in Nat
      BY SomeTypes DEF LostInv, PromiseInv
  <2>3. QED
      BY <2>1, <2>2 DEF LostInv, Reserved
<1>2. QED
    BY <1>1, SomeTypes DEF Served, LostInv, PromiseInv

(* What waits, before and after a step.                                    *)
LEMMA InWaiting ==
    \A x : x \in Waiting <=>
       \/ \E p \in Promises : \E i \in DOMAIN reactions[p] : x = reactions[p][i]
       \/ \E k \in DOMAIN queue : x = queue[k].rx
<1>0. Waiting = (UNION {Listed(p) : p \in Promises}) \cup {queue[k].rx : k \in DOMAIN queue}
    BY DEF Waiting
<1>a. PICK U : U = UNION {Listed(p) : p \in Promises}
    OBVIOUS
<1>b. PICK Q : Q = {queue[k].rx : k \in DOMAIN queue}
    OBVIOUS
<1>1. \A x : x \in U <=> \E p \in Promises : \E i \in DOMAIN reactions[p] : x = reactions[p][i]
  <2>1. \A x, p : x \in Listed(p) <=> \E i \in DOMAIN reactions[p] : x = reactions[p][i]
      BY DEF Listed
  <2>2. \A x : x \in U <=> \E p \in Promises : x \in Listed(p)
      BY <1>a
  <2>3. QED
      BY <2>1, <2>2
<1>2. \A x : x \in Q <=> \E k \in DOMAIN queue : x = queue[k].rx
    BY <1>b
<1>3. Waiting = U \cup Q
    BY <1>0, <1>a, <1>b
<1>4. QED
    BY <1>1, <1>2, <1>3

(* The same after a step.                                                  *)
LEMMA InWaitingNext ==
    \A x : x \in Waiting' <=>
       \/ \E p \in Promises : \E i \in DOMAIN reactions'[p] : x = reactions'[p][i]
       \/ \E k \in DOMAIN queue' : x = queue'[k].rx
<1>0. Waiting' = (UNION {Listed(p)' : p \in Promises}) \cup {queue'[k].rx : k \in DOMAIN queue'}
    BY DEF Waiting
<1>a. PICK U : U = UNION {Listed(p)' : p \in Promises}
    OBVIOUS
<1>b. PICK Q : Q = {queue'[k].rx : k \in DOMAIN queue'}
    OBVIOUS
<1>1. \A x : x \in U <=> \E p \in Promises : \E i \in DOMAIN reactions'[p] : x = reactions'[p][i]
  <2>1. \A x, p : x \in Listed(p)' <=> \E i \in DOMAIN reactions'[p] : x = reactions'[p][i]
      BY DEF Listed
  <2>2. \A x : x \in U <=> \E p \in Promises : x \in Listed(p)'
      BY <1>a
  <2>3. QED
      BY <2>1, <2>2
<1>2. \A x : x \in Q <=> \E k \in DOMAIN queue' : x = queue'[k].rx
    BY <1>b
<1>3. Waiting' = U \cup Q
    BY <1>0, <1>a, <1>b
<1>4. QED
    BY <1>1, <1>2, <1>3

-----------------------------------------------------------------------------
(* How reactions move between lists and queue: none do but those that are  *)
(* new, and each spare node that a list needs is there afterwards.         *)
Moved(new, back) ==
    /\ ListInv' /\ QueueInv'
    /\ Waiting' = Waiting \cup new
    /\ Ids' = Ids \cup {rx.id : rx \in new}
    /\ \A rx \in new : rx.id \notin Ids
    /\ MayFail => Cardinality(ListIds') + back <= free'

(* Nothing moves.                                                          *)
LEMMA NothingMoves ==
    ASSUME LostInv, PromiseStep, NEW back \in {0, 1},
           UNCHANGED <<reactions, queue, nextId>>, free' \in Nat, free' >= free + back
    PROVE  Moved({}, back)
<1>1. ListInv' /\ ListIds' = ListIds
    BY DEF LostInv, ListInv, Ids, ListIds, Listed
<1>2. QueueInv'
  <2>1. \A i \in DOMAIN queue : queue[i].rx.on \in Promises
      BY SomeTypes DEF LostInv, PromiseInv, Reaction, ThenReactions, AwaitReactions
  <2>2. QED
      BY <2>1 DEF LostInv, QueueInv, Ids, PromiseStep
<1>3. Waiting' = Waiting /\ Ids' = Ids
    BY DEF Waiting, Listed, Ids
<1>4. MayFail => Cardinality(ListIds') + back <= free'
  <2>1. MayFail => Cardinality(ListIds) <= free
      BY DEF LostInv, Reserved
  <2>2. free \in Nat /\ (Promises # {} => Cardinality(ListIds) \in Nat)
      BY SomeTypes, ListCount, FS_CardinalityType DEF LostInv, PromiseInv
  <2>3. Promises = {} => ListIds = {}
      BY DEF ListIds
  <2>4. Cardinality(ListIds) \in Nat
      BY <2>2, <2>3, FS_EmptySet
  <2>5. QED
      BY <1>1, <2>1, <2>2, <2>4
<1>5. QED
    BY <1>1, <1>2, <1>3, <1>4 DEF Moved

(* settle: the reactions of p move into the queue, oldest first.           *)
LEMMA SettleQueues ==
    ASSUME LostInv, NEW p \in Promises, NEW outcome \in Settled,
           NEW v, NEW back, Settle(p, outcome, v, back), state[p] = "pending"
    PROVE  LET n == Len(reactions[p])
           IN  /\ state' = [state EXCEPT ![p] = outcome]
               /\ reactions' = [reactions EXCEPT ![p] = <<>>]
               /\ nextId' = nextId
               /\ DOMAIN queue' = 1..(Len(queue) + n)
               /\ \A i \in 1..Len(queue) : queue'[i] = queue[i]
               /\ \A i \in 1..n : queue'[Len(queue) + i].rx = reactions[p][(n - i) + 1]
               /\ MayFail => n <= free
               /\ free' = (IF n <= free THEN free - n ELSE 0) + back
<1>. DEFINE n == Len(reactions[p])
            rxs == Reverse(reactions[p])
            new == [i \in 1..n |-> JobOf(rxs[i], outcome, v)]
<1>1. n \in Nat /\ Len(queue) \in Nat
    BY SomeTypes DEF LostInv, PromiseInv
<1>2. Len(rxs) = n /\ \A i \in 1..n : rxs[i] = reactions[p][(n - i) + 1]
  <2>1. reactions[p] \in Seq(Reaction)
      BY SomeTypes DEF LostInv, PromiseInv
  <2>2. Len(rxs) = n
      BY <2>1, ReverseType
  <2>3. QED
      BY <2>2 DEF Reverse
<1>3. /\ state' = [state EXCEPT ![p] = outcome]
      /\ reactions' = [reactions EXCEPT ![p] = <<>>]
      /\ nextId' = nextId
      /\ free' = (IF n <= free THEN free - n ELSE 0) + back
      /\ \E pick \in Served(n) :
            queue' = queue \o [i \in DOMAIN pick |-> JobOf(rxs[pick[i]], outcome, v)]
    BY <1>2 DEF Settle
<1>4. Served(n) = {[i \in 1..n |-> i]}
    BY AllServed
<1>5. queue' = queue \o new
    BY <1>3, <1>4
<1>6. Len(new) = n /\ DOMAIN new = 1..n /\ Len(queue) = Len(queue)
    BY <1>1
<1>7. queue \in Seq(Job) /\ new \in Seq({JobOf(rxs[i], outcome, v) : i \in 1..n})
  <2>1. new \in [1..n -> {JobOf(rxs[i], outcome, v) : i \in 1..n}]
      OBVIOUS
  <2>2. QED
      BY <1>1, <2>1, SomeTypes, SeqDef DEF LostInv, PromiseInv
<1>. HIDE DEF new, rxs
<1>8. /\ DOMAIN queue' = 1..(Len(queue) + n)
      /\ \A i \in 1..(Len(queue) + n) :
            queue'[i] = IF i <= Len(queue) THEN queue[i] ELSE new[i - Len(queue)]
  <2>1. PICK S : S = Job \cup {JobOf(rxs[i], outcome, v) : i \in 1..n}
      OBVIOUS
  <2>2. queue \in Seq(S) /\ new \in Seq(S)
      BY <1>7, <2>1
  <2>3. /\ queue \o new \in Seq(S) /\ Len(queue \o new) = Len(queue) + Len(new)
        /\ \A i \in 1..(Len(queue) + Len(new)) :
              (queue \o new)[i] = IF i <= Len(queue) THEN queue[i] ELSE new[i - Len(queue)]
      BY <2>2, ConcatProperties
  <2>4. DOMAIN (queue \o new) = 1..Len(queue \o new)
      BY <2>3, LenProperties
  <2>5. QED
      BY <2>3, <2>4, <1>5, <1>6
<1>9. \A i \in 1..n : queue'[Len(queue) + i].rx = reactions[p][(n - i) + 1]
  <2>1. \A i \in 1..n : new[i].rx = rxs[i]
      BY DEF new, JobOf
  <2>2. ASSUME NEW i \in 1..n PROVE queue'[Len(queue) + i] = new[i]
      BY <1>1, <1>8
  <2>3. QED
      BY <1>2, <2>1, <2>2
<1>10. MayFail => n <= free
  <2>1. /\ Cardinality(IdsOn(p)) = n
        /\ Cardinality(IdsOn(p)) <= Cardinality(ListIds)
        /\ Cardinality(ListIds) \in Nat
      BY ListCount, FS_Subset, FS_CardinalityType DEF LostInv, PromiseInv
  <2>2. free \in Nat
      BY SomeTypes DEF LostInv, PromiseInv
  <2>3. QED
      BY <2>1, <2>2, <1>1 DEF LostInv, Reserved
<1>11. \A i \in 1..Len(queue) : queue'[i] = queue[i]
    BY <1>1, <1>8
<1>12. QED
    BY <1>3, <1>8, <1>9, <1>10, <1>11

(* Settling moves reactions from a list to the queue and adds none.        *)
LEMMA SettleMoves ==
    ASSUME LostInv, PromiseStep, NEW p \in Promises, NEW outcome \in Settled,
           NEW v, NEW back \in {0, 1}, Settle(p, outcome, v, back)
    PROVE  Moved({}, back)
<1>1. CASE state[p] # "pending"
  <2>1. UNCHANGED <<reactions, queue, nextId>> /\ free' = free + back
      BY <1>1 DEF Settle, promiseVars
  <2>2. free' \in Nat /\ free' >= free + back
      BY <2>1, SomeTypes DEF LostInv, PromiseInv
  <2>3. QED
      BY <2>1, <2>2, NothingMoves
<1>2. CASE state[p] = "pending"
  <2>. DEFINE n == Len(reactions[p])
              l == Len(queue)
  <2>1. /\ state' = [state EXCEPT ![p] = outcome]
        /\ reactions' = [reactions EXCEPT ![p] = <<>>]
        /\ nextId' = nextId
        /\ DOMAIN queue' = 1..(l + n)
        /\ \A i \in 1..l : queue'[i] = queue[i]
        /\ \A i \in 1..n : queue'[l + i].rx = reactions[p][(n - i) + 1]
        /\ MayFail => n <= free
        /\ free' = (IF n <= free THEN free - n ELSE 0) + back
      BY <1>2, SettleQueues
  <2>2. /\ n \in Nat /\ l \in Nat /\ free \in Nat /\ DOMAIN queue = 1..l
        /\ DOMAIN reactions[p] = 1..n
        /\ \A i \in 1..n : reactions[p][i].id \in Nat
        /\ \A i \in 1..l : queue[i].rx.id \in Nat /\ queue[i].rx.on \in Promises
    <3>1. /\ n \in Nat /\ l \in Nat /\ free \in Nat /\ DOMAIN queue = 1..l
          /\ DOMAIN reactions[p] = 1..n
          /\ \A i \in 1..n : reactions[p][i] \in Reaction
          /\ \A i \in 1..l : queue[i].rx \in Reaction
        BY SomeTypes DEF LostInv, PromiseInv
    <3>2. \A rx \in Reaction : rx.id \in Nat /\ rx.on \in Promises
        BY DEF Reaction, ThenReactions, AwaitReactions
    <3>3. QED
        BY <3>1, <3>2
  <2>3. \A q \in Promises : reactions'[q] = IF q = p THEN <<>> ELSE reactions[q]
      BY <2>1, SomeTypes DEF LostInv, PromiseInv
  <2>. HIDE DEF n, l
  <2>4. \A k \in DOMAIN queue' :
            \/ k \in 1..l /\ queue'[k] = queue[k]
            \/ \E i \in 1..n : k = (l + n + 1) - i /\ queue'[k].rx = reactions[p][i]
    <3>1. ASSUME NEW k \in 1..(l + n), k \notin 1..l
          PROVE  \E i \in 1..n : k = (l + n + 1) - i /\ queue'[k].rx = reactions[p][i]
      <4>1. k - l \in 1..n /\ (n - (k - l)) + 1 \in 1..n /\ l + (k - l) = k
          BY <3>1, <2>2
      <4>2. k = (l + n + 1) - ((n - (k - l)) + 1)
          BY <3>1, <2>2
      <4>3. QED
          BY <4>1, <4>2, <2>1
    <3>2. QED
        BY <3>1, <2>1
  <2>5. \A i \in 1..n : (l + n + 1) - i \in DOMAIN queue' /\
            queue'[(l + n + 1) - i].rx = reactions[p][i]
    <3>1. ASSUME NEW i \in 1..n
          PROVE  (l + n + 1) - i \in 1..(l + n) /\ queue'[(l + n + 1) - i].rx = reactions[p][i]
      <4>1. (n - i) + 1 \in 1..n /\ l + ((n - i) + 1) = (l + n + 1) - i
            /\ (n - ((n - i) + 1)) + 1 = i
          BY <2>2
      <4>2. PICK j \in 1..n : j = (n - i) + 1 /\ (n - j) + 1 = i /\ l + j = (l + n + 1) - i
          BY <4>1
      <4>3. queue'[l + j].rx = reactions[p][(n - j) + 1] /\ l + j \in 1..(l + n)
        <5>1. queue'[l + j].rx = reactions[p][(n - j) + 1]
            BY <2>1
        <5>2. l + j \in 1..(l + n)
            BY <2>2
        <5>3. QED
            BY <5>1, <5>2
      <4>4. QED
          BY <4>2, <4>3
    <3>2. QED
        BY <3>1, <2>1
  <2>6. Waiting' = Waiting
    <3>1. ASSUME NEW x \in Waiting' PROVE x \in Waiting
      <4>1. CASE \E q \in Promises : \E i \in DOMAIN reactions'[q] : x = reactions'[q][i]
        <5>1. \E q \in Promises : \E i \in DOMAIN reactions[q] : x = reactions[q][i]
            BY <4>1, <2>3
        <5>2. QED
            BY <5>1, InWaiting
      <4>2. CASE \E k \in DOMAIN queue' : x = queue'[k].rx
        <5>1. PICK k \in DOMAIN queue' : x = queue'[k].rx
            BY <4>2
        <5>2. CASE k \in 1..l /\ queue'[k] = queue[k]
            BY <5>1, <5>2, <2>2, InWaiting
        <5>3. CASE \E i \in 1..n : queue'[k].rx = reactions[p][i]
            BY <5>1, <5>3, <2>2, InWaiting
        <5>4. QED
            BY <5>2, <5>3, <2>4
      <4>3. QED
          BY <3>1, <4>1, <4>2, InWaitingNext
    <3>2. ASSUME NEW q \in Promises, NEW i \in DOMAIN reactions[q]
          PROVE  reactions[q][i] \in Waiting'
      <4>1. CASE q = p
        <5>1. PICK k \in DOMAIN queue' : queue'[k].rx = reactions[p][i]
            BY <3>2, <4>1, <2>2, <2>5
        <5>2. QED
            BY <4>1, <5>1, InWaitingNext
      <4>2. CASE q # p
        <5>1. reactions'[q] = reactions[q]
            BY <4>2, <2>3
        <5>2. QED
            BY <3>2, <5>1, InWaitingNext
      <4>3. QED
          BY <4>1, <4>2
    <3>3. ASSUME NEW k \in DOMAIN queue PROVE queue[k].rx \in Waiting'
      <4>1. k \in DOMAIN queue' /\ queue'[k] = queue[k]
          BY <3>3, <2>1, <2>2
      <4>2. QED
          BY <4>1, InWaitingNext
    <3>4. \A x \in Waiting : x \in Waiting'
        BY <3>2, <3>3, InWaiting
    <3>5. QED
        BY <3>1, <3>4
  <2>7. ListInv'
    <3>1. nextId \in 1..(MaxReactions + 1) /\ Len(<<>>) = 0 /\ DOMAIN <<>> = {}
        BY DEF LostInv, ListInv
    <3>2. 0 < nextId
        BY <3>1, MicrotaskConstants
    <3>3. QED
        BY <2>1, <2>3, <3>1, <3>2 DEF LostInv, ListInv, Ids
  <2>8. QueueInv'
    <3>1. ListInv /\ QueueInv
        BY DEF LostInv
    <3>2. \A i \in 1..l : state[queue[i].rx.on] \in Settled /\ queue[i].rx.on # p
        BY <1>2, <2>2, <3>1 DEF QueueInv, Settled
    <3>3. ASSUME NEW k \in DOMAIN queue'
          PROVE  queue'[k].rx.id \in Ids /\ state'[queue'[k].rx.on] \in {"fulfilled", "rejected"}
      <4>1. CASE k \in 1..l /\ queue'[k] = queue[k]
          BY <4>1, <3>1, <3>2, <2>2 DEF QueueInv, PromiseStep, Settled
      <4>2. ASSUME NEW i \in 1..n, queue'[k].rx = reactions[p][i]
            PROVE  /\ queue'[k].rx.id \in Ids
                   /\ state'[queue'[k].rx.on] \in {"fulfilled", "rejected"}
        <5>1. reactions[p][i].on = p /\ reactions[p][i].id \in Ids
            BY <3>1, <2>2 DEF ListInv
        <5>2. state'[p] = outcome
            BY <2>1, SomeTypes DEF LostInv, PromiseInv
        <5>3. QED
            BY <4>2, <5>1, <5>2 DEF Settled
      <4>3. QED
          BY <2>4, <4>1, <4>2
    <3>4. ASSUME NEW i \in DOMAIN queue', NEW j \in DOMAIN queue', i < j
          PROVE  /\ queue'[i].rx.id # queue'[j].rx.id
                 /\ queue'[i].rx.on = queue'[j].rx.on => queue'[i].rx.id < queue'[j].rx.id
      <4>1. CASE j \in 1..l /\ queue'[j] = queue[j]
        <5>1. i \in 1..l /\ queue'[i] = queue[i]
            BY <4>1, <3>4, <2>1, <2>2
        <5>2. QED
            BY <4>1, <5>1, <3>1, <3>4, <2>2 DEF QueueInv
      <4>2. ASSUME NEW b \in 1..n, j = (l + n + 1) - b, queue'[j].rx = reactions[p][b],
                   i \in 1..l, queue'[i] = queue[i]
            PROVE  /\ queue'[i].rx.id # queue'[j].rx.id
                   /\ queue'[i].rx.on # queue'[j].rx.on
        <5>1. reactions[p][b].on = p /\ reactions[p][b].id # queue[i].rx.id
            BY <4>2, <3>1, <2>2 DEF ListInv, QueueInv
        <5>2. QED
            BY <4>2, <5>1, <3>2
      <4>3. ASSUME NEW b \in 1..n, j = (l + n + 1) - b, queue'[j].rx = reactions[p][b],
                   NEW a \in 1..n, i = (l + n + 1) - a, queue'[i].rx = reactions[p][a]
            PROVE  queue'[i].rx.id < queue'[j].rx.id
        <5>1. b < a
            BY <4>3, <3>4, <2>2
        <5>2. reactions[p][a].id < reactions[p][b].id
            BY <5>1, <3>1, <2>2 DEF ListInv
        <5>3. QED
            BY <4>3, <5>2
      <4>4. \A x \in DOMAIN queue' : queue'[x].rx.id \in Nat
          BY <2>2, <2>4
      <4>5. ASSUME NEW b \in 1..n, j = (l + n + 1) - b, queue'[j].rx = reactions[p][b]
            PROVE  /\ queue'[i].rx.id # queue'[j].rx.id
                   /\ queue'[i].rx.on = queue'[j].rx.on => queue'[i].rx.id < queue'[j].rx.id
        <5>1. CASE i \in 1..l /\ queue'[i] = queue[i]
            BY <4>5, <5>1, <4>2
        <5>2. ASSUME NEW a \in 1..n, i = (l + n + 1) - a, queue'[i].rx = reactions[p][a]
              PROVE  queue'[i].rx.id < queue'[j].rx.id
            BY <4>5, <5>2, <4>3
        <5>3. QED
            BY <2>4, <4>4, <5>1, <5>2
      <4>6. QED
          BY <2>4, <4>1, <4>5
    <3>5. ASSUME NEW q \in Promises, NEW i \in DOMAIN reactions'[q], NEW j \in DOMAIN queue'
          PROVE  reactions'[q][i].id # queue'[j].rx.id
      <4>1. q # p /\ i \in DOMAIN reactions[q] /\ reactions'[q][i] = reactions[q][i]
          BY <3>5, <2>3
      <4>2. CASE j \in 1..l /\ queue'[j] = queue[j]
          BY <4>1, <4>2, <3>1, <2>2 DEF QueueInv
      <4>3. CASE \E b \in 1..n : queue'[j].rx = reactions[p][b]
          BY <4>1, <4>3, <3>1, <2>2 DEF ListInv
      <4>4. QED
          BY <2>4, <4>2, <4>3
    <3>6. Ids' = Ids
        BY <2>1 DEF Ids
    <3>7. QED
        BY <3>3, <3>4, <3>5, <3>6 DEF QueueInv
  <2>9. MayFail => Cardinality(ListIds') + back <= free'
    <3>1. ListIds' = ListIds \ IdsOn(p)
      <4>1. ASSUME NEW q \in Promises, q # p, NEW i \in DOMAIN reactions[q]
            PROVE  reactions[q][i].id \notin IdsOn(p)
          BY <4>1 DEF LostInv, ListInv, IdsOn, Listed
      <4>2. QED
          BY <2>3, <4>1 DEF ListIds, IdsOn, Listed
    <3>2. /\ IsFiniteSet(ListIds) /\ IdsOn(p) \subseteq ListIds
          /\ Cardinality(IdsOn(p)) = n
        BY ListCount DEF LostInv, PromiseInv, n
    <3>3. Cardinality(ListIds \ IdsOn(p)) = Cardinality(ListIds) - n
      <4>1. ListIds \cap IdsOn(p) = IdsOn(p)
          BY <3>2
      <4>2. QED
          BY <3>2, <4>1, FS_Difference
    <3>4. Cardinality(ListIds) \in Nat
        BY <3>2, FS_CardinalityType
    <3>5. MayFail => Cardinality(ListIds) <= free
        BY DEF LostInv, Reserved
    <3>6. QED
        BY <2>1, <2>2, <3>1, <3>3, <3>4, <3>5
  <2>10. QED
      BY <2>1, <2>6, <2>7, <2>8, <2>9 DEF Moved, Ids
<1>3. QED
    BY <1>1, <1>2

(* A number that has been given out is smaller than the next one.          *)
LEMMA IdsBelow ==
    ASSUME LostInv
    PROVE  /\ nextId \in Nat \ {0} /\ free \in Nat
           /\ \A id \in Ids : id \in Nat /\ id < nextId
           /\ nextId \notin Ids
<1>1. nextId \in Nat \ {0} /\ free \in Nat
    BY SomeTypes, MicrotaskConstants DEF LostInv, PromiseInv, ListInv
<1>2. QED
    BY <1>1 DEF Ids

(* add_reaction on a pending promise: the reaction is the newest on its    *)
(* list.                                                                   *)
LEMMA ParkMoves ==
    ASSUME LostInv, PromiseStep, NEW p \in Promises, NEW rx \in Reaction,
           rx.id = nextId, rx.on = p, NEW back \in {0, 1},
           nextId <= MaxReactions, nextId' = nextId + 1,
           reactions' = [reactions EXCEPT ![p] = <<rx>> \o @],
           free' = free + 1 + back, queue' = queue
    PROVE  Moved({rx}, back)
<1>. DEFINE n == Len(reactions[p])
<1>1. /\ ListInv /\ QueueInv
      /\ nextId \in Nat \ {0} /\ free \in Nat /\ n \in Nat
      /\ \A id \in Ids : id \in Nat /\ id < nextId
      /\ DOMAIN reactions[p] = 1..n
    BY IdsBelow, SomeTypes DEF LostInv, PromiseInv
<1>2. Ids' = Ids \cup {nextId} /\ nextId' \in 1..(MaxReactions + 1)
    BY <1>1, MicrotaskConstants DEF Ids
<1>3. /\ Len(reactions'[p]) = n + 1 /\ DOMAIN reactions'[p] = 1..(n + 1)
      /\ reactions'[p][1] = rx
      /\ \A i \in 1..n : reactions'[p][i + 1] = reactions[p][i]
  <2>1. reactions'[p] = <<rx>> \o reactions[p] /\ reactions[p] \in Seq(Reaction)
      BY SomeTypes DEF LostInv, PromiseInv
  <2>2. <<rx>> \in Seq(Reaction) /\ Len(<<rx>>) = 1 /\ <<rx>>[1] = rx
      OBVIOUS
  <2>3. /\ <<rx>> \o reactions[p] \in Seq(Reaction)
        /\ Len(<<rx>> \o reactions[p]) = Len(<<rx>>) + Len(reactions[p])
        /\ \A i \in 1..(Len(<<rx>>) + Len(reactions[p])) :
              (<<rx>> \o reactions[p])[i] =
                 IF i <= Len(<<rx>>) THEN <<rx>>[i] ELSE reactions[p][i - Len(<<rx>>)]
      BY <2>1, <2>2, ConcatProperties
  <2>4. Len(reactions'[p]) = n + 1 /\ reactions'[p] \in Seq(Reaction)
      BY <1>1, <2>1, <2>2, <2>3
  <2>5. \A i \in 1..(n + 1) : reactions'[p][i] = IF i <= 1 THEN rx ELSE reactions[p][i - 1]
      BY <1>1, <2>1, <2>2, <2>3
  <2>6. \A i \in 1..n : i + 1 \in 1..(n + 1) /\ ~(i + 1 <= 1) /\ (i + 1) - 1 = i
      BY <1>1
  <2>7. QED
      BY <1>1, <2>4, <2>5, <2>6, LenProperties
<1>4. \A q \in Promises : q # p => reactions'[q] = reactions[q]
    BY SomeTypes DEF LostInv, PromiseInv
<1>5. \A i \in DOMAIN reactions'[p] :
         \/ i = 1 /\ reactions'[p][i] = rx
         \/ \E k \in 1..n : i = k + 1 /\ reactions'[p][i] = reactions[p][k]
  <2>1. ASSUME NEW i \in 1..(n + 1), i # 1
        PROVE  \E k \in 1..n : i = k + 1 /\ reactions'[p][i] = reactions[p][k]
    <3>1. i - 1 \in 1..n /\ i = (i - 1) + 1
        BY <2>1, <1>1
    <3>2. QED
        BY <3>1, <1>3
  <2>2. QED
      BY <2>1, <1>3
<1>. HIDE DEF n
<1>6. \A q \in Promises : \A i \in DOMAIN reactions'[q] :
         \/ reactions'[q][i] = rx /\ q = p
         \/ \E k \in DOMAIN reactions[q] : reactions'[q][i] = reactions[q][k]
    BY <1>1, <1>4, <1>5
<1>7. /\ \A q \in Promises : \A k \in DOMAIN reactions[q] :
            \E i \in DOMAIN reactions'[q] : reactions'[q][i] = reactions[q][k]
      /\ 1 \in DOMAIN reactions'[p]
  <2>1. \A k \in 1..n : k + 1 \in 1..(n + 1)
      BY <1>1
  <2>2. 1 \in 1..(n + 1)
      BY <1>1
  <2>3. QED
      BY <1>1, <1>3, <1>4, <2>1, <2>2
<1>8. Waiting' = Waiting \cup {rx}
  <2>1. ASSUME NEW x \in Waiting' PROVE x \in Waiting \cup {rx}
      BY <2>1, <1>6, InWaiting, InWaitingNext
  <2>2. ASSUME NEW x \in Waiting PROVE x \in Waiting'
    <3>1. CASE \E q \in Promises : \E i \in DOMAIN reactions[q] : x = reactions[q][i]
        BY <3>1, <1>7, InWaitingNext
    <3>2. CASE \E k \in DOMAIN queue : x = queue[k].rx
        BY <3>2, InWaitingNext
    <3>3. QED
        BY <2>2, <3>1, <3>2, InWaiting
  <2>3. rx \in Waiting'
      BY <1>3, <1>7, InWaitingNext
  <2>4. QED
      BY <2>1, <2>2, <2>3
<1>9. ListInv'
  <2>1. \A q \in Promises : Len(reactions'[q]) < nextId'
    <3>1. \A q \in Promises : Len(reactions[q]) \in Nat /\ Len(reactions[q]) < nextId
        BY <1>1, SomeTypes DEF LostInv, PromiseInv, ListInv
    <3>2. Len(reactions'[p]) < nextId'
        BY <3>1, <1>1, <1>3 DEF n
    <3>3. QED
        BY <3>1, <3>2, <1>1, <1>4
  <2>2. \A q \in Promises : \A i \in DOMAIN reactions'[q] :
           reactions'[q][i].id \in Ids' /\ reactions'[q][i].on = q
    <3>1. ASSUME NEW q \in Promises, NEW k \in DOMAIN reactions[q]
          PROVE  reactions[q][k].id \in Ids' /\ reactions[q][k].on = q
        BY <1>1, <1>2 DEF ListInv
    <3>2. ASSUME NEW q \in Promises, NEW i \in DOMAIN reactions'[q]
          PROVE  reactions'[q][i].id \in Ids' /\ reactions'[q][i].on = q
      <4>1. CASE reactions'[q][i] = rx /\ q = p
          BY <4>1, <1>2
      <4>2. CASE \E k \in DOMAIN reactions[q] : reactions'[q][i] = reactions[q][k]
          BY <4>2, <3>1
      <4>3. QED
          BY <4>1, <4>2, <1>6
    <3>3. QED
        BY <3>2
  <2>3. ASSUME NEW q \in Promises, NEW i \in DOMAIN reactions'[q],
               NEW j \in DOMAIN reactions'[q], i < j
        PROVE  reactions'[q][j].id < reactions'[q][i].id
    <3>1. CASE q # p
        BY <3>1, <2>3, <1>1, <1>4 DEF ListInv
    <3>2. CASE q = p
      <4>1. i \in 1..(n + 1) /\ j \in 1..(n + 1)
          BY <3>2, <1>3 DEF n
      <4>2. PICK b \in 1..n : j = b + 1 /\ reactions'[p][j] = reactions[p][b]
          BY <4>1, <2>3, <3>2, <1>1, <1>5
      <4>3. CASE i = 1 /\ reactions'[p][i] = rx
          BY <3>2, <4>2, <4>3, <1>1 DEF ListInv
      <4>4. ASSUME NEW a \in 1..n, i = a + 1, reactions'[p][i] = reactions[p][a]
            PROVE  reactions'[q][j].id < reactions'[q][i].id
        <5>1. a < b
            BY <4>2, <4>4, <2>3, <1>1
        <5>2. reactions[p][b].id < reactions[p][a].id
            BY <5>1, <1>1 DEF ListInv
        <5>3. QED
            BY <5>2, <3>2, <4>2, <4>4
      <4>5. QED
          BY <3>2, <4>3, <4>4, <1>5
    <3>3. QED
        BY <3>1, <3>2
  <2>4. ASSUME NEW q \in Promises, NEW r \in Promises, q # r,
               NEW i \in DOMAIN reactions'[q], NEW j \in DOMAIN reactions'[r]
        PROVE  reactions'[q][i].id # reactions'[r][j].id
    <3>1. \A s \in Promises : \A k \in DOMAIN reactions[s] :
             reactions[s][k].id \in Nat /\ reactions[s][k].id < nextId
        BY <1>1 DEF ListInv
    <3>2. CASE reactions'[q][i] = rx /\ q = p
        BY <2>4, <3>1, <3>2, <1>1, <1>4
    <3>3. CASE reactions'[r][j] = rx /\ r = p
        BY <2>4, <3>1, <3>3, <1>1, <1>4
    <3>4. ASSUME NEW a \in DOMAIN reactions[q], reactions'[q][i] = reactions[q][a],
                 NEW b \in DOMAIN reactions[r], reactions'[r][j] = reactions[r][b]
          PROVE  reactions'[q][i].id # reactions'[r][j].id
        BY <2>4, <3>4, <1>1 DEF ListInv
    <3>5. QED
        BY <3>2, <3>3, <3>4, <1>6
  <2>5. QED
      BY <2>1, <2>2, <2>3, <2>4, <1>2 DEF ListInv
<1>10. QueueInv'
  <2>1. \A i \in DOMAIN queue : /\ queue[i].rx.on \in Promises
                                /\ queue[i].rx.id \in Ids /\ queue[i].rx.id < nextId
    <3>1. \A i \in DOMAIN queue : queue[i].rx \in Reaction /\ queue[i].rx.id \in Ids
        BY <1>1, SomeTypes DEF LostInv, PromiseInv, QueueInv
    <3>2. \A r \in Reaction : r.on \in Promises
        BY DEF Reaction, ThenReactions, AwaitReactions
    <3>3. QED
        BY <3>1, <3>2, <1>1
  <2>2. \A i \in DOMAIN queue : /\ queue[i].rx.id \in Ids'
                                /\ state'[queue[i].rx.on] \in {"fulfilled", "rejected"}
      BY <2>1, <1>1, <1>2 DEF QueueInv, PromiseStep
  <2>3. ASSUME NEW q \in Promises, NEW i \in DOMAIN reactions'[q], NEW j \in DOMAIN queue
        PROVE  reactions'[q][i].id # queue[j].rx.id
    <3>1. CASE reactions'[q][i] = rx
        BY <2>1, <3>1, <1>1
    <3>2. CASE \E k \in DOMAIN reactions[q] : reactions'[q][i] = reactions[q][k]
        BY <3>2, <1>1 DEF QueueInv
    <3>3. QED
        BY <3>1, <3>2, <1>6
  <2>4. QED
      BY <2>2, <2>3, <1>1 DEF QueueInv
<1>11. MayFail => Cardinality(ListIds') + back <= free'
  <2>1. ListIds' = ListIds \cup {nextId}
    <3>1. \A id : id \in ListIds' <=>
             \E q \in Promises : \E i \in DOMAIN reactions'[q] : id = reactions'[q][i].id
        BY DEF ListIds, Listed
    <3>2. \A id : id \in ListIds <=>
             \E q \in Promises : \E i \in DOMAIN reactions[q] : id = reactions[q][i].id
        BY DEF ListIds, Listed
    <3>3. \A id : id \in ListIds' => id \in ListIds \/ id = nextId
        BY <3>1, <3>2, <1>6
    <3>4. nextId \in ListIds'
        BY <3>1, <1>3, <1>7
    <3>5. ASSUME NEW id \in ListIds PROVE id \in ListIds'
      <4>1. PICK q \in Promises : \E i \in DOMAIN reactions[q] : id = reactions[q][i].id
          BY <3>2, <3>5
      <4>2. PICK i \in DOMAIN reactions[q] : id = reactions[q][i].id
          BY <4>1
      <4>3. PICK j \in DOMAIN reactions'[q] : reactions'[q][j] = reactions[q][i]
          BY <1>7
      <4>4. QED
          BY <4>2, <4>3, <3>1
    <3>6. QED
        BY <3>3, <3>4, <3>5
  <2>2. IsFiniteSet(ListIds) /\ nextId \notin ListIds
      BY ListCount, IdsBelow DEF LostInv, PromiseInv
  <2>3. Cardinality(ListIds') = Cardinality(ListIds) + 1 /\ Cardinality(ListIds) \in Nat
      BY <2>1, <2>2, FS_AddElement, FS_CardinalityType
  <2>4. QED
      BY <2>3, <1>1 DEF LostInv, Reserved
<1>12. Ids' = Ids \cup {r.id : r \in {rx}} /\ \A r \in {rx} : r.id \notin Ids
    BY <1>2, IdsBelow
<1>13. QED
    BY <1>8, <1>9, <1>10, <1>11, <1>12 DEF Moved

(* add_reaction on a promise that has settled: the job is the last of the  *)
(* queue.                                                                  *)
LEMMA EnqueueMoves ==
    ASSUME LostInv, PromiseStep, NEW p \in Promises, NEW rx \in Reaction,
           rx.id = nextId, rx.on = p, NEW back \in {0, 1},
           NEW job, job.rx = rx, state'[p] \in Settled,
           nextId <= MaxReactions, nextId' = nextId + 1,
           queue' = Append(queue, job),
           free' = free + back, reactions' = reactions
    PROVE  Moved({rx}, back)
<1>. DEFINE l == Len(queue)
<1>1. /\ ListInv /\ QueueInv
      /\ nextId \in Nat \ {0} /\ free \in Nat /\ l \in Nat
      /\ \A id \in Ids : id \in Nat /\ id < nextId
      /\ DOMAIN queue = 1..l
    BY IdsBelow, SomeTypes DEF LostInv, PromiseInv
<1>2. Ids' = Ids \cup {nextId} /\ nextId' \in 1..(MaxReactions + 1)
    BY <1>1, MicrotaskConstants DEF Ids
<1>3. /\ DOMAIN queue' = 1..(l + 1) /\ queue'[l + 1].rx = rx
      /\ \A i \in 1..l : queue'[i] = queue[i]
  <2>1. PICK S : S = Job \cup {job}
      OBVIOUS
  <2>2. queue \in Seq(S) /\ job \in S
      BY <2>1, SomeTypes DEF LostInv, PromiseInv
  <2>3. /\ queue' \in Seq(S) /\ Len(queue') = l + 1 /\ queue'[l + 1] = job
        /\ \A i \in 1..l : queue'[i] = queue[i]
      BY <2>2, AppendProperties
  <2>4. QED
      BY <2>3, LenProperties
<1>. HIDE DEF l
<1>4. /\ l + 1 \in DOMAIN queue' /\ \A i \in DOMAIN queue : i \in DOMAIN queue'
      /\ \A i \in DOMAIN queue' : i \in Nat /\ (i = l + 1 \/ i \in 1..l)
    BY <1>1, <1>3
<1>5. Waiting' = Waiting \cup {rx}
  <2>1. ASSUME NEW x \in Waiting' PROVE x \in Waiting \cup {rx}
    <3>1. CASE \E q \in Promises : \E i \in DOMAIN reactions'[q] : x = reactions'[q][i]
        BY <3>1, InWaiting
    <3>2. CASE \E k \in DOMAIN queue' : x = queue'[k].rx
        BY <3>2, <1>1, <1>3, <1>4, InWaiting
    <3>3. QED
        BY <2>1, <3>1, <3>2, InWaitingNext
  <2>2. ASSUME NEW x \in Waiting PROVE x \in Waiting'
    <3>1. CASE \E q \in Promises : \E i \in DOMAIN reactions[q] : x = reactions[q][i]
        BY <3>1, InWaitingNext
    <3>2. CASE \E k \in DOMAIN queue : x = queue[k].rx
        BY <3>2, <1>1, <1>3, <1>4, InWaitingNext
    <3>3. QED
        BY <2>2, <3>1, <3>2, InWaiting
  <2>3. rx \in Waiting'
      BY <1>3, <1>4, InWaitingNext
  <2>4. QED
      BY <2>1, <2>2, <2>3
<1>6. ListInv'
  <2>1. \A q \in Promises : Len(reactions[q]) \in Nat
      BY SomeTypes DEF LostInv, PromiseInv
  <2>2. QED
      BY <1>1, <1>2, <2>1 DEF ListInv
<1>7. QueueInv'
  <2>1. \A i \in DOMAIN queue : /\ queue[i].rx.on \in Promises
                                /\ queue[i].rx.id \in Ids /\ queue[i].rx.id < nextId
                                /\ queue[i].rx.id \in Nat
    <3>1. \A i \in DOMAIN queue : queue[i].rx \in Reaction /\ queue[i].rx.id \in Ids
        BY <1>1, SomeTypes DEF LostInv, PromiseInv, QueueInv
    <3>2. \A r \in Reaction : r.on \in Promises
        BY DEF Reaction, ThenReactions, AwaitReactions
    <3>3. QED
        BY <3>1, <3>2, <1>1
  <2>2. \A i \in DOMAIN queue : /\ queue[i].rx.id \in Ids'
                                /\ state'[queue[i].rx.on] \in {"fulfilled", "rejected"}
      BY <2>1, <1>1, <1>2 DEF QueueInv, PromiseStep
  <2>3. \A i \in DOMAIN queue' : /\ queue'[i].rx.id \in Ids'
                                 /\ state'[queue'[i].rx.on] \in {"fulfilled", "rejected"}
      BY <2>2, <1>1, <1>2, <1>3, <1>4 DEF Settled
  <2>4. ASSUME NEW i \in DOMAIN queue', NEW j \in DOMAIN queue', i < j
        PROVE  queue'[i].rx.id # queue'[j].rx.id
               /\ (queue'[i].rx.on = queue'[j].rx.on => queue'[i].rx.id < queue'[j].rx.id)
    <3>1. i \in 1..l /\ queue'[i] = queue[i]
        BY <2>4, <1>1, <1>3, <1>4
    <3>2. CASE j = l + 1
        BY <3>1, <3>2, <2>1, <1>1, <1>3
    <3>3. CASE j \in 1..l /\ queue'[j] = queue[j]
        BY <3>1, <3>3, <2>4, <1>1 DEF QueueInv
    <3>4. QED
        BY <3>2, <3>3, <1>3, <1>4
  <2>5. ASSUME NEW q \in Promises, NEW i \in DOMAIN reactions[q], NEW j \in DOMAIN queue'
        PROVE  reactions[q][i].id # queue'[j].rx.id
    <3>1. reactions[q][i].id \in Nat /\ reactions[q][i].id < nextId
        BY <1>1 DEF ListInv
    <3>2. CASE j = l + 1
        BY <3>1, <3>2, <1>1, <1>3
    <3>3. CASE j \in 1..l /\ queue'[j] = queue[j]
        BY <3>3, <1>1 DEF QueueInv
    <3>4. QED
        BY <3>2, <3>3, <1>3, <1>4
  <2>6. QED
      BY <2>3, <2>4, <2>5 DEF QueueInv
<1>8. MayFail => Cardinality(ListIds') + back <= free'
  <2>1. ListIds' = ListIds
      BY DEF ListIds, Listed
  <2>2. Cardinality(ListIds) \in Nat
      BY ListCount, FS_CardinalityType DEF LostInv, PromiseInv
  <2>3. QED
      BY <2>1, <2>2, <1>1 DEF LostInv, Reserved
<1>9. Ids' = Ids \cup {r.id : r \in {rx}} /\ \A r \in {rx} : r.id \notin Ids
    BY <1>2, IdsBelow
<1>10. QED
    BY <1>5, <1>6, <1>7, <1>8, <1>9 DEF Moved

(* reaction_alloc and add_reaction, whatever the state of the promise.     *)
LEMMA SubscribeMoves ==
    ASSUME LostInv, PromiseStep, NEW p \in Promises, NEW outcome, NEW v,
           outcome \in Settled => state'[p] = outcome,
           NEW rx \in Reaction, rx.id = nextId, rx.on = p,
           NEW back \in {0, 1}, Subscribe(p, outcome, v, rx, back)
    PROVE  Moved({rx}, back)
<1>1. nextId <= MaxReactions /\ nextId' = nextId + 1
    BY DEF Subscribe
<1>2. CASE /\ reactions' = [reactions EXCEPT ![p] = <<rx>> \o @]
           /\ free' = free + 1 + back
           /\ queue' = queue
    BY <1>1, <1>2, ParkMoves
<1>3. CASE /\ outcome \in {"fulfilled", "rejected"}
           /\ queue' = Append(queue, JobOf(rx, outcome, v))
           /\ free' = free + back
           /\ reactions' = reactions
  <2>1. state'[p] \in Settled
      BY <1>3 DEF Settled
  <2>2. JobOf(rx, outcome, v).rx = rx
      BY DEF JobOf
  <2>3. PICK job : job = JobOf(rx, outcome, v)
      OBVIOUS
  <2>4. QED
      BY <1>1, <1>3, <2>1, <2>2, <2>3, EnqueueMoves
<1>4. QED
    BY <1>2, <1>3 DEF Subscribe

(* reaction_alloc refused: at most a spare node more.                      *)
LEMMA RefusedMoves ==
    ASSUME LostInv, PromiseStep, NEW back \in {0, 1}, Refused(back)
    PROVE  Moved({}, back)
<1>1. free \in Nat
    BY IdsBelow
<1>2. UNCHANGED <<reactions, queue, nextId>> /\ (free' = free + back \/ free' = free + 1 + back)
    BY DEF Refused
<1>3. free' \in Nat /\ free' >= free + back
    BY <1>1, <1>2
<1>4. QED
    BY <1>2, <1>3, NothingMoves

(* js_promise_resolve_with: at most one reaction is new, and it will       *)
(* settle p.                                                               *)
LEMMA ResolveMoves ==
    ASSUME LostInv, PromiseStep, NEW p \in Promises, NEW v \in Values,
           NEW back \in {0, 1}, ResolveWith(p, v, back)
    PROVE  \/ Moved({}, back)
           \/ v \in Promises /\ Moved({ThenReaction(v, "none", "none", p)}, back)
<1>1. CASE v \notin Promises /\ Settle(p, "fulfilled", v, back)
    BY <1>1, SettleMoves DEF Settled
<1>2. CASE v = p /\ Settle(p, "rejected", EngineError, back)
    BY <1>2, SettleMoves DEF Settled
<1>3. CASE /\ v \in Promises \ {p}
           /\ Subscribe(v, state[v], value[v],
                        ThenReaction(v, "none", "none", p), back)
           /\ UNCHANGED <<state, value>>
  <2>1. ThenReaction(v, "none", "none", p) \in Reaction
      BY <1>3, IdsBelow DEF ThenReaction, Reaction, ThenReactions, Handlers
  <2>2. /\ ThenReaction(v, "none", "none", p).id = nextId
        /\ ThenReaction(v, "none", "none", p).on = v
      BY DEF ThenReaction
  <2>3. QED
      BY <1>3, <2>1, <2>2, SubscribeMoves
<1>4. CASE Refused(back)
    BY <1>4, RefusedMoves
<1>5. QED
    BY <1>1, <1>2, <1>3, <1>4 DEF ResolveWith

-----------------------------------------------------------------------------
(* The C stack.                                                            *)

(* A frame is pushed.                                                      *)
LEMMA PushFrame ==
    ASSUME StackOK, NEW frame, stack' = <<frame>> \o stack
    PROVE  /\ 1 \in DOMAIN stack' /\ stack'[1] = frame
           /\ \A i \in DOMAIN stack : /\ i \in Nat \ {0} /\ i + 1 \in DOMAIN stack'
                                      /\ stack'[i + 1] = stack[i]
           /\ \A i \in DOMAIN stack' : i = 1 \/ \E k \in DOMAIN stack : i = k + 1
<1>. DEFINE n == Len(stack)
<1>1. PICK S : S = Frame \cup {frame}
    OBVIOUS
<1>2. stack \in Seq(S) /\ <<frame>> \in Seq(S) /\ Len(<<frame>>) = 1 /\ <<frame>>[1] = frame
    BY <1>1 DEF StackOK
<1>3. /\ <<frame>> \o stack \in Seq(S)
      /\ Len(<<frame>> \o stack) = Len(<<frame>>) + Len(stack)
      /\ \A i \in 1..(Len(<<frame>>) + Len(stack)) :
            (<<frame>> \o stack)[i] =
               IF i <= Len(<<frame>>) THEN <<frame>>[i] ELSE stack[i - Len(<<frame>>)]
    BY <1>2, ConcatProperties
<1>4. n \in Nat /\ DOMAIN stack = 1..n
    BY <1>2, LenProperties
<1>5. DOMAIN stack' = 1..(n + 1)
  <2>1. stack' \in Seq(S) /\ Len(stack') = n + 1
      BY <1>2, <1>3, <1>4
  <2>2. QED
      BY <2>1, LenProperties
<1>6. \A i \in 1..(n + 1) : stack'[i] = IF i <= 1 THEN frame ELSE stack[i - 1]
    BY <1>2, <1>3, <1>4
<1>. HIDE DEF n
<1>7. stack'[1] = frame /\ 1 \in 1..(n + 1)
    BY <1>4, <1>6
<1>8. ASSUME NEW i \in 1..n
      PROVE  i \in Nat \ {0} /\ i + 1 \in 1..(n + 1) /\ stack'[i + 1] = stack[i]
  <2>1. i \in Nat \ {0} /\ i + 1 \in 1..(n + 1) /\ ~(i + 1 <= 1) /\ (i + 1) - 1 = i
      BY <1>4
  <2>2. QED
      BY <2>1, <1>6
<1>9. ASSUME NEW i \in 1..(n + 1), i # 1
      PROVE  \E k \in 1..n : i = k + 1
  <2>1. i - 1 \in 1..n /\ i = (i - 1) + 1
      BY <1>9, <1>4
  <2>2. QED
      BY <2>1
<1>10. QED
    BY <1>4, <1>5, <1>7, <1>8, <1>9

(* The frame on top is popped.                                             *)
LEMMA PopFrame ==
    ASSUME StackOK, stack # <<>>, stack' = Tail(stack)
    PROVE  /\ 1 \in DOMAIN stack /\ stack[1] = Top
           /\ \A i \in DOMAIN stack' : /\ i \in Nat \ {0} /\ i + 1 \in DOMAIN stack
                                       /\ stack'[i] = stack[i + 1]
           /\ \A i \in DOMAIN stack : i = 1 \/ \E k \in DOMAIN stack' : i = k + 1
<1>. DEFINE n == Len(stack)
<1>1. stack \in Seq(Frame)
    BY DEF StackOK
<1>2. /\ Len(stack) \in Nat /\ Len(stack) > 0 /\ DOMAIN stack = 1..Len(stack)
      /\ Tail(stack) \in Seq(Frame) /\ Len(Tail(stack)) = Len(stack) - 1
      /\ \A i \in 1..(Len(stack) - 1) : Tail(stack)[i] = stack[i + 1]
      /\ Head(stack) = stack[1]
    BY <1>1, EmptySeq, LenProperties, HeadTailProperties
<1>3. DOMAIN stack' = 1..(n - 1)
    BY <1>2, LenProperties
<1>4. stack[1] = Top
    BY <1>2 DEF Top
<1>. HIDE DEF n
<1>5. n \in Nat /\ n > 0 /\ DOMAIN stack = 1..n /\ \A i \in 1..(n - 1) : stack'[i] = stack[i + 1]
    BY <1>2 DEF n
<1>6. \A i \in 1..(n - 1) : i \in Nat \ {0} /\ i + 1 \in 1..n
    BY <1>5
<1>7. ASSUME NEW i \in 1..n, i # 1
      PROVE  \E k \in 1..(n - 1) : i = k + 1
  <2>1. i - 1 \in 1..(n - 1) /\ i = (i - 1) + 1
      BY <1>7, <1>5
  <2>2. QED
      BY <2>1
<1>8. 1 \in 1..n
    BY <1>5
<1>9. QED
    BY <1>3, <1>4, <1>5, <1>6, <1>7, <1>8

(* The frame on top is the first.                                          *)
LEMMA StackTop ==
    ASSUME StackOK, stack # <<>>
    PROVE  1 \in DOMAIN stack /\ stack[1] = Top
<1>1. stack \in Seq(Frame)
    BY DEF StackOK
<1>2. /\ Len(stack) \in Nat /\ Len(stack) > 0 /\ DOMAIN stack = 1..Len(stack)
      /\ Head(stack) = stack[1]
    BY <1>1, EmptySeq, LenProperties, HeadTailProperties
<1>3. QED
    BY <1>2 DEF Top

(* A frame that is no job changes nothing about the jobs.                  *)
LEMMA PushJobs ==
    ASSUME StackOK, ActiveInv, NEW frame, frame.kind # "job",
           stack' = <<frame>> \o stack, done' = done
    PROVE  Active' = Active /\ ActiveInv'
<1>1. /\ \A i \in RunningJobs : i \in Nat \ {0} /\ i + 1 \in RunningJobs'
                                /\ stack'[i + 1] = stack[i]
      /\ \A i \in RunningJobs' : \E k \in RunningJobs : i = k + 1
    BY PushFrame DEF RunningJobs
<1>2. Active' = Active
  <2>1. ASSUME NEW x \in Active' PROVE x \in Active
    <3>1. PICK i \in RunningJobs' : x = stack'[i].job.rx
        BY <2>1 DEF Active
    <3>2. PICK k \in RunningJobs : i = k + 1
        BY <1>1
    <3>3. x = stack[k].job.rx
        BY <3>1, <3>2, <1>1
    <3>4. QED
        BY <3>3 DEF Active
  <2>2. ASSUME NEW x \in Active PROVE x \in Active'
    <3>1. PICK i \in RunningJobs : x = stack[i].job.rx
        BY <2>2 DEF Active
    <3>2. i + 1 \in RunningJobs' /\ x = stack'[i + 1].job.rx
        BY <3>1, <1>1
    <3>3. QED
        BY <3>2 DEF Active
  <2>3. QED
      BY <2>1, <2>2
<1>3. ActiveInv'
  <2>1. ASSUME NEW i \in RunningJobs', NEW j \in RunningJobs',
               stack'[i].job.rx.id = stack'[j].job.rx.id
        PROVE  i = j
    <3>1. PICK a \in RunningJobs : i = a + 1
        BY <1>1
    <3>2. PICK b \in RunningJobs : j = b + 1
        BY <1>1
    <3>3. stack[a].job.rx.id = stack[b].job.rx.id
        BY <2>1, <3>1, <3>2, <1>1
    <3>4. QED
        BY <3>1, <3>2, <3>3 DEF ActiveInv
  <2>2. ASSUME NEW i \in RunningJobs' PROVE stack'[i].job.rx.id \notin done'
    <3>1. PICK a \in RunningJobs : i = a + 1
        BY <1>1
    <3>2. QED
        BY <3>1, <1>1 DEF ActiveInv
  <2>3. QED
      BY <2>1, <2>2 DEF ActiveInv
<1>4. QED
    BY <1>2, <1>3

(* A job starts: one reaction more is active.                              *)
LEMMA StartJobs ==
    ASSUME StackOK, ActiveInv, NEW frame, frame.kind = "job",
           stack' = <<frame>> \o stack, done' = done,
           frame.job.rx.id \notin TakenIds
    PROVE  Active' = Active \cup {frame.job.rx} /\ ActiveInv'
<1>1. /\ \A i \in RunningJobs : i \in Nat \ {0} /\ i + 1 \in RunningJobs'
                                /\ stack'[i + 1] = stack[i]
      /\ \A i \in RunningJobs' : i = 1 \/ \E k \in RunningJobs : i = k + 1
      /\ 1 \in RunningJobs' /\ stack'[1] = frame
    BY PushFrame DEF RunningJobs
<1>2. Active' = Active \cup {frame.job.rx}
  <2>1. ASSUME NEW x \in Active' PROVE x \in Active \cup {frame.job.rx}
    <3>1. PICK i \in RunningJobs' : x = stack'[i].job.rx
        BY <2>1 DEF Active
    <3>2. CASE i = 1
        BY <3>1, <3>2, <1>1
    <3>3. ASSUME NEW k \in RunningJobs, i = k + 1
          PROVE  x \in Active
      <4>1. x = stack[k].job.rx
          BY <3>1, <3>3, <1>1
      <4>2. QED
          BY <4>1 DEF Active
    <3>4. QED
        BY <3>2, <3>3, <1>1
  <2>2. ASSUME NEW x \in Active PROVE x \in Active'
    <3>1. PICK i \in RunningJobs : x = stack[i].job.rx
        BY <2>2 DEF Active
    <3>2. i + 1 \in RunningJobs' /\ x = stack'[i + 1].job.rx
        BY <3>1, <1>1
    <3>3. QED
        BY <3>2 DEF Active
  <2>3. frame.job.rx \in Active'
      BY <1>1 DEF Active
  <2>4. QED
      BY <2>1, <2>2, <2>3
<1>3. ActiveInv'
  <2>1. \A i \in RunningJobs : /\ stack[i].job.rx.id # frame.job.rx.id
                               /\ stack[i].job.rx.id \notin done
      BY DEF TakenIds, Active, ActiveInv
  <2>2. ASSUME NEW i \in RunningJobs', NEW j \in RunningJobs',
               stack'[i].job.rx.id = stack'[j].job.rx.id
        PROVE  i = j
    <3>1. ASSUME NEW a \in RunningJobs', a = 1, NEW b \in RunningJobs,
                 stack'[a].job.rx.id = stack'[b + 1].job.rx.id
          PROVE  FALSE
      <4>1. stack'[a] = frame /\ stack'[b + 1] = stack[b]
          BY <3>1, <1>1
      <4>2. QED
          BY <3>1, <4>1, <2>1
    <3>2. ASSUME i = 1, NEW b \in RunningJobs, j = b + 1
          PROVE  FALSE
        BY <2>2, <3>1, <3>2
    <3>3. ASSUME j = 1, NEW a \in RunningJobs, i = a + 1
          PROVE  FALSE
        BY <2>2, <3>1, <3>3
    <3>4. ASSUME NEW a \in RunningJobs, i = a + 1, NEW b \in RunningJobs, j = b + 1
          PROVE  i = j
      <4>1. stack[a].job.rx.id = stack[b].job.rx.id
          BY <2>2, <3>4, <1>1
      <4>2. QED
          BY <4>1, <3>4 DEF ActiveInv
    <3>5. QED
        BY <3>2, <3>3, <3>4, <1>1
  <2>3. ASSUME NEW i \in RunningJobs' PROVE stack'[i].job.rx.id \notin done'
    <3>1. CASE i = 1
        BY <3>1, <1>1 DEF TakenIds
    <3>2. ASSUME NEW a \in RunningJobs, i = a + 1
          PROVE  stack'[i].job.rx.id \notin done'
        BY <3>2, <2>1, <1>1
    <3>3. QED
        BY <3>1, <3>2, <1>1
  <2>4. QED
      BY <2>2, <2>3 DEF ActiveInv
<1>4. QED
    BY <1>2, <1>3

(* A frame returns: a job that ends is done and no longer active.          *)
LEMMA PopJobs ==
    ASSUME StackOK, ActiveInv, stack # <<>>, stack' = Tail(stack),
           done' = IF Top.kind = "job" THEN done \cup {Top.job.rx.id} ELSE done
    PROVE  /\ TakenIds' = TakenIds /\ ActiveInv'
           /\ Active' \subseteq Active
           /\ \A rx \in Active : \/ rx \in Active'
                                 \/ Top.kind = "job" /\ rx = Top.job.rx
<1>1. /\ \A i \in RunningJobs' : i \in Nat \ {0} /\ i + 1 \in RunningJobs
                                 /\ stack'[i] = stack[i + 1]
      /\ \A i \in RunningJobs : i = 1 \/ \E k \in RunningJobs' : i = k + 1
      /\ 1 \in RunningJobs <=> Top.kind = "job"
      /\ stack[1] = Top
    BY PopFrame DEF RunningJobs
<1>2. Active' \subseteq Active
    BY <1>1 DEF Active
<1>3. ASSUME NEW rx \in Active
      PROVE  rx \in Active' \/ (Top.kind = "job" /\ rx = Top.job.rx)
  <2>1. PICK i \in RunningJobs : rx = stack[i].job.rx
      BY <1>3 DEF Active
  <2>2. CASE i = 1
      BY <2>1, <2>2, <1>1
  <2>3. ASSUME NEW k \in RunningJobs', i = k + 1
        PROVE  rx \in Active'
      BY <2>1, <2>3, <1>1 DEF Active
  <2>4. QED
      BY <2>2, <2>3, <1>1
<1>4. Top.kind = "job" => Top.job.rx \in Active
    BY <1>1 DEF Active
<1>5. TakenIds' = TakenIds
  <2>1. ASSUME NEW id \in TakenIds PROVE id \in TakenIds'
    <3>1. CASE id \in done
        BY <3>1 DEF TakenIds
    <3>2. ASSUME NEW rx \in Active, id = rx.id
          PROVE  id \in TakenIds'
        BY <3>2, <1>3 DEF TakenIds
    <3>3. QED
        BY <2>1, <3>1, <3>2 DEF TakenIds
  <2>2. ASSUME NEW id \in TakenIds' PROVE id \in TakenIds
    <3>1. CASE id \in done'
        BY <3>1, <1>4 DEF TakenIds
    <3>2. ASSUME NEW rx \in Active', id = rx.id
          PROVE  id \in TakenIds
        BY <3>2, <1>2 DEF TakenIds
    <3>3. QED
        BY <2>2, <3>1, <3>2 DEF TakenIds
  <2>3. QED
      BY <2>1, <2>2
<1>6. ActiveInv'
  <2>1. ASSUME NEW i \in RunningJobs', NEW j \in RunningJobs',
               stack'[i].job.rx.id = stack'[j].job.rx.id
        PROVE  i = j
    <3>1. PICK a \in RunningJobs : a = i + 1
        BY <1>1
    <3>2. PICK b \in RunningJobs : b = j + 1
        BY <1>1
    <3>3. stack[a].job.rx.id = stack[b].job.rx.id
        BY <2>1, <3>1, <3>2, <1>1
    <3>4. a = b
        BY <3>3 DEF ActiveInv
    <3>5. i \in Nat /\ j \in Nat
        BY <1>1
    <3>6. QED
        BY <3>1, <3>2, <3>4, <3>5
  <2>2. ASSUME NEW i \in RunningJobs' PROVE stack'[i].job.rx.id \notin done'
    <3>0. i \in Nat \ {0} /\ i + 1 # 1
        BY <1>1
    <3>1. i + 1 \in RunningJobs /\ stack'[i] = stack[i + 1] /\ i + 1 # 1
        BY <3>0, <1>1
    <3>2. stack[i + 1].job.rx.id \notin done
        BY <3>1 DEF ActiveInv
    <3>3. Top.kind = "job" => stack[i + 1].job.rx.id # Top.job.rx.id
        BY <3>1, <1>1 DEF ActiveInv
    <3>4. QED
        BY <3>1, <3>2, <3>3
  <2>3. QED
      BY <2>1, <2>2 DEF ActiveInv
<1>7. QED
    BY <1>2, <1>3, <1>5, <1>6

-----------------------------------------------------------------------------
(* The activations of a fiber.                                             *)

(* A frame is pushed.                                                      *)
LEMMA PushActivations ==
    ASSUME StackOK, NEW frame, stack' = <<frame>> \o stack, NEW f, Once(f)
    PROVE  /\ frame.fiber # f =>
                 Once(f)' /\ (Activations(f)' # {} <=> Activations(f) # {})
           /\ frame.fiber = f /\ Activations(f) = {} =>
                 Once(f)' /\ Activations(f)' # {}
<1>1. /\ \A i \in Activations(f) : i \in Nat \ {0} /\ i + 1 \in Activations(f)'
      /\ \A i \in Activations(f)' :
            (i = 1 /\ frame.fiber = f) \/ \E k \in Activations(f) : i = k + 1
      /\ frame.fiber = f => 1 \in Activations(f)'
    BY PushFrame DEF Activations
<1>2. QED
    BY <1>1 DEF Once

(* The frame on top is popped.                                             *)
LEMMA PopActivations ==
    ASSUME StackOK, stack # <<>>, stack' = Tail(stack), NEW f, Once(f)
    PROVE  /\ Top.fiber # f =>
                 Once(f)' /\ (Activations(f)' # {} <=> Activations(f) # {})
           /\ Top.fiber = f => Activations(f)' = {} /\ Activations(f) # {}
<1>1. /\ \A i \in Activations(f)' : i \in Nat \ {0} /\ i + 1 \in Activations(f)
      /\ \A i \in Activations(f) :
            (i = 1 /\ Top.fiber = f) \/ \E k \in Activations(f)' : i = k + 1
      /\ Top.fiber = f => 1 \in Activations(f)
    BY PopFrame DEF Activations
<1>2. CASE Top.fiber # f
  <2>1. ASSUME NEW i \in Activations(f)', NEW j \in Activations(f)'
        PROVE  i = j
    <3>1. i + 1 = j + 1 /\ i \in Nat /\ j \in Nat
        BY <1>1 DEF Once
    <3>2. QED
        BY <3>1
  <2>2. Activations(f)' # {} <=> Activations(f) # {}
      BY <1>1, <1>2
  <2>3. QED
      BY <1>2, <2>1, <2>2 DEF Once
<1>3. CASE Top.fiber = f
  <2>1. \A i \in Activations(f) : i = 1
      BY <1>1, <1>3 DEF Once
  <2>2. QED
      BY <2>1, <1>1, <1>3
<1>4. QED
    BY <1>2, <1>3

-----------------------------------------------------------------------------
(* The places of reactions, step by step.                                  *)

(* Reactions that wait have numbers of their own.                          *)
LEMMA WaitingById ==
    ASSUME LostInv, NEW x \in Waiting, NEW y \in Waiting, x.id = y.id
    PROVE  x = y
<1>1. ListInv /\ QueueInv
    BY DEF LostInv
<1>2. /\ \A p \in Promises : DOMAIN reactions[p] \subseteq Nat
      /\ DOMAIN queue \subseteq Nat
    BY SomeTypes DEF LostInv, PromiseInv
<1>3. \A p \in Promises : \A i, j \in DOMAIN reactions[p] :
         reactions[p][i].id \in Nat /\ (reactions[p][i].id = reactions[p][j].id => i = j)
  <2>1. ASSUME NEW p \in Promises, NEW i \in DOMAIN reactions[p], NEW j \in DOMAIN reactions[p]
        PROVE  reactions[p][i].id \in Nat /\ (reactions[p][i].id = reactions[p][j].id => i = j)
    <3>1. reactions[p][i].id \in Nat /\ reactions[p][j].id \in Nat
        BY <1>1, IdsBelow DEF ListInv
    <3>2. i \in Nat /\ j \in Nat
        BY <1>2
    <3>3. i < j => reactions[p][j].id < reactions[p][i].id
        BY <1>1 DEF ListInv
    <3>4. j < i => reactions[p][i].id < reactions[p][j].id
        BY <1>1 DEF ListInv
    <3>5. QED
        BY <3>1, <3>2, <3>3, <3>4
  <2>2. QED
      BY <2>1
<1>4. \A i, j \in DOMAIN queue : queue[i].rx.id = queue[j].rx.id => i = j
  <2>1. ASSUME NEW i \in DOMAIN queue, NEW j \in DOMAIN queue, queue[i].rx.id = queue[j].rx.id
        PROVE  i = j
    <3>1. i \in Nat /\ j \in Nat
        BY <1>2
    <3>2. ~(i < j) /\ ~(j < i)
        BY <2>1, <1>1 DEF QueueInv
    <3>3. QED
        BY <3>1, <3>2
  <2>2. QED
      BY <2>1
<1>5. ASSUME NEW p \in Promises, NEW i \in DOMAIN reactions[p], x = reactions[p][i]
      PROVE  x = y
  <2>1. CASE \E q \in Promises : \E j \in DOMAIN reactions[q] : y = reactions[q][j]
    <3>1. PICK q \in Promises : \E j \in DOMAIN reactions[q] : y = reactions[q][j]
        BY <2>1
    <3>2. PICK j \in DOMAIN reactions[q] : y = reactions[q][j]
        BY <3>1
    <3>3. q = p
        BY <1>1, <1>5, <3>2 DEF ListInv
    <3>4. QED
        BY <1>3, <1>5, <3>2, <3>3
  <2>2. CASE \E k \in DOMAIN queue : y = queue[k].rx
      BY <2>2, <1>5, <1>1 DEF QueueInv
  <2>3. QED
      BY <2>1, <2>2, InWaiting
<1>6. ASSUME NEW k \in DOMAIN queue, x = queue[k].rx
      PROVE  x = y
  <2>1. CASE \E q \in Promises : \E j \in DOMAIN reactions[q] : y = reactions[q][j]
      BY <2>1, <1>6, <1>1 DEF QueueInv
  <2>2. CASE \E j \in DOMAIN queue : y = queue[j].rx
      BY <2>2, <1>4, <1>6
  <2>3. QED
      BY <2>1, <2>2, InWaiting
<1>7. QED
    BY <1>5, <1>6, InWaiting

(* The head of the queue is taken off it.                                  *)
LEMMA TakeMoves ==
    ASSUME LostInv, queue # <<>>, queue' = Tail(queue),
           UNCHANGED <<promiseVars, nextId>>
    PROVE  /\ ListInv' /\ QueueInv' /\ Ids' = Ids /\ ListIds' = ListIds
           /\ 1 \in DOMAIN queue /\ Head(queue) = queue[1] /\ queue[1] \in Job
           /\ queue[1].rx \in Waiting
           /\ Waiting' = Waiting \ {queue[1].rx}
           /\ WaitIds' = WaitIds \ {queue[1].rx.id}
<1>. DEFINE l == Len(queue)
<1>1. ListInv /\ QueueInv /\ queue \in Seq(Job) /\ UNCHANGED <<state, reactions, nextId>>
    BY SomeTypes DEF LostInv, PromiseInv, promiseVars
<1>2. /\ Len(queue) \in Nat /\ Len(queue) > 0 /\ DOMAIN queue = 1..Len(queue)
      /\ Tail(queue) \in Seq(Job) /\ Len(Tail(queue)) = Len(queue) - 1
      /\ \A i \in 1..(Len(queue) - 1) : Tail(queue)[i] = queue[i + 1]
      /\ Head(queue) = queue[1]
    BY <1>1, EmptySeq, LenProperties, HeadTailProperties
<1>3. DOMAIN queue' = 1..(l - 1) /\ \A i \in 1..(l - 1) : queue'[i] = queue[i + 1]
    BY <1>2, LenProperties
<1>. HIDE DEF l
<1>4. l \in Nat /\ l > 0 /\ DOMAIN queue = 1..l
    BY <1>2 DEF l
<1>5. /\ \A i \in DOMAIN queue' : i \in Nat /\ i + 1 \in DOMAIN queue
                                  /\ i + 1 # 1 /\ queue'[i] = queue[i + 1]
      /\ 1 \in DOMAIN queue
    BY <1>3, <1>4
<1>6. \A i \in DOMAIN queue : i = 1 \/ \E k \in DOMAIN queue' : i = k + 1
  <2>1. ASSUME NEW i \in 1..l, i # 1
        PROVE  \E k \in 1..(l - 1) : i = k + 1
    <3>1. i - 1 \in 1..(l - 1) /\ i = (i - 1) + 1
        BY <2>1, <1>4
    <3>2. QED
        BY <3>1
  <2>2. QED
      BY <2>1, <1>3, <1>4
<1>7. queue[1] \in Job /\ Head(queue) = queue[1] /\ queue[1].rx \in Waiting
    BY <1>2, <1>5, <1>1, InWaiting, ElementOfSeq
<1>8. ListInv' /\ Ids' = Ids /\ ListIds' = ListIds
    BY <1>1 DEF ListInv, Ids, ListIds, Listed
<1>9. QueueInv'
  <2>1. ASSUME NEW i \in DOMAIN queue'
        PROVE  queue'[i].rx.id \in Ids /\ state[queue'[i].rx.on] \in {"fulfilled", "rejected"}
      BY <1>1, <1>5 DEF QueueInv
  <2>2. ASSUME NEW i \in DOMAIN queue', NEW j \in DOMAIN queue', i < j
        PROVE  queue'[i].rx.id # queue'[j].rx.id
               /\ (queue'[i].rx.on = queue'[j].rx.on => queue'[i].rx.id < queue'[j].rx.id)
    <3>1. PICK a \in DOMAIN queue : a = i + 1 /\ queue'[i] = queue[a]
        BY <1>5
    <3>2. PICK b \in DOMAIN queue : b = j + 1 /\ queue'[j] = queue[b]
        BY <1>5
    <3>3. a < b
        BY <2>2, <3>1, <3>2, <1>5
    <3>4. QED
        BY <3>1, <3>2, <3>3, <1>1 DEF QueueInv
  <2>3. ASSUME NEW q \in Promises, NEW i \in DOMAIN reactions[q], NEW j \in DOMAIN queue'
        PROVE  reactions[q][i].id # queue'[j].rx.id
      BY <1>1, <1>5 DEF QueueInv
  <2>4. QED
      BY <2>1, <2>2, <2>3, <1>1, <1>8 DEF QueueInv
<1>10. ASSUME NEW x \in Waiting' PROVE x \in Waiting /\ x.id # queue[1].rx.id
  <2>1. CASE \E q \in Promises : \E i \in DOMAIN reactions'[q] : x = reactions'[q][i]
    <3>1. \E q \in Promises : \E i \in DOMAIN reactions[q] : x = reactions[q][i]
        BY <2>1, <1>1
    <3>2. QED
        BY <3>1, <1>1, <1>5, InWaiting DEF QueueInv
  <2>2. CASE \E k \in DOMAIN queue' : x = queue'[k].rx
    <3>1. PICK k \in DOMAIN queue' : x = queue'[k].rx
        BY <2>2
    <3>2. PICK a \in DOMAIN queue : a = k + 1 /\ x = queue[a].rx
        BY <3>1, <1>5
    <3>3. 1 < a
        BY <3>2, <1>5
    <3>4. QED
        BY <3>2, <3>3, <1>1, <1>5, InWaiting DEF QueueInv
  <2>3. QED
      BY <1>10, <2>1, <2>2, InWaitingNext
<1>11. ASSUME NEW x \in Waiting, x # queue[1].rx PROVE x \in Waiting'
  <2>1. CASE \E q \in Promises : \E i \in DOMAIN reactions[q] : x = reactions[q][i]
      BY <2>1, <1>1, InWaitingNext
  <2>2. CASE \E k \in DOMAIN queue : x = queue[k].rx
    <3>1. PICK a \in DOMAIN queue : x = queue[a].rx
        BY <2>2
    <3>2. PICK k \in DOMAIN queue' : a = k + 1
        BY <3>1, <1>6, <1>11
    <3>3. x = queue'[k].rx
        BY <3>1, <3>2, <1>5
    <3>4. QED
        BY <3>3, InWaitingNext
  <2>3. QED
      BY <1>11, <2>1, <2>2, InWaiting
<1>12. Waiting' = Waiting \ {queue[1].rx}
    BY <1>10, <1>11
<1>13. WaitIds' = WaitIds \ {queue[1].rx.id}
  <2>1. ASSUME NEW id \in WaitIds' PROVE id \in WaitIds /\ id # queue[1].rx.id
      BY <2>1, <1>10 DEF WaitIds
  <2>2. ASSUME NEW id \in WaitIds, id # queue[1].rx.id PROVE id \in WaitIds'
      BY <2>2, <1>11 DEF WaitIds
  <2>3. QED
      BY <2>1, <2>2
<1>14. QED
    BY <1>5, <1>7, <1>8, <1>9, <1>12, <1>13

(* The jobs on the stack stay as they are.                                 *)
LEMMA SameJobs ==
    ASSUME ActiveInv, stack' = stack, done' = done
    PROVE  Active' = Active /\ ActiveInv' /\ TakenIds' = TakenIds
<1>1. RunningJobs' = RunningJobs
    BY DEF RunningJobs
<1>2. Active' = Active
    BY <1>1 DEF Active
<1>3. QED
    BY <1>1, <1>2 DEF ActiveInv, TakenIds

(* How many reactions are on lists is a number, and not more than there    *)
(* ever were.                                                              *)
LEMMA ListIdsNext ==
    ASSUME ListInv'
    PROVE  /\ Cardinality(ListIds') \in Nat
           /\ Cardinality(ListIds') <= MaxReactions
<1>1. ListIds' \subseteq 1..MaxReactions
    BY MicrotaskConstants DEF ListIds, Listed, ListInv, Ids
<1>2. MaxReactions \in Nat /\ 1 \in Int /\ MaxReactions \in Int
    BY MicrotaskConstants
<1>3. IsFiniteSet(1..MaxReactions) /\ Cardinality(1..MaxReactions) = MaxReactions
  <2>1. IsFiniteSet(1..MaxReactions) /\
        Cardinality(1..MaxReactions) = IF 1 > MaxReactions THEN 0 ELSE MaxReactions - 1 + 1
      BY <1>2, FS_Interval
  <2>2. QED
      BY <1>2, <2>1
<1>4. IsFiniteSet(ListIds') /\ Cardinality(ListIds') <= Cardinality(1..MaxReactions)
    BY <1>1, <1>3, FS_Subset
<1>5. QED
    BY <1>3, <1>4, FS_CardinalityType

(* A step that adds reactions to those that wait, and takes none.          *)
LEMMA AddedStep ==
    ASSUME LostInv, PromiseInv', NEW new, NEW back \in {0, 1}, Moved(new, back),
           TakenIds' = TakenIds, ActiveInv'
    PROVE  LostInv'
<1>1. WaitIds' = WaitIds \cup {rx.id : rx \in new}
    BY DEF Moved, WaitIds
<1>2. PlacesInv'
    BY <1>1 DEF Moved, LostInv, PlacesInv
<1>3. Reserved'
  <2>1. Cardinality(ListIds') \in Nat /\ free' \in Nat
      BY ListIdsNext DEF Moved, PromiseInv, TypeOK, QueueOK
  <2>2. MayFail' = MayFail
      OBVIOUS
  <2>3. QED
      BY <2>1, <2>2 DEF Moved, Reserved
<1>4. QED
    BY <1>2, <1>3 DEF Moved, LostInv

(* As many reactions are pending as numbers are on lists.                  *)
LEMMA PendingCount ==
    ASSUME LostInv
    PROVE  PendingReactions = Cardinality(ListIds) /\ PendingReactions \in Nat
<1>. DEFINE S == {s \in Promises \X (1..MaxReactions) : s[2] \in DOMAIN reactions[s[1]]}
            f == [s \in S |-> reactions[s[1]][s[2]].id]
<1>0. ListInv
    BY DEF LostInv
<1>1. ASSUME NEW p \in Promises, NEW i \in DOMAIN reactions[p]
      PROVE  i \in 1..MaxReactions /\ reactions[p][i].id \in ListIds
  <2>1. Len(reactions[p]) \in Nat /\ DOMAIN reactions[p] = 1..Len(reactions[p])
      BY SomeTypes DEF LostInv, PromiseInv
  <2>2. Len(reactions[p]) < nextId /\ nextId \in 1..(MaxReactions + 1) /\ MaxReactions \in Nat
      BY <1>0, MicrotaskConstants DEF ListInv
  <2>3. QED
      BY <2>1, <2>2 DEF ListIds, Listed
<1>2. f \in [S -> ListIds]
    BY <1>1
<1>3. ASSUME NEW s \in S, NEW t \in S, f[s] = f[t] PROVE s = t
  <2>1. PICK p \in Promises, i \in 1..MaxReactions : s = <<p, i>> /\ i \in DOMAIN reactions[p]
      OBVIOUS
  <2>2. PICK q \in Promises, j \in 1..MaxReactions : t = <<q, j>> /\ j \in DOMAIN reactions[q]
      OBVIOUS
  <2>3. reactions[p][i].id = reactions[q][j].id
      BY <1>3, <2>1, <2>2
  <2>4. p = q
      BY <2>1, <2>2, <2>3, <1>0 DEF ListInv
  <2>5. i = j
    <3>1. ~(i < j) /\ ~(j < i)
        BY <2>1, <2>2, <2>3, <2>4, <1>0, IdsBelow DEF ListInv
    <3>2. QED
        BY <3>1, MicrotaskConstants
  <2>6. QED
      BY <2>1, <2>2, <2>4, <2>5
<1>4. ASSUME NEW id \in ListIds PROVE \E s \in S : f[s] = id
  <2>1. PICK p \in Promises : \E i \in DOMAIN reactions[p] : id = reactions[p][i].id
      BY <1>4 DEF ListIds, Listed
  <2>2. PICK i \in DOMAIN reactions[p] : id = reactions[p][i].id
      BY <2>1
  <2>3. <<p, i>> \in S /\ f[<<p, i>>] = id
      BY <2>2, <1>1
  <2>4. QED
      BY <2>3
<1>5. f \in Injection(S, ListIds) /\ f \in Surjection(S, ListIds)
  <2>1. f \in Bijection(S, ListIds)
      BY <1>2, <1>3, <1>4, Fun_IsBij
  <2>2. QED
      BY <2>1 DEF Bijection
<1>6. IsFiniteSet(ListIds)
  <2>1. CASE Promises = {}
    <3>1. ListIds = {}
        BY <2>1 DEF ListIds
    <3>2. QED
        BY <3>1, FS_EmptySet
  <2>2. CASE Promises # {}
      BY <2>2, ListCount DEF LostInv, PromiseInv
  <2>3. QED
      BY <2>1, <2>2
<1>7. Cardinality(S) = Cardinality(ListIds) /\ Cardinality(ListIds) \in Nat
    BY <1>5, <1>6, FS_Injection, FS_CardinalityType
<1>8. QED
    BY <1>7 DEF PendingReactions

(* Steps that register and settle nothing.                                 *)
LEMMA QuietMoves ==
    ASSUME LostInv, PromiseStep, UNCHANGED <<reactions, queue, nextId, free>>
    PROVE  Moved({}, 0)
<1>1. free' \in Nat /\ free' >= free + 0
    BY IdsBelow
<1>2. QED
    BY <1>1, NothingMoves

(* js_promise_then: one reaction more.                                     *)
LEMMA ThenMoves ==
    ASSUME LostInv, PromiseStep, NEW p \in Promises, NEW r \in Promises,
           NEW h \in HandlerPairs, Then(p, h[1], h[2], r)
    PROVE  Moved({ThenReaction(p, h[1], h[2], r)}, 0)
<1>1. /\ state[p] # "absent" /\ state[r] = "absent"
      /\ Subscribe(p, state[p], value[p], ThenReaction(p, h[1], h[2], r), 0)
      /\ state' = [state EXCEPT ![r] = "pending"]
    BY DEF Then
<1>2. state'[p] = state[p]
    BY <1>1, SomeTypes DEF LostInv, PromiseInv
<1>3. PICK rx : rx = ThenReaction(p, h[1], h[2], r)
    OBVIOUS
<1>4. rx \in Reaction /\ rx.id = nextId /\ rx.on = p
    BY <1>3, IdsBelow, MicrotaskConstants
       DEF ThenReaction, Reaction, ThenReactions, Handlers
<1>5. PICK outcome : outcome = state[p]
    OBVIOUS
<1>6. QED
    BY <1>1, <1>2, <1>3, <1>4, <1>5, SubscribeMoves

(* JS_OP_AWAIT: one reaction more, which will resume the fiber on top.     *)
LEMMA AwaitMoves ==
    ASSUME LostInv, PromiseStep, NEW p \in Promises, Await(p)
    PROVE  \E back \in {0, 1} : Moved({AwaitReaction(p, Top.fiber)}, back)
<1>1. /\ Top.fiber # NoFiber /\ state' = state
      /\ Subscribe(p, state[p], value[p], AwaitReaction(p, Top.fiber), Back)
    BY DEF Await
<1>2. Top.fiber \in Called
    BY <1>1, TopFiber DEF LostInv, PromiseInv, TypeOK
<1>3. PICK rx : rx = AwaitReaction(p, Top.fiber)
    OBVIOUS
<1>4. rx \in Reaction /\ rx.id = nextId /\ rx.on = p
    BY <1>2, <1>3, IdsBelow DEF AwaitReaction, Reaction, AwaitReactions
<1>5. PICK back \in {0, 1} : back = Back
    BY DEF Back
<1>6. PICK outcome : outcome = state[p]
    OBVIOUS
<1>7. QED
    BY <1>1, <1>3, <1>4, <1>5, <1>6, SubscribeMoves

(* The same with a value that is no promise.                               *)
LEMMA AwaitValueMoves ==
    ASSUME LostInv, PromiseStep, NEW p \in Promises, NEW v, AwaitValue(v, p)
    PROVE  \E back \in {0, 1} : Moved({AwaitReaction(p, Top.fiber)}, back)
<1>1. /\ Top.fiber # NoFiber /\ state' = [state EXCEPT ![p] = "fulfilled"]
      /\ Subscribe(p, "fulfilled", v, AwaitReaction(p, Top.fiber), Back)
    BY DEF AwaitValue
<1>2. Top.fiber \in Called
    BY <1>1, TopFiber DEF LostInv, PromiseInv, TypeOK
<1>3. PICK rx : rx = AwaitReaction(p, Top.fiber)
    OBVIOUS
<1>4. rx \in Reaction /\ rx.id = nextId /\ rx.on = p
    BY <1>2, <1>3, IdsBelow DEF AwaitReaction, Reaction, AwaitReactions
<1>5. PICK back \in {0, 1} : back = Back
    BY DEF Back
<1>6. state'[p] = "fulfilled"
    BY <1>1, SomeTypes DEF LostInv, PromiseInv
<1>7. QED
    BY <1>1, <1>3, <1>4, <1>5, <1>6, SubscribeMoves

(* The drain returns, and may trim the free list.                          *)
LEMMA TrimMoves ==
    ASSUME ReserveKept, LostInv, PromiseStep, LeaveDrain
    PROVE  Moved({}, 0)
<1>1. UNCHANGED <<reactions, queue, nextId>> /\ (free' = free \/ free' = FreeMax)
    BY DEF LeaveDrain, promiseVars
<1>2. CASE free' = free
    BY <1>1, <1>2, QuietMoves
<1>3. CASE free' = FreeMax
  <2>1. ListInv' /\ ListIds' = ListIds
      BY <1>1 DEF LostInv, ListInv, Ids, ListIds, Listed
  <2>2. QueueInv'
    <3>1. \A i \in DOMAIN queue : queue[i].rx.on \in Promises
        BY SomeTypes DEF LostInv, PromiseInv, Reaction, ThenReactions, AwaitReactions
    <3>2. QED
        BY <1>1, <3>1 DEF LostInv, QueueInv, Ids, PromiseStep
  <2>3. Waiting' = Waiting /\ Ids' = Ids
      BY <1>1 DEF Waiting, Listed, Ids
  <2>4. MayFail => Cardinality(ListIds') + 0 <= free'
      BY <2>1, <1>3, PendingCount, MicrotaskConstants DEF ReserveKept
  <2>5. QED
      BY <2>1, <2>2, <2>3, <2>4 DEF Moved
<1>4. QED
    BY <1>1, <1>2, <1>3

(* Whatever ends the activation on top, the activation is gone.            *)
LEMMA FinishLeaves ==
    ASSUME TypeOK, Finish
    PROVE  Leave /\ stack # <<>>
<1>. USE DEF TypeOK
<1>1. ASSUME NEW p, Await(p) PROVE Leave /\ stack # <<>>
    BY <1>1, TopFiber DEF Await
<1>2. ASSUME NEW p, NEW v, AwaitValue(v, p) PROVE Leave /\ stack # <<>>
    BY <1>2, TopFiber DEF AwaitValue
<1>3. ASSUME NEW v, FiberReturn(v) PROVE Leave /\ stack # <<>>
    BY <1>3, TopFiber DEF FiberReturn
<1>4. ASSUME NEW v, HandlerReturn(v) PROVE Leave /\ stack # <<>>
    BY <1>4, TopJob DEF HandlerReturn
<1>5. ASSUME NEW v, FiberThrow(v) PROVE Leave /\ stack # <<>>
    BY <1>5, TopFiber DEF FiberThrow
<1>6. ASSUME NEW v, HandlerThrow(v) PROVE Leave /\ stack # <<>>
    BY <1>6, TopJob DEF HandlerThrow
<1>7. ASSUME PassThrough PROVE Leave /\ stack # <<>>
    BY <1>7, PassThroughFrame DEF PassThrough
<1>8. QED
    BY <1>1, <1>2, <1>3, <1>4, <1>5, <1>6, <1>7 DEF Finish

(* What code does: no job ends or starts.                                  *)
LEMMA CodeKeepsPlaces ==
    ASSUME LostInv, PromiseStep, PromiseInv', Code
    PROVE  LostInv'
<1>0. ActiveInv /\ StackOK
    BY DEF LostInv, PromiseInv, TypeOK
<1>1. ASSUME NEW p \in Promises, NewPromise(p) PROVE LostInv'
  <2>1. Moved({}, 0)
      BY <1>1, QuietMoves DEF NewPromise
  <2>2. stack' = stack /\ done' = done
      BY <1>1 DEF NewPromise
  <2>3. QED
      BY <1>0, <2>1, <2>2, SameJobs, AddedStep
<1>2. ASSUME NEW p \in Promises, NEW r \in Promises, NEW h \in HandlerPairs,
             Then(p, h[1], h[2], r)
      PROVE  LostInv'
  <2>1. PICK new : Moved(new, 0)
      BY <1>2, ThenMoves
  <2>2. stack' = stack /\ done' = done
      BY <1>2 DEF Then
  <2>3. QED
      BY <1>0, <2>1, <2>2, SameJobs, AddedStep
<1>3. ASSUME ThenRefused PROVE LostInv'
  <2>1. Moved({}, 0)
      BY <1>3, RefusedMoves DEF ThenRefused
  <2>2. stack' = stack /\ done' = done
      BY <1>3 DEF ThenRefused
  <2>3. QED
      BY <1>0, <2>1, <2>2, SameJobs, AddedStep
<1>4. ASSUME NEW p \in Promises, NEW v \in Resolutions, Resolve(p, v) PROVE LostInv'
  <2>1. v \in Values /\ ResolveWith(p, v, 0)
      BY <1>4, MicrotaskConstants DEF Resolve
  <2>2. PICK new : Moved(new, 0)
      BY <2>1, ResolveMoves
  <2>3. stack' = stack /\ done' = done
      BY <1>4 DEF Resolve
  <2>4. QED
      BY <1>0, <2>2, <2>3, SameJobs, AddedStep
<1>5. ASSUME NEW p \in Promises, NEW reason \in Reasons, Reject(p, reason) PROVE LostInv'
  <2>1. Moved({}, 0)
      BY <1>5, SettleMoves DEF Reject, Settled
  <2>2. stack' = stack /\ done' = done
      BY <1>5 DEF Reject
  <2>3. QED
      BY <1>0, <2>1, <2>2, SameJobs, AddedStep
<1>6. ASSUME NEW p \in Promises, NEW f \in Fibers, CallAsync(f, p) PROVE LostInv'
  <2>1. Moved({}, 0)
      BY <1>6, QuietMoves DEF CallAsync
  <2>2. done' = done
      BY <1>6 DEF CallAsync
  <2>3. CASE stack' = stack
      BY <1>0, <2>1, <2>2, <2>3, SameJobs, AddedStep
  <2>4. ASSUME NEW frame, stack' = <<frame>> \o stack, frame.kind # "job"
        PROVE  LostInv'
    <3>1. Active' = Active /\ ActiveInv'
        BY <1>0, <2>2, <2>4, PushJobs
    <3>2. TakenIds' = TakenIds
        BY <3>1, <2>2 DEF TakenIds
    <3>3. QED
        BY <2>1, <3>1, <3>2, AddedStep
  <2>5. [kind |-> "call", body |-> "interp", job |-> NoJob, fiber |-> f].kind # "job"
      OBVIOUS
  <2>6. \/ stack' = stack
        \/ stack' = <<[kind |-> "call", body |-> "interp", job |-> NoJob, fiber |-> f]>> \o stack
      BY <1>6 DEF CallAsync
  <2>7. QED
      BY <2>3, <2>4, <2>5, <2>6
<1>7. QED
    BY <1>1, <1>2, <1>3, <1>4, <1>5, <1>6 DEF Code

(* What ends an activation: the reaction of a job that ends is done.       *)
LEMMA FinishKeepsPlaces ==
    ASSUME LostInv, PromiseStep, PromiseInv', Finish
    PROVE  LostInv'
<1>1. TypeOK /\ StackOK /\ ActiveInv
    BY DEF LostInv, PromiseInv, TypeOK
<1>2. Leave /\ stack # <<>>
    BY <1>1, FinishLeaves
<1>3. TakenIds' = TakenIds /\ ActiveInv'
    BY <1>1, <1>2, PopJobs DEF Leave
<1>4. \E new : \E back \in {0, 1} : Moved(new, back)
  <2>1. ASSUME NEW p \in Promises, NEW v \in Values, NEW back \in {0, 1}, ResolveWith(p, v, back)
        PROVE  \E new : Moved(new, back)
      BY <2>1, ResolveMoves
  <2>2. ASSUME NEW p \in Promises, NEW v, NEW back \in {0, 1}, Settle(p, "rejected", v, back)
        PROVE  Moved({}, back)
      BY <2>2, SettleMoves DEF Settled
  <2>3. ASSUME NEW p \in Promises, Await(p)
        PROVE  \E new : \E back \in {0, 1} : Moved(new, back)
      BY <2>3, AwaitMoves
  <2>4. ASSUME NEW p \in Promises, NEW v \in Resolutions, AwaitValue(v, p)
        PROVE  \E new : \E back \in {0, 1} : Moved(new, back)
      BY <2>4, AwaitValueMoves
  <2>5. QED
      BY <1>1, <2>1, <2>2, <2>3, <2>4, FinishCases
<1>5. QED
    BY <1>3, <1>4, AddedStep

(* js_run_jobs: the job that starts leaves the queue for the stack.        *)
LEMMA DrainKeepsPlaces ==
    ASSUME ReserveKept, LostInv, PromiseStep, PromiseInv', Drain
    PROVE  LostInv'
<1>0. ActiveInv /\ StackOK
    BY DEF LostInv, PromiseInv, TypeOK
<1>1. CASE EnterDrain
  <2>1. Moved({}, 0)
      BY <1>1, QuietMoves DEF EnterDrain, promiseVars
  <2>2. done' = done
      BY <1>1 DEF EnterDrain
  <2>3. ASSUME NEW frame, stack' = <<frame>> \o stack, frame.kind # "job"
        PROVE  LostInv'
    <3>1. Active' = Active /\ ActiveInv'
        BY <1>0, <2>2, <2>3, PushJobs
    <3>2. TakenIds' = TakenIds
        BY <3>1, <2>2 DEF TakenIds
    <3>3. QED
        BY <2>1, <3>1, <3>2, AddedStep
  <2>4. [kind |-> "drain", body |-> "drain", job |-> NoJob, fiber |-> NoFiber].kind # "job"
      OBVIOUS
  <2>5. stack' = <<[kind |-> "drain", body |-> "drain", job |-> NoJob, fiber |-> NoFiber]>> \o stack
      BY <1>1 DEF EnterDrain
  <2>6. QED
      BY <2>3, <2>4, <2>5
<1>2. CASE StartJob
  <2>1. /\ queue # <<>> /\ queue' = Tail(queue) /\ done' = done /\ free' = free
        /\ UNCHANGED <<promiseVars, nextId>>
      BY <1>2 DEF StartJob
  <2>2. PICK job : job = Head(queue)
      OBVIOUS
  <2>3. /\ ListInv' /\ QueueInv' /\ Ids' = Ids /\ ListIds' = ListIds
        /\ job.rx \in Waiting /\ WaitIds' = WaitIds \ {job.rx.id}
      BY <2>1, <2>2, TakeMoves
  <2>4. job.rx.id \in WaitIds /\ job.rx.id \notin TakenIds
      BY <2>3 DEF WaitIds, LostInv, PlacesInv
  <2>5. PICK frame : /\ frame = [kind |-> "job", body |-> Body(job), job |-> job,
                                 fiber |-> job.rx.fiber]
                     /\ stack' = <<frame>> \o stack
      BY <1>2, <2>2 DEF StartJob
  <2>6. frame.kind = "job" /\ frame.job = job
      BY <2>5
  <2>7. Active' = Active \cup {job.rx} /\ ActiveInv'
      BY <1>0, <2>1, <2>4, <2>5, <2>6, StartJobs
  <2>8. TakenIds' = TakenIds \cup {job.rx.id}
      BY <2>1, <2>7 DEF TakenIds
  <2>9. PlacesInv'
      BY <2>3, <2>4, <2>8 DEF LostInv, PlacesInv
  <2>10. Reserved'
      BY <2>1, <2>3 DEF LostInv, Reserved
  <2>11. QED
      BY <2>3, <2>7, <2>9, <2>10 DEF LostInv
<1>3. CASE LeaveDrain
  <2>1. Moved({}, 0)
      BY <1>3, TrimMoves
  <2>2. Top.kind = "drain" /\ stack' = Tail(stack) /\ done' = done
      BY <1>3 DEF LeaveDrain, Draining
  <2>3. stack # <<>>
      BY <2>2 DEF Top, Host
  <2>4. done' = IF Top.kind = "job" THEN done \cup {Top.job.rx.id} ELSE done
      BY <2>2
  <2>5. TakenIds' = TakenIds /\ ActiveInv'
      BY <1>0, <2>2, <2>3, <2>4, PopJobs
  <2>6. QED
      BY <2>1, <2>5, AddedStep
<1>4. QED
    BY <1>1, <1>2, <1>3 DEF Drain

(* Every step of the engine keeps each reaction in one place.              *)
LEMMA LostStep ==
    ASSUME ReserveKept, LostInv, [Next]_vars
    PROVE  LostInv' /\ PromiseStep
<1>1. PromiseInv' /\ PromiseStep
    BY PromiseInvStep DEF LostInv
<1>2. CASE Interrupt \/ ClearInterrupt \/ UNCHANGED vars
  <2>1. UNCHANGED <<reactions, queue, nextId, free>> /\ stack' = stack /\ done' = done
      BY <1>2 DEF Interrupt, ClearInterrupt, vars, promiseVars
  <2>2. Moved({}, 0)
      BY <1>1, <2>1, QuietMoves
  <2>3. ActiveInv
      BY DEF LostInv
  <2>4. QED
      BY <1>1, <2>1, <2>2, <2>3, SameJobs, AddedStep
<1>3. QED
    BY <1>1, <1>2, CodeKeepsPlaces, FinishKeepsPlaces, DrainKeepsPlaces DEF Next

(* Nothing is registered at first.                                         *)
LEMMA LostInit == Init => LostInv
<1> SUFFICES ASSUME Init
             PROVE  LostInv
    OBVIOUS
<1>1. PromiseInv
    BY PromiseInvInit
<1>2. /\ nextId = 1 /\ Ids = {} /\ done = {}
      /\ \A p \in Promises : reactions[p] = <<>>
      /\ queue = <<>> /\ stack = <<>> /\ free = 0
    BY DEF Init, Ids
<1>3. DOMAIN <<>> = {} /\ Len(<<>>) = 0 /\ RunningJobs = {} /\ Active = {}
    BY <1>2 DEF RunningJobs, Active
<1>4. ListInv /\ QueueInv /\ ActiveInv
    BY <1>2, <1>3, MicrotaskConstants DEF ListInv, QueueInv, ActiveInv
<1>5. Waiting = {} /\ ListIds = {}
  <2>1. \A x : x \notin Waiting
      BY <1>2, <1>3, InWaiting
  <2>2. ListIds = {}
      BY <1>2, <1>3 DEF ListIds, Listed
  <2>3. QED
      BY <2>1, <2>2
<1>6. PlacesInv /\ Reserved
    BY <1>2, <1>3, <1>5, FS_EmptySet DEF PlacesInv, WaitIds, TakenIds, Reserved
<1>7. QED
    BY <1>1, <1>4, <1>6 DEF LostInv

-----------------------------------------------------------------------------
(* No reaction is lost.                                                    *)

(* A set without two members has at most one.                              *)
LEMMA AtMostOne ==
    ASSUME NEW S, \A x, y \in S : x = y
    PROVE  Cardinality(S) = IF S = {} THEN 0 ELSE 1
<1>1. CASE S = {}
    BY <1>1, FS_EmptySet
<1>2. CASE S # {}
  <2>1. PICK x \in S : TRUE
      BY <1>2
  <2>2. S = {x}
      BY <2>1
  <2>3. QED
      BY <1>2, <2>2, FS_Singleton
<1>3. QED
    BY <1>1, <1>2

(* A reaction waits on one list, waits once in the queue, is active once,  *)
(* or is done, and only one of these.                                      *)
LEMMA OnePlace ==
    ASSUME LostInv, NEW id \in 1..(nextId - 1)
    PROVE  Places(id) = 1
<1>. DEFINE L == {s \in Promises \X (1..MaxReactions) :
                    s[2] \in DOMAIN reactions[s[1]] /\ reactions[s[1]][s[2]].id = id}
            Q == {i \in DOMAIN queue : queue[i].rx.id = id}
            R == {i \in RunningJobs : stack[i].job.rx.id = id}
            D == {id} \cap done
<1>1. ListInv /\ QueueInv /\ ActiveInv /\ PlacesInv
    BY DEF LostInv
<1>2. /\ \A p \in Promises : \A i \in DOMAIN reactions[p] :
            i \in 1..MaxReactions /\ reactions[p][i] \in Waiting
      /\ \A p \in Promises : DOMAIN reactions[p] \subseteq Nat
      /\ DOMAIN queue \subseteq Nat
      /\ \A i \in DOMAIN queue : queue[i].rx \in Waiting
  <2>1. ASSUME NEW p \in Promises, NEW i \in DOMAIN reactions[p]
        PROVE  i \in 1..MaxReactions
    <3>1. Len(reactions[p]) \in Nat /\ DOMAIN reactions[p] = 1..Len(reactions[p])
        BY SomeTypes DEF LostInv, PromiseInv
    <3>2. Len(reactions[p]) < nextId /\ nextId \in 1..(MaxReactions + 1) /\ MaxReactions \in Nat
        BY <1>1, MicrotaskConstants DEF ListInv
    <3>3. QED
        BY <3>1, <3>2
  <2>2. /\ \A p \in Promises : DOMAIN reactions[p] \subseteq Nat
        /\ DOMAIN queue \subseteq Nat
      BY SomeTypes DEF LostInv, PromiseInv
  <2>3. QED
      BY <2>1, <2>2, InWaiting
<1>3. ASSUME NEW s \in L, NEW t \in L PROVE s = t
  <2>1. PICK p \in Promises, i \in 1..MaxReactions :
           s = <<p, i>> /\ i \in DOMAIN reactions[p] /\ reactions[p][i].id = id
      BY <1>3
  <2>2. PICK q \in Promises, j \in 1..MaxReactions :
           t = <<q, j>> /\ j \in DOMAIN reactions[q] /\ reactions[q][j].id = id
      BY <1>3
  <2>3. p = q
      BY <2>1, <2>2, <1>1 DEF ListInv
  <2>4. i = j
    <3>1. ~(i < j) /\ ~(j < i)
        BY <2>1, <2>2, <2>3, <1>1, IdsBelow DEF ListInv
    <3>2. QED
        BY <3>1, MicrotaskConstants
  <2>5. QED
      BY <2>1, <2>2, <2>3, <2>4
<1>4. ASSUME NEW i \in Q, NEW j \in Q PROVE i = j
  <2>1. i \in Nat /\ j \in Nat
      BY <1>2
  <2>2. ~(i < j) /\ ~(j < i)
      BY <1>1 DEF QueueInv
  <2>3. QED
      BY <2>1, <2>2
<1>5. \A i, j \in R : i = j
    BY <1>1 DEF ActiveInv
<1>6. \A x, y \in D : x = y
    OBVIOUS
<1>7. L # {} => Q = {} /\ id \in WaitIds
  <2>1. ASSUME NEW s \in L PROVE Q = {} /\ id \in WaitIds
    <3>1. PICK p \in Promises, i \in 1..MaxReactions :
             s = <<p, i>> /\ i \in DOMAIN reactions[p] /\ reactions[p][i].id = id
        BY <2>1
    <3>2. id \in WaitIds
        BY <3>1, <1>2 DEF WaitIds
    <3>3. \A i2 \in DOMAIN queue : queue[i2].rx.id # id
        BY <3>1, <1>1 DEF QueueInv
    <3>4. QED
        BY <3>2, <3>3
  <2>2. QED
      BY <2>1
<1>8. Q # {} => id \in WaitIds
    BY <1>2 DEF WaitIds
<1>9. id \in WaitIds => L # {} \/ Q # {}
  <2>1. ASSUME NEW x \in Waiting, x.id = id PROVE L # {} \/ Q # {}
    <3>1. CASE \E p \in Promises : \E i \in DOMAIN reactions[p] : x = reactions[p][i]
      <4>1. PICK p \in Promises : \E i \in DOMAIN reactions[p] : x = reactions[p][i]
          BY <3>1
      <4>2. PICK i \in DOMAIN reactions[p] : x = reactions[p][i]
          BY <4>1
      <4>3. <<p, i>> \in L
          BY <2>1, <4>2, <1>2
      <4>4. QED
          BY <4>3
    <3>2. CASE \E k \in DOMAIN queue : x = queue[k].rx
        BY <2>1, <3>2
    <3>3. QED
        BY <3>1, <3>2, InWaiting
  <2>2. QED
      BY <2>1 DEF WaitIds
<1>10. (R # {} \/ D # {}) <=> id \in TakenIds
    BY DEF TakenIds, Active
<1>11. ~(R # {} /\ D # {})
    BY <1>1 DEF ActiveInv
<1>12. (id \in WaitIds \/ id \in TakenIds) /\ ~(id \in WaitIds /\ id \in TakenIds)
    BY <1>1 DEF PlacesInv, Ids
<1>13. Cardinality(L) = (IF L = {} THEN 0 ELSE 1) /\ Cardinality(Q) = (IF Q = {} THEN 0 ELSE 1)
    BY <1>3, <1>4, AtMostOne
<1>14. Cardinality(R) = (IF R = {} THEN 0 ELSE 1) /\ Cardinality(D) = (IF D = {} THEN 0 ELSE 1)
    BY <1>5, <1>6, AtMostOne
<1>15. Places(id) = Cardinality(L) + Cardinality(Q) + Cardinality(R) + Cardinality(D)
    BY DEF Places
<1>. HIDE DEF L, Q, R, D
<1>16. QED
    BY <1>7, <1>8, <1>9, <1>10, <1>11, <1>12, <1>13, <1>14, <1>15

(* "A dropped job leaves an await pending forever" (js_promise.c:211): for *)
(* any number of promises, any nesting of drains, any refusals of the      *)
(* allocator and any interrupts, a registered reaction is in one place     *)
(* until its job has run, as long as the free list is not trimmed below    *)
(* what the pending reactions reserved.                                    *)
THEOREM ReactionsAreKept == Spec /\ []ReserveKept => []NoReactionLost
<1>1. LostInv => NoReactionLost
    BY OnePlace DEF NoReactionLost
<1>2. ReserveKept /\ LostInv /\ [Next]_vars => LostInv'
    BY LostStep
<1>3. QED
    BY <1>1, <1>2, LostInit, PTL DEF Spec

-----------------------------------------------------------------------------
(* Jobs start in order.                                                    *)

(* Only js_run_jobs makes a reaction active.                               *)
LEMMA ActiveGrows ==
    ASSUME LostInv, [Next]_vars, ~StartJob
    PROVE  Active' \subseteq Active
<1>0. ActiveInv /\ StackOK /\ TypeOK
    BY DEF LostInv, PromiseInv, TypeOK
<1>1. ASSUME NEW frame, frame.kind # "job", stack' = <<frame>> \o stack, done' = done
      PROVE  Active' \subseteq Active
    BY <1>0, <1>1, PushJobs
<1>2. CASE stack' = stack /\ done' = done
    BY <1>0, <1>2, SameJobs
<1>3. CASE Finish
    BY <1>0, <1>3, FinishLeaves, PopJobs DEF Leave
<1>4. CASE LeaveDrain
  <2>1. Top.kind = "drain" /\ stack' = Tail(stack) /\ done' = done
      BY <1>4 DEF LeaveDrain, Draining
  <2>2. stack # <<>>
      BY <2>1 DEF Top, Host
  <2>3. done' = IF Top.kind = "job" THEN done \cup {Top.job.rx.id} ELSE done
      BY <2>1
  <2>4. QED
      BY <1>0, <2>1, <2>2, <2>3, PopJobs
<1>5. CASE EnterDrain
  <2>1. PICK frame : frame = [kind |-> "drain", body |-> "drain", job |-> NoJob,
                              fiber |-> NoFiber]
      OBVIOUS
  <2>2. frame.kind # "job" /\ stack' = <<frame>> \o stack /\ done' = done
      BY <1>5, <2>1 DEF EnterDrain
  <2>3. QED
      BY <2>2, <1>1
<1>6. ASSUME NEW f, NEW p, CallAsync(f, p) PROVE Active' \subseteq Active
  <2>1. PICK frame : frame = [kind |-> "call", body |-> "interp", job |-> NoJob, fiber |-> f]
      OBVIOUS
  <2>2. frame.kind # "job" /\ (stack' = <<frame>> \o stack \/ stack' = stack) /\ done' = done
      BY <1>6, <2>1 DEF CallAsync
  <2>3. QED
      BY <2>2, <1>1, <1>2
<1>7. CASE Interrupt \/ ClearInterrupt \/ UNCHANGED vars
    BY <1>2, <1>7 DEF Interrupt, ClearInterrupt, vars
<1>8. CASE Code
    BY <1>2, <1>6, <1>8 DEF Code, NewPromise, Then, ThenRefused, Resolve, Reject
<1>9. QED
    BY <1>3, <1>4, <1>5, <1>7, <1>8 DEF Next, Drain

(* The job that starts has the oldest reaction of its promise that waits.  *)
LEMMA OldestStarts ==
    ASSUME LostInv, [Next]_vars, NEW rx \in Waiting,
           rx.id \in {r.id : r \in Active'} \ {r.id : r \in Active},
           NEW other \in Waiting, other.on = rx.on
    PROVE  rx.id <= other.id
<1>1. StartJob
    BY ActiveGrows
<1>2. /\ queue # <<>> /\ queue' = Tail(queue) /\ done' = done
      /\ UNCHANGED <<promiseVars, nextId>>
    BY <1>1 DEF StartJob
<1>3. /\ 1 \in DOMAIN queue /\ Head(queue) = queue[1] /\ queue[1] \in Job
      /\ queue[1].rx \in Waiting
    BY <1>2, TakeMoves
<1>4. PICK job : job = Head(queue) /\ job.rx \in Waiting /\ job = queue[1]
    BY <1>3
<1>5. PICK frame : /\ frame = [kind |-> "job", body |-> Body(job), job |-> job,
                               fiber |-> job.rx.fiber]
                   /\ stack' = <<frame>> \o stack
    BY <1>1, <1>4 DEF StartJob
<1>6. job.rx.id \notin TakenIds
    BY <1>4 DEF WaitIds, LostInv, PlacesInv
<1>7. Active' = Active \cup {job.rx}
  <2>1. frame.kind = "job" /\ frame.job = job
      BY <1>5
  <2>2. ActiveInv /\ StackOK
      BY DEF LostInv, PromiseInv, TypeOK
  <2>3. QED
      BY <1>2, <1>5, <1>6, <2>1, <2>2, StartJobs
<1>8. rx = job.rx
    BY <1>4, <1>7, WaitingById
<1>9. rx.id \in Nat /\ other.id \in Nat
  <2>1. rx.id \in Ids /\ other.id \in Ids
      BY DEF LostInv, PlacesInv, WaitIds
  <2>2. QED
      BY <2>1, IdsBelow
<1>10. CASE \E p \in Promises : \E i \in DOMAIN reactions[p] : other = reactions[p][i]
  <2>1. PICK p \in Promises : \E i \in DOMAIN reactions[p] : other = reactions[p][i]
      BY <1>10
  <2>2. other.on = p /\ reactions[p] # <<>>
      BY <2>1 DEF LostInv, ListInv
  <2>3. state[p] = "pending"
      BY <2>2 DEF LostInv, PromiseInv, ReactionsOnlyWhilePending
  <2>4. state[job.rx.on] \in {"fulfilled", "rejected"}
      BY <1>3, <1>4 DEF LostInv, QueueInv
  <2>5. QED
      BY <1>8, <2>2, <2>3, <2>4
<1>11. CASE \E k \in DOMAIN queue : other = queue[k].rx
  <2>1. PICK k \in DOMAIN queue : other = queue[k].rx
      BY <1>11
  <2>2. k = 1 \/ 1 < k
      BY SomeTypes DEF LostInv, PromiseInv
  <2>3. CASE k = 1
      BY <2>1, <2>3, <1>4, <1>8, <1>9
  <2>4. CASE 1 < k
      BY <2>1, <2>4, <1>3, <1>4, <1>8, <1>9 DEF LostInv, QueueInv
  <2>5. QED
      BY <2>2, <2>3, <2>4
<1>12. QED
    BY <1>10, <1>11, InWaiting

(* "Handlers fire FIFO, as the spec requires" (js_promise.c:168), for any  *)
(* number of promises and reactions, across settlements and nested drains, *)
(* as long as the reserve is kept.                                         *)
THEOREM JobsStartInOrder == Spec /\ []ReserveKept => StartOrder
<1>1. LostInv /\ [Next]_vars =>
         \A rx \in Waiting :
            rx.id \in {r.id : r \in Active'} \ {r.id : r \in Active} =>
               \A other \in Waiting : other.on = rx.on => rx.id <= other.id
    BY OldestStarts
<1>2. ReserveKept /\ LostInv /\ [Next]_vars => LostInv'
    BY LostStep
<1>3. QED
    BY <1>1, <1>2, LostInit, PTL DEF Spec, StartOrder

-----------------------------------------------------------------------------
(* How an activation answers for its promise.                              *)

(* The promise p has been settled, or a reaction that is new will settle   *)
(* it; the reactions that are new resume no fiber.                         *)
Answered(p) ==
    \E new : \E back \in {0, 1} :
       /\ Moved(new, back)
       /\ \A rx \in new : rx.fiber = NoFiber
       /\ ~MayFail /\ state[p] = "pending" =>
             state'[p] \in Settled \/ \E rx \in new : rx.result = p

(* A promise that settle is called on is settled.                          *)
LEMMA SettleAnswers ==
    ASSUME LostInv, PromiseStep, NEW p \in Promises, NEW outcome \in Settled,
           NEW v, NEW back \in {0, 1}, Settle(p, outcome, v, back)
    PROVE  Answered(p)
<1>1. Moved({}, back)
    BY SettleMoves
<1>2. state[p] = "pending" => state'[p] \in Settled
    BY SomeTypes DEF Settle, LostInv, PromiseInv
<1>3. QED
    BY <1>1, <1>2 DEF Answered

(* A promise that is resolved is settled, or owed a reaction.              *)
LEMMA ResolveAnswers ==
    ASSUME LostInv, PromiseStep, NEW p \in Promises, NEW v \in Values,
           NEW back \in {0, 1}, ResolveWith(p, v, back)
    PROVE  Answered(p)
<1>1. CASE v \notin Promises /\ Settle(p, "fulfilled", v, back)
    BY <1>1, SettleAnswers DEF Settled
<1>2. CASE v = p /\ Settle(p, "rejected", EngineError, back)
    BY <1>2, SettleAnswers DEF Settled
<1>3. CASE /\ v \in Promises \ {p}
           /\ Subscribe(v, state[v], value[v],
                        ThenReaction(v, "none", "none", p), back)
           /\ UNCHANGED <<state, value>>
  <2>1. PICK rx : rx = ThenReaction(v, "none", "none", p)
      OBVIOUS
  <2>2. /\ rx.id = nextId /\ rx.on = v /\ rx.result = p /\ rx.fiber = NoFiber
        /\ rx \in Reaction
      BY <1>3, <2>1, IdsBelow DEF ThenReaction, Reaction, ThenReactions, Handlers
  <2>3. Moved({rx}, back)
      BY <1>3, <2>1, <2>2, SubscribeMoves
  <2>4. QED
      BY <2>2, <2>3 DEF Answered
<1>4. CASE Refused(back)
  <2>1. Moved({}, back) /\ MayFail
      BY <1>4, RefusedMoves DEF Refused
  <2>2. QED
      BY <2>1 DEF Answered
<1>5. QED
    BY <1>1, <1>2, <1>3, <1>4 DEF ResolveWith

(* The ways an activation ends: a fiber ends, a handler ends, or a fiber   *)
(* waits.                                                                  *)
FiberEnds ==
    /\ Top.fiber \in Called /\ Answered(fpromise[Top.fiber])
    /\ fstate' = [fstate EXCEPT ![Top.fiber] = "done"]

HandlerEnds ==
    /\ Top.kind = "job" /\ Top.fiber = NoFiber
    /\ Top.job.rx \in ThenReactions /\ Answered(Top.job.rx.result)
    /\ fstate' = fstate

FiberWaits ==
    /\ Top.fiber \in Called
    /\ \E p \in Promises : \E back \in {0, 1} : Moved({AwaitReaction(p, Top.fiber)}, back)
    /\ fstate' = [fstate EXCEPT ![Top.fiber] = "suspended"]

(* What the end of an activation ends: a fiber, a handler, or a stretch.   *)
LEMMA FinishKinds ==
    ASSUME LostInv, PromiseStep, Finish
    PROVE  /\ FiberEnds \/ HandlerEnds \/ FiberWaits
           /\ UNCHANGED <<fpromise, derived>>
<1>0. TypeOK /\ StackOK
    BY DEF LostInv, PromiseInv, TypeOK
<1>1. PICK back \in {0, 1} : back = Back
    BY DEF Back
<1>2. Resolutions \subseteq Values /\ Reasons \cup {EngineError} \subseteq Values
    BY MicrotaskConstants DEF Values
<1>3. ASSUME NEW v \in Resolutions, FiberReturn(v)
      PROVE  FiberEnds /\ UNCHANGED <<fpromise, derived>>
  <2>1. Top.fiber \in Called /\ fpromise[Top.fiber] \in Promises
      BY <1>0, <1>3, TopFiber DEF FiberReturn, Called
  <2>2. ResolveWith(fpromise[Top.fiber], v, back)
      BY <1>1, <1>3 DEF FiberReturn
  <2>3. Answered(fpromise[Top.fiber])
      BY <1>2, <2>1, <2>2, ResolveAnswers
  <2>4. QED
      BY <1>3, <2>1, <2>3 DEF FiberReturn, FiberEnds
<1>4. ASSUME NEW reason \in Reasons \cup {EngineError}, FiberThrow(reason)
      PROVE  FiberEnds /\ UNCHANGED <<fpromise, derived>>
  <2>1. Top.fiber \in Called /\ fpromise[Top.fiber] \in Promises
      BY <1>0, <1>4, TopFiber DEF FiberThrow, Called
  <2>2. Settle(fpromise[Top.fiber], "rejected", reason, back)
      BY <1>1, <1>4 DEF FiberThrow
  <2>3. Answered(fpromise[Top.fiber])
      BY <2>1, <2>2, SettleAnswers DEF Settled
  <2>4. QED
      BY <1>4, <2>1, <2>3 DEF FiberThrow, FiberEnds
<1>5. ASSUME NEW v \in Resolutions, HandlerReturn(v)
      PROVE  HandlerEnds /\ UNCHANGED <<fpromise, derived>>
  <2>1. Top.job.rx \in ThenReactions /\ Top.job.rx.result \in Promises
      BY <1>0, <1>5, TopJob DEF HandlerReturn, ThenReactions
  <2>2. ResolveWith(Top.job.rx.result, v, back)
      BY <1>1, <1>5 DEF HandlerReturn
  <2>3. Answered(Top.job.rx.result)
      BY <1>2, <2>1, <2>2, ResolveAnswers
  <2>4. QED
      BY <1>5, <2>1, <2>3 DEF HandlerReturn, HandlerEnds, fiberVars
<1>6. ASSUME NEW reason \in Reasons \cup {EngineError}, HandlerThrow(reason)
      PROVE  HandlerEnds /\ UNCHANGED <<fpromise, derived>>
  <2>1. Top.job.rx \in ThenReactions /\ Top.job.rx.result \in Promises
      BY <1>0, <1>6, TopJob DEF HandlerThrow, ThenReactions
  <2>2. Settle(Top.job.rx.result, "rejected", reason, back)
      BY <1>1, <1>6 DEF HandlerThrow
  <2>3. Answered(Top.job.rx.result)
      BY <2>1, <2>2, SettleAnswers DEF Settled
  <2>4. QED
      BY <1>6, <2>1, <2>3 DEF HandlerThrow, HandlerEnds, fiberVars
<1>7. ASSUME PassThrough
      PROVE  HandlerEnds /\ UNCHANGED <<fpromise, derived>>
  <2>1. stack # <<>> /\ Top.job \in Job /\ Top.job.rx \in ThenReactions
      BY <1>0, <1>7, PassThroughFrame
  <2>2. Top.job.rx.result \in Promises /\ Top.job.value \in Values
      BY <2>1 DEF ThenReactions, Job
  <2>3. \/ ResolveWith(Top.job.rx.result, Top.job.value, back)
        \/ Settle(Top.job.rx.result, "rejected", Top.job.value, back)
      BY <1>1, <1>7 DEF PassThrough
  <2>4. Answered(Top.job.rx.result)
      BY <2>2, <2>3, ResolveAnswers, SettleAnswers DEF Settled
  <2>5. Top.kind = "job"
    <3>1. Top \in Frame /\ Top.body = "none"
        BY <1>0, <1>7, <2>1, TopType DEF PassThrough
    <3>2. QED
        BY <3>1 DEF Frame, DrainFrames, CallFrames, JobFrames
  <2>6. QED
      BY <1>7, <2>1, <2>4, <2>5 DEF PassThrough, HandlerEnds, fiberVars
<1>8. ASSUME NEW p \in Promises, Await(p)
      PROVE  FiberWaits /\ UNCHANGED <<fpromise, derived>>
    BY <1>0, <1>8, AwaitMoves, TopFiber DEF Await, FiberWaits
<1>9. ASSUME NEW p \in Promises, NEW v \in Resolutions, AwaitValue(v, p)
      PROVE  FiberWaits /\ UNCHANGED <<fpromise, derived>>
    BY <1>0, <1>9, AwaitValueMoves, TopFiber DEF AwaitValue, FiberWaits
<1>10. QED
    BY <1>3, <1>4, <1>5, <1>6, <1>7, <1>8, <1>9 DEF Finish

-----------------------------------------------------------------------------
(* Fibers, step by step.                                                   *)

(* A step that neither parks nor resumes f leaves it where it is.          *)
LEMMA SameFiber ==
    ASSUME NEW f \in Fibers, FiberAt(f), fstate'[f] = fstate[f],
           \A rx : rx.fiber = f => (rx \in Waiting' <=> rx \in Waiting),
           Once(f)', Activations(f)' # {} <=> Activations(f) # {}
    PROVE  FiberAt(f)'
<1>1. (\E rx \in Waiting' : rx.fiber = f) <=> (\E rx \in Waiting : rx.fiber = f)
    OBVIOUS
<1>2. \A rx, ry \in Waiting' : rx.fiber = f /\ ry.fiber = f => rx = ry
    BY DEF FiberAt
<1>3. QED
    BY <1>1, <1>2 DEF FiberAt

(* The activations stay when the stack does.                               *)
LEMMA SameActivations ==
    ASSUME NEW f, Once(f), stack' = stack
    PROVE  Once(f)' /\ Activations(f)' = Activations(f)
<1>1. Activations(f)' = Activations(f)
    BY DEF Activations
<1>2. QED
    BY <1>1 DEF Once

(* The reactions of promise handlers resume no fiber.                      *)
LEMMA NoFiberWaits ==
    ASSUME NEW new, NEW back, Moved(new, back), \A rx \in new : rx.fiber = NoFiber,
           NEW f \in Fibers
    PROVE  \A rx : rx.fiber = f => (rx \in Waiting' <=> rx \in Waiting)
BY MicrotaskConstants DEF Moved

(* What code does to the fibers.                                           *)
LEMMA CodeKeepsFibers ==
    ASSUME LostInv, FibersInv, PromiseStep, Code, NEW f \in Fibers
    PROVE  FiberAt(f)'
<1>0. FiberAt(f) /\ Once(f) /\ StackOK /\ FibersOK
    BY DEF LostInv, PromiseInv, TypeOK, FibersInv, FiberAt
<1>1. ASSUME NEW new, NEW back, Moved(new, back), \A rx \in new : rx.fiber = NoFiber,
             stack' = stack, fstate'[f] = fstate[f]
      PROVE  FiberAt(f)'
    BY <1>0, <1>1, SameFiber, SameActivations, NoFiberWaits
<1>2. ASSUME NEW p \in Promises, NewPromise(p) PROVE FiberAt(f)'
  <2>1. Moved({}, 0) /\ stack' = stack /\ fstate' = fstate
      BY <1>2, QuietMoves DEF NewPromise, fiberVars
  <2>2. QED
      BY <1>1, <2>1
<1>3. ASSUME NEW p \in Promises, NEW r \in Promises, NEW h \in HandlerPairs,
             Then(p, h[1], h[2], r)
      PROVE  FiberAt(f)'
  <2>1. /\ Moved({ThenReaction(p, h[1], h[2], r)}, 0) /\ stack' = stack /\ fstate' = fstate
        /\ ThenReaction(p, h[1], h[2], r).fiber = NoFiber
      BY <1>3, ThenMoves DEF Then, fiberVars, ThenReaction
  <2>2. QED
      BY <1>1, <2>1
<1>4. ASSUME ThenRefused PROVE FiberAt(f)'
  <2>1. Moved({}, 0) /\ stack' = stack /\ fstate' = fstate
      BY <1>4, RefusedMoves DEF ThenRefused, fiberVars
  <2>2. QED
      BY <1>1, <2>1
<1>5. ASSUME NEW p \in Promises, NEW v \in Resolutions, Resolve(p, v) PROVE FiberAt(f)'
  <2>1. v \in Values /\ ResolveWith(p, v, 0) /\ stack' = stack /\ fstate' = fstate
      BY <1>5, MicrotaskConstants DEF Resolve, fiberVars
  <2>2. Answered(p)
      BY <2>1, ResolveAnswers
  <2>3. QED
      BY <1>1, <2>1, <2>2 DEF Answered
<1>6. ASSUME NEW p \in Promises, NEW reason \in Reasons, Reject(p, reason) PROVE FiberAt(f)'
  <2>1. Moved({}, 0) /\ stack' = stack /\ fstate' = fstate
      BY <1>6, SettleMoves DEF Reject, fiberVars, Settled
  <2>2. QED
      BY <1>1, <2>1
<1>7. ASSUME NEW p \in Promises, NEW g \in Fibers, CallAsync(g, p) PROVE FiberAt(f)'
  <2>1. Moved({}, 0) /\ fstate[g] = "none"
      BY <1>7, QuietMoves DEF CallAsync
  <2>2. Waiting' = Waiting
      BY <2>1 DEF Moved
  <2>3. CASE fstate' = [fstate EXCEPT ![g] = "done"] /\ stack' = stack
    <3>1. CASE f = g
      <4>1. fstate[f] = "none" /\ fstate'[f] = "done"
          BY <2>1, <2>3, <3>1, <1>0 DEF FibersOK
      <4>2. QED
          BY <4>1, <2>2, <2>3, <1>0, SameActivations DEF FiberAt
    <3>2. CASE f # g
      <4>1. fstate'[f] = fstate[f]
          BY <2>3, <3>2, <1>0 DEF FibersOK
      <4>2. QED
          BY <4>1, <2>1, <2>3, <1>1
    <3>3. QED
        BY <3>1, <3>2
  <2>4. ASSUME NEW frame, frame.fiber = g, stack' = <<frame>> \o stack,
               fstate' = [fstate EXCEPT ![g] = "running"]
        PROVE  FiberAt(f)'
    <3>1. CASE f = g
      <4>1. fstate[f] = "none" /\ fstate'[f] = "running"
          BY <2>1, <2>4, <3>1, <1>0 DEF FibersOK
      <4>2. Activations(f) = {}
          BY <4>1, <1>0 DEF FiberAt
      <4>3. Once(f)' /\ Activations(f)' # {}
          BY <4>2, <2>4, <3>1, <1>0, PushActivations
      <4>4. QED
          BY <4>1, <4>3, <2>2, <1>0 DEF FiberAt
    <3>2. CASE f # g
      <4>1. fstate'[f] = fstate[f]
          BY <2>4, <3>2, <1>0 DEF FibersOK
      <4>2. Once(f)' /\ (Activations(f)' # {} <=> Activations(f) # {})
          BY <2>4, <3>2, <1>0, PushActivations
      <4>3. QED
          BY <4>1, <4>2, <2>2, <1>0, SameFiber
    <3>3. QED
        BY <3>1, <3>2
  <2>5. PICK frame : frame = [kind |-> "call", body |-> "interp", job |-> NoJob, fiber |-> g]
      OBVIOUS
  <2>6. frame.fiber = g
      BY <2>5
  <2>7. \/ fstate' = [fstate EXCEPT ![g] = "done"] /\ stack' = stack
        \/ /\ stack' = <<frame>> \o stack
           /\ fstate' = [fstate EXCEPT ![g] = "running"]
      BY <1>7, <2>5 DEF CallAsync
  <2>8. QED
      BY <2>3, <2>4, <2>6, <2>7
<1>8. QED
    BY <1>2, <1>3, <1>4, <1>5, <1>6, <1>7 DEF Code

(* An activation that ends parks its fiber, or ends it.                    *)
LEMMA FinishKeepsFibers ==
    ASSUME LostInv, FibersInv, PromiseStep, Finish, NEW f \in Fibers
    PROVE  FiberAt(f)'
<1>0. FiberAt(f) /\ Once(f) /\ StackOK /\ FibersOK /\ TypeOK
    BY DEF LostInv, PromiseInv, TypeOK, FibersInv, FiberAt
<1>1. stack # <<>> /\ stack' = Tail(stack)
    BY <1>0, FinishLeaves DEF Leave
<1>2. /\ Top.fiber # f => Once(f)' /\ (Activations(f)' # {} <=> Activations(f) # {})
      /\ Top.fiber = f => Activations(f)' = {} /\ Activations(f) # {}
    BY <1>0, <1>1, PopActivations
<1>3. Top.fiber = f => /\ fstate[f] = "running" /\ Once(f)'
                       /\ \A rx \in Waiting : rx.fiber # f
    BY <1>0, <1>2 DEF FiberAt, Once
<1>4. CASE FiberEnds \/ HandlerEnds
  <2>1. PICK p : Answered(p)
      BY <1>4 DEF FiberEnds, HandlerEnds
  <2>2. \A rx : rx.fiber = f => (rx \in Waiting' <=> rx \in Waiting)
      BY <2>1, NoFiberWaits DEF Answered
  <2>3. CASE Top.fiber # f
    <3>1. fstate'[f] = fstate[f]
        BY <1>0, <1>4, <2>3 DEF FiberEnds, HandlerEnds, FibersOK
    <3>2. QED
        BY <1>0, <1>2, <2>2, <2>3, <3>1, SameFiber
  <2>4. CASE Top.fiber = f
    <3>1. fstate'[f] = "done"
        BY <1>0, <1>4, <2>4, MicrotaskConstants DEF FiberEnds, HandlerEnds, FibersOK
    <3>2. \A rx \in Waiting' : rx.fiber # f
        BY <2>2, <2>4, <1>3
    <3>3. QED
        BY <1>2, <1>3, <2>4, <3>1, <3>2 DEF FiberAt
  <2>5. QED
      BY <2>3, <2>4
<1>5. CASE FiberWaits
  <2>1. PICK p \in Promises, back \in {0, 1} : Moved({AwaitReaction(p, Top.fiber)}, back)
      BY <1>5 DEF FiberWaits
  <2>2. PICK rx : rx = AwaitReaction(p, Top.fiber)
      OBVIOUS
  <2>3. Waiting' = Waiting \cup {rx} /\ rx.fiber = Top.fiber
      BY <2>1, <2>2 DEF Moved, AwaitReaction
  <2>4. CASE Top.fiber # f
    <3>1. fstate'[f] = fstate[f]
        BY <1>0, <1>5, <2>4 DEF FiberWaits, FibersOK
    <3>2. \A ry : ry.fiber = f => (ry \in Waiting' <=> ry \in Waiting)
        BY <2>3, <2>4
    <3>3. QED
        BY <1>0, <1>2, <2>4, <3>1, <3>2, SameFiber
  <2>5. CASE Top.fiber = f
    <3>1. fstate'[f] = "suspended"
        BY <1>0, <1>5, <2>5 DEF FiberWaits, FibersOK
    <3>2. (\E ry \in Waiting' : ry.fiber = f) /\
          \A ry, rz \in Waiting' : ry.fiber = f /\ rz.fiber = f => ry = rz
        BY <2>3, <2>5, <1>3
    <3>3. QED
        BY <1>2, <1>3, <2>5, <3>1, <3>2 DEF FiberAt
  <2>6. QED
      BY <2>4, <2>5
<1>6. QED
    BY <1>4, <1>5, FinishKinds

(* A job that starts takes its fiber from the queue to the stack.          *)
LEMMA DrainKeepsFibers ==
    ASSUME ReserveKept, LostInv, FibersInv, PromiseStep, Drain, NEW f \in Fibers
    PROVE  FiberAt(f)'
<1>0. FiberAt(f) /\ Once(f) /\ StackOK /\ FibersOK /\ NoFiber \notin Fibers
    BY MicrotaskConstants DEF LostInv, PromiseInv, TypeOK, FibersInv, FiberAt
<1>1. CASE EnterDrain
  <2>1. Moved({}, 0) /\ fstate' = fstate
      BY <1>1, QuietMoves DEF EnterDrain, promiseVars, fiberVars
  <2>2. PICK frame : frame = [kind |-> "drain", body |-> "drain", job |-> NoJob,
                              fiber |-> NoFiber]
      OBVIOUS
  <2>3. frame.fiber # f /\ stack' = <<frame>> \o stack
      BY <1>0, <1>1, <2>2 DEF EnterDrain
  <2>4. Once(f)' /\ (Activations(f)' # {} <=> Activations(f) # {})
      BY <1>0, <2>3, PushActivations
  <2>5. QED
      BY <1>0, <2>1, <2>4, SameFiber, NoFiberWaits
<1>2. CASE StartJob
  <2>1. /\ queue # <<>> /\ queue' = Tail(queue) /\ UNCHANGED <<promiseVars, nextId>>
      BY <1>2 DEF StartJob
  <2>2. PICK job : job = Head(queue)
      OBVIOUS
  <2>3. job.rx \in Waiting /\ Waiting' = Waiting \ {job.rx}
      BY <2>1, <2>2, TakeMoves
  <2>4. PICK frame : /\ frame = [kind |-> "job", body |-> Body(job), job |-> job,
                                 fiber |-> job.rx.fiber]
                     /\ stack' = <<frame>> \o stack
      BY <1>2, <2>2 DEF StartJob
  <2>5. fstate'[f] = IF f = job.rx.fiber THEN "running" ELSE fstate[f]
      BY <1>2, <2>2 DEF StartJob
  <2>6. frame.fiber = job.rx.fiber
      BY <2>4
  <2>7. CASE f = job.rx.fiber
    <3>1. fstate[f] = "suspended" /\ Activations(f) = {}
        BY <1>0, <2>3, <2>7 DEF FiberAt
    <3>2. Once(f)' /\ Activations(f)' # {}
        BY <1>0, <2>4, <2>6, <2>7, <3>1, PushActivations
    <3>3. \A rx \in Waiting' : rx.fiber # f
        BY <1>0, <2>3, <2>7 DEF FiberAt
    <3>4. QED
        BY <2>5, <2>7, <3>2, <3>3 DEF FiberAt
  <2>8. CASE f # job.rx.fiber
    <3>1. Once(f)' /\ (Activations(f)' # {} <=> Activations(f) # {})
        BY <1>0, <2>4, <2>6, <2>8, PushActivations
    <3>2. \A rx : rx.fiber = f => (rx \in Waiting' <=> rx \in Waiting)
        BY <2>3, <2>8
    <3>3. QED
        BY <1>0, <2>5, <2>8, <3>1, <3>2, SameFiber
  <2>9. QED
      BY <2>7, <2>8
<1>3. CASE LeaveDrain
  <2>1. Moved({}, 0) /\ fstate' = fstate /\ stack' = Tail(stack) /\ Top.kind = "drain"
      BY <1>3, TrimMoves DEF LeaveDrain, Draining, fiberVars
  <2>2. stack # <<>>
      BY <2>1 DEF Top, Host
  <2>3. Top.fiber = NoFiber
      BY <1>0, <2>1, <2>2, TopType DEF Frame, DrainFrames, CallFrames, JobFrames
  <2>4. Once(f)' /\ (Activations(f)' # {} <=> Activations(f) # {})
      BY <1>0, <2>1, <2>2, <2>3, PopActivations
  <2>5. QED
      BY <1>0, <2>1, <2>4, SameFiber, NoFiberWaits
<1>4. QED
    BY <1>1, <1>2, <1>3 DEF Drain

(* Every step keeps each fiber where its state says.                       *)
LEMMA FibersStep ==
    ASSUME ReserveKept, LostInv, FibersInv, [Next]_vars
    PROVE  FibersInv'
<1>1. PromiseStep
    BY LostStep
<1>2. ASSUME NEW f \in Fibers PROVE FiberAt(f)'
  <2>1. CASE Interrupt \/ ClearInterrupt \/ UNCHANGED vars
    <3>1. UNCHANGED <<reactions, queue, nextId, free, stack, fstate>>
        BY <2>1 DEF Interrupt, ClearInterrupt, vars, promiseVars, fiberVars
    <3>2. Moved({}, 0)
        BY <1>1, <3>1, QuietMoves
    <3>3. FiberAt(f) /\ Once(f)
        BY DEF FibersInv, FiberAt
    <3>4. QED
        BY <3>1, <3>2, <3>3, SameFiber, SameActivations, NoFiberWaits
  <2>2. QED
      BY <1>1, <2>1, CodeKeepsFibers, FinishKeepsFibers, DrainKeepsFibers DEF Next
<1>3. QED
    BY <1>2 DEF FibersInv

(* There are no fibers at first.                                           *)
LEMMA FibersInit == Init => FibersInv
<1> SUFFICES ASSUME Init
             PROVE  FibersInv
    OBVIOUS
<1>1. \A x : x \notin Waiting
    BY InWaiting DEF Init
<1>2. \A f : Activations(f) = {}
    BY DEF Init, Activations
<1>3. QED
    BY <1>1, <1>2 DEF Init, FibersInv, FiberAt, Once

(* However promises settle and drains nest, a fiber that waits is resumed  *)
(* by exactly one reaction or job, and one that runs or has ended by none  *)
(* (js_resume_fiber, JS_OP_AWAIT), as long as the reserve is kept.         *)
THEOREM FibersResumedOnce == Spec /\ []ReserveKept => []ResumedOnce
<1>1. FibersInv => ResumedOnce
  <2>1. ASSUME FibersInv, NEW f \in Fibers
        PROVE  LET awaits == {rx \in Waiting : rx.fiber = f}
               IN  /\ Cardinality(awaits) = IF fstate[f] = "suspended" THEN 1 ELSE 0
                   /\ Cardinality(Activations(f)) = IF fstate[f] = "running" THEN 1 ELSE 0
    <3>. DEFINE awaits == {rx \in Waiting : rx.fiber = f}
    <3>1. FiberAt(f)
        BY <2>1 DEF FibersInv
    <3>2. /\ \A x, y \in awaits : x = y
          /\ awaits = {} <=> fstate[f] # "suspended"
        BY <3>1 DEF FiberAt
    <3>3. /\ \A x, y \in Activations(f) : x = y
          /\ Activations(f) = {} <=> fstate[f] # "running"
        BY <3>1 DEF FiberAt, Once
    <3>4. Cardinality(awaits) = IF awaits = {} THEN 0 ELSE 1
        BY <3>2, AtMostOne
    <3>5. Cardinality(Activations(f)) = IF Activations(f) = {} THEN 0 ELSE 1
        BY <3>3, AtMostOne
    <3>6. QED
        BY <3>2, <3>3, <3>4, <3>5
  <2>2. QED
      BY <2>1 DEF ResumedOnce
<1>2. ReserveKept /\ LostInv /\ FibersInv /\ [Next]_vars => LostInv' /\ FibersInv'
    BY LostStep, FibersStep
<1>3. QED
    BY <1>1, <1>2, LostInit, FibersInit, PTL DEF Spec

-----------------------------------------------------------------------------
(* No promise is forgotten.                                                *)

(* A promise that has been made stays made.                                *)
LEMMA StaysMade ==
    ASSUME TypeOK, [Next]_vars, NEW q \in Promises, state[q] # "absent"
    PROVE  state'[q] # "absent"
<1>1. ASSUME NEW p \in Promises, NEW s \in {"pending", "fulfilled", "rejected"},
             state' = [state EXCEPT ![p] = s] \/ state' = state
      PROVE  state'[q] # "absent"
    BY <1>1, SomeTypes
<1>2. ASSUME NEW p \in Promises, NEW outcome \in {"fulfilled", "rejected"}, NEW v, NEW back,
             Settle(p, outcome, v, back)
      PROVE  state'[q] # "absent"
    BY <1>1, <1>2 DEF Settle, promiseVars
<1>3. ASSUME NEW p \in Promises, NEW v \in Values, NEW back, ResolveWith(p, v, back)
      PROVE  state'[q] # "absent"
    BY <1>2, <1>3 DEF ResolveWith
<1>4. CASE Code
  <2>1. ASSUME NEW p \in Promises, NewPromise(p) PROVE state'[q] # "absent"
      BY <1>1, <2>1 DEF NewPromise
  <2>2. ASSUME NEW p, NEW r \in Promises, NEW a, NEW b, Then(p, a, b, r)
        PROVE  state'[q] # "absent"
      BY <1>1, <2>2 DEF Then
  <2>3. ASSUME ThenRefused PROVE state'[q] # "absent"
      BY <2>3 DEF ThenRefused
  <2>4. ASSUME NEW p \in Promises, NEW v \in Resolutions, Resolve(p, v)
        PROVE  state'[q] # "absent"
      BY <1>3, <2>4, MicrotaskConstants DEF Resolve
  <2>5. ASSUME NEW p \in Promises, NEW reason \in Reasons, Reject(p, reason)
        PROVE  state'[q] # "absent"
      BY <1>2, <2>5 DEF Reject
  <2>6. ASSUME NEW p \in Promises, NEW f \in Fibers, CallAsync(f, p)
        PROVE  state'[q] # "absent"
      BY <1>1, <2>6 DEF CallAsync
  <2>7. QED
      BY <1>4, <2>1, <2>2, <2>3, <2>4, <2>5, <2>6 DEF Code
<1>5. CASE Finish
  <2>1. ASSUME NEW p \in Promises, Await(p) PROVE state'[q] # "absent"
      BY <2>1 DEF Await
  <2>2. ASSUME NEW p \in Promises, NEW v, AwaitValue(v, p) PROVE state'[q] # "absent"
      BY <1>1, <2>2 DEF AwaitValue
  <2>3. QED
      BY <1>2, <1>3, <1>5, <2>1, <2>2, FinishCases
<1>6. CASE Drain \/ Interrupt \/ ClearInterrupt \/ UNCHANGED vars
    BY <1>6 DEF Drain, EnterDrain, StartJob, LeaveDrain, Interrupt, ClearInterrupt,
                promiseVars, vars
<1>7. QED
    BY <1>4, <1>5, <1>6 DEF Next

(* A reaction that waits or is active goes on doing so, unless its job     *)
(* ends.                                                                   *)
LEMMA StaysInPlace ==
    ASSUME ReserveKept, LostInv, [Next]_vars, NEW rx \in Waiting \cup Active
    PROVE  \/ rx \in Waiting' \cup Active'
           \/ Finish /\ Top.kind = "job" /\ rx = Top.job.rx
<1>0. ActiveInv /\ StackOK /\ TypeOK /\ PromiseStep
    BY LostStep DEF LostInv, PromiseInv, TypeOK
<1>1. ASSUME NEW new, NEW back, Moved(new, back) PROVE Waiting \subseteq Waiting'
    BY <1>1 DEF Moved
<1>2. CASE Code
  <2>1. ASSUME NEW p \in Promises, NewPromise(p)
        PROVE  Waiting \subseteq Waiting' /\ stack' = stack /\ done' = done
      BY <1>0, <1>1, <2>1, QuietMoves DEF NewPromise
  <2>2. ASSUME NEW p \in Promises, NEW r \in Promises, NEW h \in HandlerPairs,
               Then(p, h[1], h[2], r)
        PROVE  Waiting \subseteq Waiting' /\ stack' = stack /\ done' = done
    <3>1. Waiting \subseteq Waiting'
        BY <1>0, <1>1, <2>2, ThenMoves
    <3>2. QED
        BY <2>2, <3>1 DEF Then
  <2>3. ASSUME ThenRefused
        PROVE  Waiting \subseteq Waiting' /\ stack' = stack /\ done' = done
      BY <1>0, <1>1, <2>3, RefusedMoves DEF ThenRefused
  <2>4. ASSUME NEW p \in Promises, NEW v \in Resolutions, Resolve(p, v)
        PROVE  Waiting \subseteq Waiting' /\ stack' = stack /\ done' = done
      BY <1>0, <1>1, <2>4, ResolveMoves, MicrotaskConstants DEF Resolve
  <2>5. ASSUME NEW p \in Promises, NEW reason \in Reasons, Reject(p, reason)
        PROVE  Waiting \subseteq Waiting' /\ stack' = stack /\ done' = done
      BY <1>0, <1>1, <2>5, SettleMoves DEF Reject, Settled
  <2>6. ASSUME NEW p \in Promises, NEW f \in Fibers, CallAsync(f, p)
        PROVE  Waiting \subseteq Waiting' /\ Active' = Active
    <3>1. Waiting \subseteq Waiting' /\ done' = done
        BY <1>0, <1>1, <2>6, QuietMoves DEF CallAsync
    <3>2. PICK frame : frame = [kind |-> "call", body |-> "interp", job |-> NoJob, fiber |-> f]
        OBVIOUS
    <3>3. frame.kind # "job" /\ (stack' = <<frame>> \o stack \/ stack' = stack)
        BY <2>6, <3>2 DEF CallAsync
    <3>4. QED
        BY <1>0, <3>1, <3>3, PushJobs, SameJobs
  <2>7. Waiting \subseteq Waiting' /\ Active' = Active
      BY <1>0, <1>2, <2>1, <2>2, <2>3, <2>4, <2>5, <2>6, SameJobs DEF Code
  <2>8. QED
      BY <2>7
<1>3. CASE Finish
  <2>1. Leave /\ stack # <<>>
      BY <1>0, <1>3, FinishLeaves
  <2>2. \A x \in Active : x \in Active' \/ (Top.kind = "job" /\ x = Top.job.rx)
      BY <1>0, <2>1, PopJobs DEF Leave
  <2>3. Waiting \subseteq Waiting'
      BY <1>0, <1>1, <1>3, FinishKinds DEF FiberEnds, HandlerEnds, FiberWaits, Answered
  <2>4. QED
      BY <1>3, <2>2, <2>3
<1>4. CASE EnterDrain
  <2>1. Waiting \subseteq Waiting' /\ done' = done
      BY <1>0, <1>1, <1>4, QuietMoves DEF EnterDrain, promiseVars
  <2>2. PICK frame : frame = [kind |-> "drain", body |-> "drain", job |-> NoJob, fiber |-> NoFiber]
      OBVIOUS
  <2>3. frame.kind # "job" /\ stack' = <<frame>> \o stack
      BY <1>4, <2>2 DEF EnterDrain
  <2>4. QED
      BY <1>0, <2>1, <2>3, PushJobs
<1>5. CASE StartJob
  <2>1. /\ queue # <<>> /\ queue' = Tail(queue) /\ done' = done
        /\ UNCHANGED <<promiseVars, nextId>>
      BY <1>5 DEF StartJob
  <2>2. PICK job : job = Head(queue)
      OBVIOUS
  <2>3. job.rx \in Waiting /\ Waiting' = Waiting \ {job.rx}
      BY <2>1, <2>2, TakeMoves
  <2>4. PICK frame : /\ frame = [kind |-> "job", body |-> Body(job), job |-> job,
                                 fiber |-> job.rx.fiber]
                     /\ stack' = <<frame>> \o stack
      BY <1>5, <2>2 DEF StartJob
  <2>5. frame.kind = "job" /\ frame.job = job /\ job.rx.id \notin TakenIds
      BY <2>3, <2>4 DEF LostInv, PlacesInv, WaitIds
  <2>6. Active' = Active \cup {job.rx}
      BY <1>0, <2>1, <2>4, <2>5, StartJobs
  <2>7. QED
      BY <2>3, <2>6
<1>6. CASE LeaveDrain
  <2>1. Waiting \subseteq Waiting'
      BY <1>0, <1>1, <1>6, TrimMoves
  <2>2. Top.kind = "drain" /\ stack' = Tail(stack) /\ done' = done
      BY <1>6 DEF LeaveDrain, Draining
  <2>3. stack # <<>>
      BY <2>2 DEF Top, Host
  <2>4. done' = IF Top.kind = "job" THEN done \cup {Top.job.rx.id} ELSE done
      BY <2>2
  <2>5. Active \subseteq Active'
      BY <1>0, <2>2, <2>3, <2>4, PopJobs
  <2>6. QED
      BY <2>1, <2>5
<1>7. CASE Interrupt \/ ClearInterrupt \/ UNCHANGED vars
  <2>1. UNCHANGED <<reactions, queue, nextId, free, stack, done>>
      BY <1>7 DEF Interrupt, ClearInterrupt, vars, promiseVars
  <2>2. Moved({}, 0)
      BY <1>0, <2>1, QuietMoves
  <2>3. QED
      BY <1>0, <1>1, <2>1, <2>2, SameJobs
<1>8. QED
    BY <1>2, <1>3, <1>4, <1>5, <1>6, <1>7 DEF Next, Drain

(* What a step hands out: the result of then, the promise of an async      *)
(* function that is refused, or of one that ends.                          *)
LEMMA PromisedNext ==
    ASSUME LostInv, PromiseStep, OwedInv, FibersInv, [Next]_vars, NEW r \in Promised'
    PROVE  \/ r \in Promised
           \/ Finish /\ FiberEnds /\ r = fpromise[Top.fiber]
           \/ /\ r \in Promises /\ state'[r] # "absent"
              /\ state'[r] = "pending" => \E rx \in Waiting' : rx.result = r
<1>0. TypeOK /\ FibersOK
    BY DEF LostInv, PromiseInv, TypeOK
<1>1. ASSUME derived' = derived, fpromise' = fpromise,
             \A f \in Fibers : fstate'[f] = "done" => fstate[f] = "done"
      PROVE  r \in Promised
    BY <1>1 DEF Promised
<1>2. CASE Code
  <2>1. ASSUME NEW p \in Promises, NEW q \in Promises, NEW h \in HandlerPairs,
               Then(p, h[1], h[2], q), r \notin Promised
        PROVE  /\ r \in Promises /\ state'[r] # "absent"
               /\ \E rx \in Waiting' : rx.result = r
    <3>1. r = q
        BY <2>1 DEF Then, Promised, fiberVars
    <3>2. state'[q] = "pending"
        BY <2>1, <1>0, SomeTypes DEF Then
    <3>3. ThenReaction(p, h[1], h[2], q) \in Waiting'
        BY <2>1, ThenMoves DEF Moved
    <3>4. ThenReaction(p, h[1], h[2], q).result = q
        BY DEF ThenReaction
    <3>5. QED
        BY <3>1, <3>2, <3>3, <3>4
  <2>2. ASSUME NEW p \in Promises, NEW f \in Fibers, CallAsync(f, p), r \notin Promised
        PROVE  r \in Promises /\ state'[r] = "rejected"
    <3>1. PICK g \in Fibers : fstate'[g] = "done" /\ r = fpromise'[g] /\ r \notin derived
        BY <2>2 DEF CallAsync, Promised
    <3>2. g = f
        BY <2>2, <3>1, <1>0 DEF CallAsync, Promised, FibersOK
    <3>3. r = p
        BY <2>2, <3>1, <3>2, <1>0 DEF CallAsync, FibersOK
    <3>4. state' = [state EXCEPT ![p] = "rejected"]
        BY <2>2, <3>1, <3>2, <1>0 DEF CallAsync, FibersOK
    <3>5. QED
        BY <3>3, <3>4, <1>0, SomeTypes
  <2>3. ASSUME NEW p \in Promises, NewPromise(p) PROVE r \in Promised
      BY <2>3, <1>1 DEF NewPromise, fiberVars
  <2>4. ASSUME ThenRefused PROVE r \in Promised
      BY <2>4, <1>1 DEF ThenRefused, fiberVars
  <2>5. ASSUME NEW p, NEW v, Resolve(p, v) PROVE r \in Promised
      BY <2>5, <1>1 DEF Resolve, fiberVars
  <2>6. ASSUME NEW p, NEW v, Reject(p, v) PROVE r \in Promised
      BY <2>6, <1>1 DEF Reject, fiberVars
  <2>7. QED
      BY <1>2, <2>1, <2>2, <2>3, <2>4, <2>5, <2>6 DEF Code
<1>3. CASE Finish
  <2>1. UNCHANGED <<fpromise, derived>> /\ (FiberEnds \/ HandlerEnds \/ FiberWaits)
      BY <1>3, FinishKinds
  <2>2. CASE FiberEnds
    <3>1. ASSUME r \notin Promised PROVE r = fpromise[Top.fiber]
      <4>1. PICK g \in Fibers : fstate'[g] = "done" /\ r = fpromise[g] /\ fstate[g] # "done"
          BY <2>1, <3>1 DEF Promised
      <4>2. g = Top.fiber
          BY <2>2, <4>1, <1>0 DEF FiberEnds, FibersOK
      <4>3. QED
          BY <4>1, <4>2
    <3>2. QED
        BY <1>3, <2>2, <3>1
  <2>3. CASE HandlerEnds
      BY <2>1, <2>3, <1>1 DEF HandlerEnds
  <2>4. CASE FiberWaits
    <3>1. \A f \in Fibers : fstate'[f] = "done" => fstate[f] = "done"
        BY <2>4, <1>0 DEF FiberWaits, FibersOK
    <3>2. QED
        BY <2>1, <3>1, <1>1
  <2>5. QED
      BY <2>1, <2>2, <2>3, <2>4
<1>4. CASE Drain \/ Interrupt \/ ClearInterrupt \/ UNCHANGED vars
  <2>1. UNCHANGED <<fpromise, derived>>
      BY <1>4 DEF Drain, EnterDrain, StartJob, LeaveDrain, Interrupt, ClearInterrupt,
                  fiberVars, vars
  <2>2. \A f \in Fibers : fstate'[f] = "done" => fstate[f] = "done"
      BY <1>4 DEF Drain, EnterDrain, StartJob, LeaveDrain, Interrupt, ClearInterrupt,
                  fiberVars, vars
  <2>3. QED
      BY <2>1, <2>2, <1>1
<1>5. QED
    BY <1>2, <1>3, <1>4 DEF Next

(* A fiber that has been called has a promise.                             *)
(* A fiber that was made has a result promise that exists.                 *)
LEMMA CalledNext ==
    ASSUME LostInv, PromiseStep, OwedInv, FibersInv, [Next]_vars, NEW f \in Fibers,
           fstate'[f] # "none"
    PROVE  f \in Called' /\ state'[fpromise'[f]] # "absent"
<1>0. TypeOK /\ FibersOK
    BY DEF LostInv, PromiseInv, TypeOK
<1>1. ASSUME fpromise'[f] = fpromise[f], fstate[f] # "none"
      PROVE  f \in Called' /\ state'[fpromise'[f]] # "absent"
    BY <1>0, <1>1, StaysMade DEF OwedInv, Called
<1>2. CASE Code
  <2>1. ASSUME NEW p \in Promises, NEW g \in Fibers, CallAsync(g, p)
        PROVE  f \in Called' /\ state'[fpromise'[f]] # "absent"
    <3>1. CASE f = g
      <4>1. fpromise'[f] = p /\ state'[p] \in {"pending", "rejected"}
          BY <2>1, <3>1, <1>0, SomeTypes DEF CallAsync, FibersOK
      <4>2. QED
          BY <4>1 DEF Called
    <3>2. CASE f # g
      <4>1. fpromise'[f] = fpromise[f] /\ fstate'[f] = fstate[f]
          BY <2>1, <3>2, <1>0 DEF CallAsync, FibersOK
      <4>2. QED
          BY <4>1, <1>1
    <3>3. QED
        BY <3>1, <3>2
  <2>2. ASSUME UNCHANGED fiberVars PROVE f \in Called' /\ state'[fpromise'[f]] # "absent"
      BY <2>2, <1>1 DEF fiberVars
  <2>3. QED
      BY <1>2, <2>1, <2>2 DEF Code, NewPromise, Then, ThenRefused, Resolve, Reject
<1>3. CASE Finish
  <2>1. fpromise' = fpromise /\ (FiberEnds \/ HandlerEnds \/ FiberWaits)
      BY <1>3, FinishKinds
  <2>2. fstate[f] # "none"
    <3>1. CASE HandlerEnds
        BY <3>1 DEF HandlerEnds
    <3>2. CASE FiberEnds \/ FiberWaits
      <4>1. CASE f # Top.fiber
          BY <3>2, <4>1, <1>0 DEF FiberEnds, FiberWaits, FibersOK
      <4>2. CASE f = Top.fiber
        <5>1. stack # <<>> /\ StackOK
            BY <1>0, <1>3, FinishLeaves DEF TypeOK
        <5>3. 1 \in DOMAIN stack /\ stack[1] = Top
            BY <5>1, StackTop
        <5>4. Activations(f) # {}
            BY <4>2, <5>3 DEF Activations
        <5>5. QED
            BY <5>4 DEF FibersInv, FiberAt
      <4>3. QED
          BY <4>1, <4>2
    <3>3. QED
        BY <2>1, <3>1, <3>2
  <2>3. QED
      BY <2>1, <2>2, <1>1
<1>4. CASE StartJob
  <2>1. fpromise' = fpromise
      BY <1>4 DEF StartJob
  <2>2. CASE f # Head(queue).rx.fiber
    <3>1. fstate'[f] = fstate[f]
        BY <1>4, <2>2 DEF StartJob
    <3>2. QED
        BY <2>1, <3>1, <1>1
  <2>3. CASE f = Head(queue).rx.fiber
    <3>1. Head(queue).rx \in Waiting
        BY <1>4, TakeMoves DEF StartJob
    <3>2. fstate[f] = "suspended"
        BY <2>3, <3>1 DEF FibersInv, FiberAt
    <3>3. QED
        BY <2>1, <3>2, <1>1
  <2>4. QED
      BY <2>2, <2>3
<1>5. CASE EnterDrain \/ LeaveDrain \/ Interrupt \/ ClearInterrupt \/ UNCHANGED vars
    BY <1>5, <1>1 DEF EnterDrain, LeaveDrain, Interrupt, ClearInterrupt, fiberVars, vars
<1>6. QED
    BY <1>2, <1>3, <1>4, <1>5 DEF Next, Drain

(* Every step leaves each promise that was handed out settled or owed.     *)
LEMMA OwedStep ==
    ASSUME ~MayFail, LostInv, FibersInv, OwedInv, [Next]_vars
    PROVE  OwedInv'
<1>0. TypeOK /\ StackOK /\ ReserveKept /\ PromiseStep
    BY LostStep DEF LostInv, PromiseInv, TypeOK, ReserveKept
<1>1. ASSUME NEW p \in Promises, Answered(p), state[p] # "absent" PROVE Owing(p)'
  <2>1. PICK new : \E back \in {0, 1} :
           /\ Moved(new, back)
           /\ state[p] = "pending" =>
                 state'[p] \in Settled \/ \E rx \in new : rx.result = p
      BY <1>1 DEF Answered
  <2>2. new \subseteq Waiting'
      BY <2>1 DEF Moved
  <2>3. state[p] # "pending" => state'[p] \in {"fulfilled", "rejected"}
    <3>1. state[p] # "pending" => state[p] \in {"fulfilled", "rejected"}
        BY <1>0, <1>1, SomeTypes DEF Settled
    <3>2. QED
        BY <3>1, <1>0 DEF PromiseStep
  <2>4. state'[p] # "absent"
      BY <1>0, <1>1, StaysMade
  <2>5. QED
      BY <2>1, <2>2, <2>3, <2>4 DEF Owing, Settled
<1>2. ASSUME NEW r \in Promised PROVE Owing(r)'
  <2>1. Owing(r) /\ r \in Promises /\ state[r] # "absent"
      BY DEF OwedInv, Owing
  <2>2. state'[r] # "absent"
      BY <1>0, <2>1, StaysMade
  <2>3. state'[r] = "pending" => state[r] = "pending"
    <3>1. state[r] \in {"pending", "fulfilled", "rejected"}
        BY <1>0, <2>1, SomeTypes DEF Settled
    <3>2. QED
        BY <3>1, <2>1, <1>0 DEF PromiseStep
  <2>4. ASSUME state'[r] = "pending"
        PROVE  Owing(r)'
    <3>1. PICK rx \in Waiting \cup Active : rx.result = r
        BY <2>1, <2>3, <2>4 DEF Owing
    <3>2. CASE rx \in Waiting' \cup Active'
        BY <2>1, <2>2, <3>1, <3>2 DEF Owing
    <3>3. CASE Finish /\ Top.kind = "job" /\ rx = Top.job.rx
      <4>1. Top.job.rx \in ThenReactions
        <5>1. Top.job.rx \in Reaction
            BY <1>0, <3>3, TopJob, JobIds
        <5>2. \A ry \in AwaitReactions : ry.result = NoPromise
            BY DEF AwaitReactions
        <5>3. QED
            BY <2>1, <3>1, <3>3, <5>1, <5>2, MicrotaskConstants DEF Reaction
      <4>2. Top.fiber = NoFiber
        <5>1. Top \in Frame
            BY <1>0, <3>3, TopJob, TopType
        <5>2. Top.fiber = Top.job.rx.fiber
            BY <3>3, <5>1 DEF Frame, DrainFrames, CallFrames, JobFrames
        <5>3. QED
            BY <4>1, <5>2 DEF ThenReactions
      <4>3. HandlerEnds
        <5>1. NoFiber \notin Called
            BY MicrotaskConstants DEF Called
        <5>2. QED
            BY <1>0, <3>3, <4>2, <5>1, FinishKinds DEF FiberEnds, FiberWaits
      <4>4. Answered(r)
          BY <3>1, <3>3, <4>3 DEF HandlerEnds
      <4>5. QED
          BY <1>1, <2>1, <4>4
    <3>4. QED
        BY <1>0, <3>1, <3>2, <3>3, StaysInPlace
  <2>5. QED
      BY <2>1, <2>2, <2>4 DEF Owing
<1>3. ASSUME NEW r \in Promised' PROVE Owing(r)'
  <2>1. CASE r \in Promised
      BY <2>1, <1>2
  <2>2. CASE Finish /\ FiberEnds /\ r = fpromise[Top.fiber]
    <3>1. Top.fiber \in Called /\ r \in Promises /\ Answered(r)
        BY <2>2 DEF FiberEnds, Called
    <3>2. fstate[Top.fiber] # "none"
      <4>1. stack # <<>>
          BY <1>0, <2>2, FinishLeaves
      <4>2. Activations(Top.fiber) # {}
          BY <1>0, <4>1, StackTop DEF Activations
      <4>3. QED
          BY <3>1, <4>2 DEF FibersInv, FiberAt, Called
    <3>3. state[r] # "absent"
        BY <2>2, <3>1, <3>2 DEF OwedInv, Called
    <3>4. QED
        BY <3>1, <3>3, <1>1
  <2>3. CASE /\ r \in Promises /\ state'[r] # "absent"
             /\ state'[r] = "pending" => \E rx \in Waiting' : rx.result = r
      BY <2>3 DEF Owing
  <2>4. QED
      BY <1>0, <2>1, <2>2, <2>3, PromisedNext
<1>4. ASSUME NEW f \in Fibers, fstate'[f] # "none"
      PROVE  f \in Called' /\ state'[fpromise'[f]] # "absent"
    BY <1>0, <1>4, CalledNext
<1>5. QED
    BY <1>3, <1>4 DEF OwedInv

(* No promise has been handed out at first.                                *)
LEMMA OwedInit == Init => OwedInv
BY DEF Init, OwedInv, Promised

(* So they always are, where no allocation fails.                          *)
LEMMA OwedAlways ==
    ASSUME ~MayFail
    PROVE  Spec => []OwedInv
<1>1. ReserveKept
    BY DEF ReserveKept
<1>2. LostInv /\ FibersInv /\ OwedInv /\ [Next]_vars => LostInv' /\ FibersInv' /\ OwedInv'
    BY <1>1, LostStep, FibersStep, OwedStep
<1>3. QED
    BY <1>2, LostInit, FibersInit, OwedInit, PTL DEF Spec

(* Where no allocation fails, every promise that then returned is settled  *)
(* or a reaction will settle it (run_then_job, js_promise_resolve_with).   *)
(* The assumption is needed: an adoption that cannot be allocated leaves   *)
(* its promise pending for ever.                                           *)
THEOREM DerivedNotForgotten ==
    ASSUME ~MayFail
    PROVE  Spec => []NoOrphan
<1>1. OwedInv => NoOrphan
    BY DEF OwedInv, Owing, Promised, NoOrphan
<1>2. QED
    BY <1>1, OwedAlways, PTL

(* The same of the promise an async function returned, once its fiber has  *)
(* ended (advance_fiber).                                                  *)
THEOREM AsyncNotForgotten ==
    ASSUME ~MayFail
    PROVE  Spec => []NoOrphanAsync
<1>1. OwedInv => NoOrphanAsync
    BY DEF OwedInv, Owing, Promised, NoOrphanAsync
<1>2. QED
    BY <1>1, OwedAlways, PTL

-----------------------------------------------------------------------------
(* The job-node reserve: every step is a step of JobPool.                  *)

QueueIds == {queue[i].rx.id : i \in DOMAIN queue}
ActiveIds == {rx.id : rx \in Active}

Running == Cardinality(RunningJobs)
Done == Cardinality(done)

(* There are as many numbers in the queue as jobs.                         *)
LEMMA QueueCount ==
    ASSUME LostInv
    PROVE  /\ IsFiniteSet(QueueIds) /\ Cardinality(QueueIds) = Len(queue)
           /\ ListIds \cap QueueIds = {} /\ WaitIds = ListIds \cup QueueIds
<1>. DEFINE l == Len(queue)
            f == [i \in 1..l |-> queue[i].rx.id]
<1>1. l \in Nat /\ DOMAIN queue = 1..l /\ QueueInv
    BY SomeTypes DEF LostInv, PromiseInv
<1>2. f \in [1..l -> QueueIds]
    BY <1>1 DEF QueueIds
<1>3. ASSUME NEW i \in 1..l, NEW j \in 1..l, f[i] = f[j] PROVE i = j
  <2>1. ~(i < j) /\ ~(j < i)
      BY <1>1, <1>3 DEF QueueInv
  <2>2. QED
      BY <2>1
<1>4. \A x \in QueueIds : \E i \in 1..l : f[i] = x
    BY <1>1 DEF QueueIds
<1>5. f \in Bijection(1..l, QueueIds)
    BY <1>2, <1>3, <1>4, Fun_IsBij
<1>6. ExistsBijection(1..l, QueueIds)
    BY <1>5 DEF ExistsBijection
<1>7. IsFiniteSet(QueueIds) /\ Cardinality(QueueIds) = Len(queue)
  <2>1. IsFiniteSet(1..l) /\ Cardinality(1..l) = l
    <3>1. 1 \in Int /\ l \in Int
        BY <1>1
    <3>2. IsFiniteSet(1..l) /\ Cardinality(1..l) = IF 1 > l THEN 0 ELSE l - 1 + 1
        BY <3>1, FS_Interval
    <3>3. QED
        BY <1>1, <3>2
  <2>2. QED
      BY <2>1, <1>6, FS_Bijection
<1>8. ListIds \cap QueueIds = {}
  <2>1. ASSUME NEW id \in ListIds, id \in QueueIds PROVE FALSE
    <3>1. PICK p \in Promises : \E i \in DOMAIN reactions[p] : id = reactions[p][i].id
        BY <2>1 DEF ListIds, Listed
    <3>2. PICK k \in DOMAIN queue : id = queue[k].rx.id
        BY <2>1 DEF QueueIds
    <3>3. QED
        BY <3>1, <3>2, <1>1 DEF QueueInv
  <2>2. QED
      BY <2>1
<1>9. WaitIds = ListIds \cup QueueIds
  <2>1. ASSUME NEW id \in WaitIds PROVE id \in ListIds \cup QueueIds
    <3>1. PICK x \in Waiting : id = x.id
        BY <2>1 DEF WaitIds
    <3>2. CASE \E p \in Promises : \E i \in DOMAIN reactions[p] : x = reactions[p][i]
        BY <3>1, <3>2 DEF ListIds, Listed
    <3>3. CASE \E k \in DOMAIN queue : x = queue[k].rx
        BY <3>1, <3>3 DEF QueueIds
    <3>4. QED
        BY <3>2, <3>3, InWaiting
  <2>2. ASSUME NEW id \in ListIds PROVE id \in WaitIds
    <3>1. PICK p \in Promises : \E i \in DOMAIN reactions[p] : id = reactions[p][i].id
        BY <2>2 DEF ListIds, Listed
    <3>2. QED
        BY <3>1, InWaiting DEF WaitIds
  <2>3. ASSUME NEW id \in QueueIds PROVE id \in WaitIds
      BY <2>3, InWaiting DEF WaitIds, QueueIds
  <2>4. QED
      BY <2>1, <2>2, <2>3
<1>10. QED
    BY <1>7, <1>8, <1>9

(* There are as many numbers of active reactions as running jobs.          *)
LEMMA RunningCount ==
    ASSUME LostInv
    PROVE  /\ IsFiniteSet(ActiveIds) /\ Cardinality(ActiveIds) = Running /\ Running \in Nat
           /\ ActiveIds \cap done = {} /\ TakenIds = ActiveIds \cup done
           /\ RunningJobs = {} <=> Running = 0
<1>. DEFINE f == [i \in RunningJobs |-> stack[i].job.rx.id]
<1>0. ActiveInv /\ StackOK
    BY DEF LostInv, PromiseInv, TypeOK
<1>1. f \in [RunningJobs -> ActiveIds]
    BY DEF ActiveIds, Active
<1>2. \A i, j \in RunningJobs : f[i] = f[j] => i = j
    BY <1>0 DEF ActiveInv
<1>3. \A x \in ActiveIds : \E i \in RunningJobs : f[i] = x
    BY DEF ActiveIds, Active
<1>4. f \in Bijection(RunningJobs, ActiveIds)
    BY <1>1, <1>2, <1>3, Fun_IsBij
<1>5. ExistsBijection(RunningJobs, ActiveIds)
    BY <1>4 DEF ExistsBijection
<1>6. IsFiniteSet(RunningJobs)
  <2>1. stack \in Seq(Frame)
      BY <1>0 DEF StackOK
  <2>2. Len(stack) \in Nat /\ DOMAIN stack = 1..Len(stack)
      BY <2>1, LenProperties
  <2>3. 1 \in Int /\ Len(stack) \in Int
      BY <2>2
  <2>4. IsFiniteSet(1..Len(stack)) /\ RunningJobs \subseteq 1..Len(stack)
      BY <2>2, <2>3, FS_Interval DEF RunningJobs
  <2>5. QED
      BY <2>4, FS_Subset
<1>7. IsFiniteSet(ActiveIds) /\ Cardinality(ActiveIds) = Running /\ Running \in Nat
    BY <1>5, <1>6, FS_Bijection, FS_CardinalityType DEF Running
<1>8. RunningJobs = {} <=> Running = 0
    BY <1>6, FS_EmptySet DEF Running
<1>9. ActiveIds \cap done = {} /\ TakenIds = ActiveIds \cup done
    BY <1>0 DEF ActiveIds, Active, ActiveInv, TakenIds
<1>10. QED
    BY <1>7, <1>8, <1>9

(* All reactions ever registered are counted once.                         *)
CountsAgree ==
    /\ PendingReactions \in Nat /\ Len(queue) \in Nat /\ Running \in Nat /\ Done \in Nat
    /\ nextId \in Nat /\ nextId <= MaxReactions + 1 /\ free \in Nat
    /\ IsFiniteSet(ActiveIds) /\ Cardinality(ActiveIds) = Running
    /\ IsFiniteSet(done) /\ Cardinality(TakenIds) = Running + Done
    /\ nextId = 1 + PendingReactions + Len(queue) + Running + Done
    /\ Lost = {}

(* The places are disjoint, so their sizes add up.                         *)
LEMMA Counts == LostInv => CountsAgree
<1> SUFFICES ASSUME LostInv
             PROVE  CountsAgree
    OBVIOUS
<1>1. /\ nextId \in Nat \ {0} /\ free \in Nat /\ nextId <= MaxReactions + 1
      /\ Len(queue) \in Nat
    BY IdsBelow, SomeTypes, MicrotaskConstants DEF LostInv, ListInv, PromiseInv
<1>2. IsFiniteSet(Ids) /\ Cardinality(Ids) = nextId - 1
  <2>1. 1 \in Int /\ nextId - 1 \in Int
      BY <1>1
  <2>2. IsFiniteSet(Ids) /\ Cardinality(Ids) = IF 1 > nextId - 1 THEN 0 ELSE (nextId - 1) - 1 + 1
      BY <2>1, FS_Interval DEF Ids
  <2>3. QED
      BY <1>1, <2>2
<1>3. WaitIds \cap TakenIds = {} /\ WaitIds \cup TakenIds = Ids
    BY DEF LostInv, PlacesInv
<1>4. /\ IsFiniteSet(WaitIds) /\ IsFiniteSet(TakenIds) /\ IsFiniteSet(done)
      /\ IsFiniteSet(ListIds)
  <2>1. WaitIds \subseteq Ids /\ TakenIds \subseteq Ids /\ done \subseteq Ids /\ ListIds \subseteq Ids
      BY <1>3, QueueCount, RunningCount
  <2>2. QED
      BY <1>2, <2>1, FS_Subset
<1>5. Cardinality(WaitIds) = PendingReactions + Len(queue)
  <2>1. /\ IsFiniteSet(QueueIds) /\ Cardinality(QueueIds) = Len(queue)
        /\ ListIds \cap QueueIds = {} /\ WaitIds = ListIds \cup QueueIds
        /\ PendingReactions = Cardinality(ListIds) /\ PendingReactions \in Nat
      BY QueueCount, PendingCount
  <2>2. Cardinality(ListIds \cup QueueIds) =
           Cardinality(ListIds) + Cardinality(QueueIds) - Cardinality(ListIds \cap QueueIds)
      BY <2>1, <1>4, FS_Union
  <2>3. Cardinality(ListIds \cap QueueIds) = 0
      BY <2>1, FS_EmptySet
  <2>4. QED
      BY <2>1, <2>2, <2>3, <1>1
<1>6. Cardinality(TakenIds) = Running + Done /\ Done \in Nat
  <2>1. /\ IsFiniteSet(ActiveIds) /\ Cardinality(ActiveIds) = Running /\ Running \in Nat
        /\ ActiveIds \cap done = {} /\ TakenIds = ActiveIds \cup done
        /\ Done \in Nat /\ Done = Cardinality(done)
      BY RunningCount, <1>4, FS_CardinalityType DEF Done
  <2>2. Cardinality(ActiveIds \cup done) =
           Cardinality(ActiveIds) + Cardinality(done) - Cardinality(ActiveIds \cap done)
      BY <2>1, <1>4, FS_Union
  <2>3. Cardinality(ActiveIds \cap done) = 0
      BY <2>1, FS_EmptySet
  <2>4. QED
      BY <2>1, <2>2, <2>3
<1>7. Cardinality(Ids) = Cardinality(WaitIds) + Cardinality(TakenIds)
  <2>1. Cardinality(WaitIds \cup TakenIds) =
           Cardinality(WaitIds) + Cardinality(TakenIds) - Cardinality(WaitIds \cap TakenIds)
      BY <1>4, FS_Union
  <2>2. /\ Cardinality(WaitIds) \in Nat /\ Cardinality(TakenIds) \in Nat
        /\ Cardinality(Ids) \in Nat
      BY <1>2, <1>4, FS_CardinalityType
  <2>3. Cardinality(WaitIds \cap TakenIds) = 0
      BY <1>3, FS_EmptySet
  <2>4. PICK w \in Nat, t \in Nat, u \in Nat :
            /\ w = Cardinality(WaitIds) /\ t = Cardinality(TakenIds)
            /\ u = Cardinality(Ids) /\ u = w + t - 0
      BY <1>3, <2>1, <2>2, <2>3
  <2>5. u = w + t
      BY <2>4
  <2>6. QED
      BY <2>4, <2>5
<1>8. Lost = {}
    BY OnePlace DEF Lost
<1>9. /\ PendingReactions \in Nat /\ Running \in Nat
      /\ IsFiniteSet(ActiveIds) /\ Cardinality(ActiveIds) = Running
    BY PendingCount, RunningCount
<1>10. nextId = 1 + PendingReactions + Len(queue) + Running + Done
    BY <1>1, <1>2, <1>5, <1>6, <1>7, <1>9
<1>11. QED
    BY <1>1, <1>4, <1>6, <1>8, <1>9, <1>10 DEF CountsAgree

(* The same after a step.                                                  *)
LEMMA CountsNext == LostInv' => CountsAgree'
BY Counts, PTL

(* The free list holds the nodes of the pending reactions, those that jobs *)
(* gave back, and those that refused registrations left.                   *)
FreeInv == free <= MaxFree + PendingReactions + Done

(* `back` jobs end.                                                        *)
Ended(back) ==
    back <= Running /\ Running' = Running - back /\ Done' = Done + back

(* The activation on top returns.                                          *)
LEMMA LeaveEnds ==
    ASSUME LostInv, LostInv', Leave, stack # <<>>
    PROVE  Ended(Back) /\ (Top.kind # "job" => Ended(0))
<1>1. CountsAgree /\ CountsAgree'
    BY Counts, CountsNext
<1>2. ActiveInv /\ StackOK
    BY DEF LostInv, PromiseInv, TypeOK
<1>3. TakenIds' = TakenIds
    BY <1>2, PopJobs DEF Leave
<1>4. PICK r \in Nat, d \in Nat, rn \in Nat, dn \in Nat :
          r = Running /\ d = Done /\ rn = Running' /\ dn = Done' /\ rn + dn = r + d
    BY <1>1, <1>3 DEF CountsAgree
<1>5. r \in Nat /\ d \in Nat /\ rn \in Nat /\ dn \in Nat /\ rn + dn = r + d
    BY <1>4
<1>6. CASE Top.kind = "job"
  <2>1. Top.job.rx.id \notin done
    <3>1. 1 \in RunningJobs /\ stack[1] = Top
        BY <1>2, <1>6, StackTop DEF RunningJobs
    <3>2. QED
        BY <1>2, <3>1 DEF ActiveInv
  <2>2. done' = done \cup {Top.job.rx.id}
      BY <1>6 DEF Leave
  <2>3. dn = d + 1
      BY <1>1, <1>4, <2>1, <2>2, FS_AddElement DEF CountsAgree, Done
  <2>4. Back = 1
      BY <1>6 DEF Back
  <2>5. 1 <= r /\ rn = r - 1
      BY <1>5, <2>3
  <2>6. QED
      BY <1>4, <1>6, <2>3, <2>4, <2>5 DEF Ended
<1>7. CASE Top.kind # "job"
  <2>1. Done' = Done /\ Back = 0
      BY <1>7 DEF Leave, Back, Done
  <2>1a. dn = d
      BY <1>4, <2>1
  <2>2. rn = r - 0 /\ dn = d + 0 /\ 0 <= r
      BY <1>5, <2>1a
  <2>3. QED
      BY <1>4, <1>7, <2>1, <2>2 DEF Ended
<1>8. QED
    BY <1>6, <1>7

(* While the jobs on the stack stay, none ends.                            *)
LEMMA NoneEnds ==
    ASSUME LostInv, LostInv', Active' = Active, done' = done
    PROVE  Ended(0)
<1>1. CountsAgree /\ CountsAgree'
    BY Counts, CountsNext
<1>2. ActiveIds' = ActiveIds /\ Done' = Done
    BY DEF ActiveIds, Done
<1>3. QED
    BY <1>1, <1>2 DEF CountsAgree, Ended

(* The counts before and after a step, as numbers.                         *)
LEMMA Numbers ==
    ASSUME LostInv, LostInv', FreeInv
    PROVE  \E p, q, r, d, x, f, pn, qn, rn, dn, xn, fn \in Nat :
              /\ p = PendingReactions /\ q = Len(queue) /\ r = Running
              /\ d = Done /\ x = nextId /\ f = free
              /\ pn = PendingReactions' /\ qn = Len(queue') /\ rn = Running'
              /\ dn = Done' /\ xn = nextId' /\ fn = free'
              /\ x = 1 + p + q + r + d /\ x <= MaxReactions + 1
              /\ xn = 1 + pn + qn + rn + dn /\ xn <= MaxReactions + 1
              /\ f <= MaxFree + p + d
<1>1. CountsAgree /\ CountsAgree'
    BY Counts, CountsNext
<1>2. QED
    BY <1>1 DEF CountsAgree, FreeInv

(* None is lost, before or after.                                          *)
LEMMA NoneLost ==
    ASSUME LostInv, LostInv'
    PROVE  Cardinality(Lost') = Cardinality(Lost) /\ Cardinality(Lost) = 0
<1>1. Lost = {} /\ Lost' = {}
    BY Counts, CountsNext DEF CountsAgree
<1>2. QED
    BY <1>1, FS_EmptySet

(* Steps that neither register nor settle anything.                        *)
LEMMA UnmovedPool ==
    ASSUME LostInv, LostInv', FreeInv, Ended(0), UNCHANGED <<queue, free, nextId>>
    PROVE  FreeInv' /\ UNCHANGED Pool!poolVars
<1>1. PICK p \in Nat, q \in Nat, r \in Nat, d \in Nat, x \in Nat, f \in Nat,
           pn \in Nat, qn \in Nat, rn \in Nat, dn \in Nat, xn \in Nat, fn \in Nat :
              /\ p = PendingReactions /\ q = Len(queue) /\ r = Running
              /\ d = Done /\ x = nextId /\ f = free
              /\ pn = PendingReactions' /\ qn = Len(queue') /\ rn = Running'
              /\ dn = Done' /\ xn = nextId' /\ fn = free'
              /\ x = 1 + p + q + r + d /\ x <= MaxReactions + 1
              /\ xn = 1 + pn + qn + rn + dn /\ xn <= MaxReactions + 1
              /\ f <= MaxFree + p + d
    BY Numbers
<1>2. /\ x = 1 + p + q + r + d /\ xn = 1 + pn + qn + rn + dn
      /\ f <= MaxFree + p + d
      /\ rn = r - 0 /\ dn = d + 0 /\ qn = q /\ xn = x /\ fn = f
    BY <1>1 DEF Ended
<1>3. rn = r /\ dn = d /\ pn = p
    BY <1>2
<1>4. fn <= MaxFree + pn + dn
    BY <1>2, <1>3
<1>5. FreeInv'
    BY <1>1, <1>4 DEF FreeInv
<1>6. /\ PendingReactions' = PendingReactions
      /\ Cardinality(RunningJobs') = Cardinality(RunningJobs)
    BY <1>1, <1>3 DEF Running
<1>7. QED
    BY <1>5, <1>6, NoneLost DEF Pool!poolVars

(* Subscribe registers a pending reaction, or one for a settled promise.   *)
LEMMA SubscribePool ==
    ASSUME LostInv, LostInv', FreeInv, NEW back \in {0, 1}, Ended(back),
           NEW p0 \in Promises, NEW outcome, NEW v, NEW rx,
           Subscribe(p0, outcome, v, rx, back)
    PROVE  FreeInv' /\ (Pool!Register(back) \/ Pool!RegisterSettled(back))
<1>1. PICK p \in Nat, q \in Nat, r \in Nat, d \in Nat, x \in Nat, f \in Nat,
           pn \in Nat, qn \in Nat, rn \in Nat, dn \in Nat, xn \in Nat, fn \in Nat :
              /\ p = PendingReactions /\ q = Len(queue) /\ r = Running
              /\ d = Done /\ x = nextId /\ f = free
              /\ pn = PendingReactions' /\ qn = Len(queue') /\ rn = Running'
              /\ dn = Done' /\ xn = nextId' /\ fn = free'
              /\ x = 1 + p + q + r + d /\ x <= MaxReactions + 1
              /\ xn = 1 + pn + qn + rn + dn /\ xn <= MaxReactions + 1
              /\ f <= MaxFree + p + d
    BY Numbers
<1>2. /\ x = 1 + p + q + r + d /\ xn = 1 + pn + qn + rn + dn
      /\ f <= MaxFree + p + d
      /\ back <= r /\ rn = r - back /\ dn = d + back /\ xn = x + 1 /\ x <= MaxReactions
    BY <1>1 DEF Ended, Subscribe
<1>3. MaxReactions \in Nat /\ MaxFree \in Nat
    BY MicrotaskConstants
<1>4. p < MaxReactions /\ q + r < 2 * MaxReactions /\ f < MaxReactions + MaxFree + 2
    BY <1>2, <1>3
<1>5. CASE fn = f + 1 + back /\ queue' = queue
  <2>1. qn = q
      BY <1>1, <1>5
  <2>2. pn = p + 1 /\ fn <= MaxFree + pn + dn
      BY <1>2, <1>3, <1>5, <2>1
  <2>3. Pool!Register(back)
      BY <1>1, <1>2, <1>4, <1>5, <2>2, NoneLost DEF Pool!Register, Pool!Returned, Running
  <2>4. QED
      BY <1>1, <2>2, <2>3 DEF FreeInv
<1>6. CASE fn = f + back /\ qn = q + 1
  <2>1. pn = p /\ fn <= MaxFree + pn + dn
      BY <1>2, <1>3, <1>6
  <2>2. Pool!RegisterSettled(back)
      BY <1>1, <1>2, <1>4, <1>6, <2>1, NoneLost
         DEF Pool!RegisterSettled, Pool!Returned, Running
  <2>3. QED
      BY <1>1, <2>1, <2>2 DEF FreeInv
<1>7. ASSUME NEW job, queue' = Append(queue, job) PROVE Len(queue') = Len(queue) + 1
  <2>1. queue \in Seq(Job)
      BY DEF LostInv, PromiseInv, TypeOK, QueueOK
  <2>2. QED
      BY <1>7, <2>1, AppendProperties
<1>8. QED
    BY <1>1, <1>5, <1>6, <1>7 DEF Subscribe

(* Refused is RegisterFail.                                                *)
LEMMA RefusedPool ==
    ASSUME LostInv, LostInv', FreeInv, NEW back \in {0, 1}, Ended(back), Refused(back)
    PROVE  FreeInv' /\ Pool!RegisterFail(back)
<1>1. PICK p \in Nat, q \in Nat, r \in Nat, d \in Nat, x \in Nat, f \in Nat,
           pn \in Nat, qn \in Nat, rn \in Nat, dn \in Nat, xn \in Nat, fn \in Nat :
              /\ p = PendingReactions /\ q = Len(queue) /\ r = Running
              /\ d = Done /\ x = nextId /\ f = free
              /\ pn = PendingReactions' /\ qn = Len(queue') /\ rn = Running'
              /\ dn = Done' /\ xn = nextId' /\ fn = free'
              /\ x = 1 + p + q + r + d /\ x <= MaxReactions + 1
              /\ xn = 1 + pn + qn + rn + dn /\ xn <= MaxReactions + 1
              /\ f <= MaxFree + p + d
    BY Numbers
<1>2. /\ x = 1 + p + q + r + d /\ xn = 1 + pn + qn + rn + dn
      /\ f <= MaxFree + p + d /\ x <= MaxReactions + 1
      /\ back <= r /\ rn = r - back /\ dn = d + back /\ xn = x /\ qn = q
      /\ fn = f + back \/ (f < MaxFree /\ fn = f + 1 + back)
    BY <1>1 DEF Ended, Refused
<1>3. MaxReactions \in Nat /\ MaxFree \in Nat
    BY MicrotaskConstants
<1>4. /\ f < MaxReactions + MaxFree + 2 /\ pn = p /\ fn <= MaxFree + pn + dn
      /\ fn = f + 0 + back \/ fn = f + 1 + back
    BY <1>2, <1>3
<1>5. \E spare \in {0, 1} : free' = free + spare + back
    BY <1>1, <1>4
<1>6. MayFail /\ UNCHANGED queue
    BY DEF Refused
<1>7. Pool!RegisterFail(back)
    BY <1>1, <1>2, <1>4, <1>5, <1>6, NoneLost DEF Pool!RegisterFail, Pool!Returned, Running
<1>8. QED
    BY <1>1, <1>4, <1>7 DEF FreeInv

(* Settle is the abstract Settle, with every job made.                     *)
LEMMA SettlePool ==
    ASSUME LostInv, LostInv', FreeInv, NEW back \in {0, 1}, Ended(back),
           NEW p0 \in Promises, NEW outcome \in Settled, NEW v,
           Settle(p0, outcome, v, back)
    PROVE  FreeInv' /\ \E n \in 0..MaxReactions : \E made \in 0..n :
                          Pool!Settle(n, made, back)
<1>1. PICK p \in Nat, q \in Nat, r \in Nat, d \in Nat, x \in Nat, f \in Nat,
           pn \in Nat, qn \in Nat, rn \in Nat, dn \in Nat, xn \in Nat, fn \in Nat :
              /\ p = PendingReactions /\ q = Len(queue) /\ r = Running
              /\ d = Done /\ x = nextId /\ f = free
              /\ pn = PendingReactions' /\ qn = Len(queue') /\ rn = Running'
              /\ dn = Done' /\ xn = nextId' /\ fn = free'
              /\ x = 1 + p + q + r + d /\ x <= MaxReactions + 1
              /\ xn = 1 + pn + qn + rn + dn /\ xn <= MaxReactions + 1
              /\ f <= MaxFree + p + d
    BY Numbers
<1>2. MaxReactions \in Nat /\ MaxFree \in Nat
    BY MicrotaskConstants
<1>3. PICK n \in Nat : qn = q + n /\ xn = x /\ fn = (IF n <= f THEN f - n ELSE 0) + back
  <2>1. CASE state[p0] # "pending"
    <3>1. free' = free + back /\ queue' = queue /\ nextId' = nextId
        BY <2>1 DEF Settle
    <3>2. qn = q + 0 /\ xn = x /\ fn = (IF 0 <= f THEN f - 0 ELSE 0) + back
      <4>1. fn = f + back /\ qn = q /\ xn = x
          BY <1>1, <3>1
      <4>2. QED
          BY <4>1
    <3>3. QED
        BY <3>2
  <2>2. CASE state[p0] = "pending"
    <3>1. PICK n : n = Len(reactions[p0])
        OBVIOUS
    <3>2. /\ nextId' = nextId /\ DOMAIN queue' = 1..(Len(queue) + n)
          /\ free' = (IF n <= free THEN free - n ELSE 0) + back
        BY <2>2, <3>1, SettleQueues
    <3>3. reactions[p0] \in Seq(Reaction) /\ queue' \in Seq(Job')
      <4>1. reactions \in [Promises -> Seq(Reaction)]
          BY DEF LostInv, PromiseInv, TypeOK, PromisesOK
      <4>2. TypeOK'
          BY DEF LostInv, PromiseInv
      <4>3. queue' \in Seq(Job')
          BY <4>2 DEF TypeOK, QueueOK
      <4>4. QED
          BY <4>1, <4>3
    <3>4. n \in Nat /\ Len(queue') \in Nat /\ DOMAIN queue' = 1..Len(queue')
        BY <3>1, <3>3, LenProperties
    <3>5. 1..qn = 1..(q + n)
        BY <1>1, <3>2, <3>4
    <3>6. qn = q + n
        BY <3>4, <3>5
    <3>7. QED
        BY <1>1, <3>2, <3>4, <3>6
  <2>3. QED
      BY <2>1, <2>2
<1>4. /\ x = 1 + p + q + r + d /\ xn = 1 + pn + qn + rn + dn
      /\ x <= MaxReactions + 1 /\ f <= MaxFree + p + d
      /\ back <= r /\ rn = r - back /\ dn = d + back
    BY <1>1 DEF Ended
<1>5. /\ n <= p /\ pn = p - n /\ n \in 0..MaxReactions /\ n \in 0..n
      /\ fn <= MaxFree + pn + dn /\ q + r + n <= 2 * MaxReactions
      /\ 0 = 0 + (n - n) /\ ~(n < n)
    BY <1>2, <1>3, <1>4
<1>6. PICK spare \in Nat : /\ spare = IF n <= f THEN n ELSE f
                           /\ spare <= n /\ n \in spare..n /\ fn = (f - spare) + back
    BY <1>3
<1>7. Pool!Settle(n, n, back)
    BY <1>1, <1>3, <1>4, <1>5, <1>6, NoneLost DEF Pool!Settle, Pool!Returned, Running
<1>8. QED
    BY <1>1, <1>5, <1>7 DEF FreeInv

(* Resolving is one of the three.                                          *)
LEMMA ResolvePool ==
    ASSUME LostInv, LostInv', FreeInv, NEW back \in {0, 1}, Ended(back),
           NEW p0 \in Promises, NEW v, ResolveWith(p0, v, back)
    PROVE  FreeInv' /\ Pool!Next
<1>1. CASE Settle(p0, "fulfilled", v, back) \/ Settle(p0, "rejected", EngineError, back)
    BY <1>1, SettlePool DEF Pool!Next, Settled
<1>2. ASSUME v \in Promises,
             Subscribe(v, state[v], value[v], ThenReaction(v, "none", "none", p0), back)
      PROVE  FreeInv' /\ Pool!Next
    BY <1>2, SubscribePool DEF Pool!Next
<1>3. CASE Refused(back)
    BY <1>3, RefusedPool DEF Pool!Next
<1>4. QED
    BY <1>1, <1>2, <1>3 DEF ResolveWith

(* What code does.                                                         *)
LEMMA CodePool ==
    ASSUME LostInv, LostInv', FreeInv, Code
    PROVE  FreeInv' /\ [Pool!Next]_(Pool!poolVars)
<1>0. ActiveInv /\ StackOK
    BY DEF LostInv, PromiseInv, TypeOK
<1>1. ASSUME stack' = stack, done' = done PROVE Ended(0)
    BY <1>0, <1>1, SameJobs, NoneEnds
<1>2. ASSUME NEW p \in Promises, NewPromise(p)
      PROVE  FreeInv' /\ [Pool!Next]_(Pool!poolVars)
    BY <1>1, <1>2, UnmovedPool DEF NewPromise
<1>3. ASSUME NEW p \in Promises, NEW r \in Promises, NEW h \in HandlerPairs,
             Then(p, h[1], h[2], r)
      PROVE  FreeInv' /\ Pool!Next
  <2>1. Subscribe(p, state[p], value[p], ThenReaction(p, h[1], h[2], r), 0) /\ Ended(0)
      BY <1>1, <1>3 DEF Then
  <2>2. QED
      BY <2>1, SubscribePool DEF Pool!Next
<1>4. ASSUME ThenRefused PROVE FreeInv' /\ Pool!Next
  <2>1. Refused(0) /\ Ended(0)
      BY <1>1, <1>4 DEF ThenRefused
  <2>2. QED
      BY <2>1, RefusedPool DEF Pool!Next
<1>5. ASSUME NEW p \in Promises, NEW v \in Resolutions, Resolve(p, v)
      PROVE  FreeInv' /\ Pool!Next
  <2>1. ResolveWith(p, v, 0) /\ Ended(0)
      BY <1>1, <1>5 DEF Resolve
  <2>2. QED
      BY <2>1, ResolvePool
<1>6. ASSUME NEW p \in Promises, NEW reason \in Reasons, Reject(p, reason)
      PROVE  FreeInv' /\ Pool!Next
  <2>1. Settle(p, "rejected", reason, 0) /\ Ended(0)
      BY <1>1, <1>6 DEF Reject
  <2>2. QED
      BY <2>1, SettlePool DEF Pool!Next, Settled
<1>7. ASSUME NEW p \in Promises, NEW f \in Fibers, CallAsync(f, p)
      PROVE  FreeInv' /\ [Pool!Next]_(Pool!poolVars)
  <2>1. done' = done /\ UNCHANGED <<queue, free, nextId>>
      BY <1>7 DEF CallAsync
  <2>2. ASSUME NEW frame, stack' = <<frame>> \o stack, frame.kind # "job"
        PROVE  Ended(0)
      BY <1>0, <2>1, <2>2, PushJobs, NoneEnds
  <2>3. [kind |-> "call", body |-> "interp", job |-> NoJob, fiber |-> f].kind # "job"
      OBVIOUS
  <2>4. \/ stack' = stack
        \/ stack' = <<[kind |-> "call", body |-> "interp", job |-> NoJob, fiber |-> f]>> \o stack
      BY <1>7 DEF CallAsync
  <2>5. Ended(0)
      BY <1>1, <2>1, <2>2, <2>3, <2>4
  <2>6. QED
      BY <2>1, <2>5, UnmovedPool
<1>8. QED
    BY <1>2, <1>3, <1>4, <1>5, <1>6, <1>7 DEF Code

(* How an activation ends: with the node of its job, if it was one.        *)
LEMMA FinishPool ==
    ASSUME LostInv, LostInv', FreeInv, Finish
    PROVE  FreeInv' /\ Pool!Next
<1>1. TypeOK
    BY DEF LostInv, PromiseInv
<1>2. Ended(Back)
    BY <1>1, FinishLeaves, LeaveEnds
<1>3. PICK back \in {0, 1} : back = Back
    BY DEF Back
<1>4. ASSUME NEW p \in Promises, NEW v, ResolveWith(p, v, back)
      PROVE  FreeInv' /\ Pool!Next
    BY <1>2, <1>3, <1>4, ResolvePool
<1>5. ASSUME NEW p \in Promises, NEW v, Settle(p, "rejected", v, back)
      PROVE  FreeInv' /\ Pool!Next
    BY <1>2, <1>3, <1>5, SettlePool DEF Pool!Next, Settled
<1>6. ASSUME NEW p \in Promises, Await(p)
      PROVE  FreeInv' /\ Pool!Next
  <2>1. Subscribe(p, state[p], value[p], AwaitReaction(p, Top.fiber), back)
      BY <1>3, <1>6 DEF Await
  <2>2. QED
      BY <1>2, <1>3, <2>1, SubscribePool DEF Pool!Next
<1>7. ASSUME NEW p \in Promises, NEW v \in Resolutions, AwaitValue(v, p)
      PROVE  FreeInv' /\ Pool!Next
  <2>1. Subscribe(p, "fulfilled", v, AwaitReaction(p, Top.fiber), back)
      BY <1>3, <1>7 DEF AwaitValue
  <2>2. QED
      BY <1>2, <1>3, <2>1, SubscribePool DEF Pool!Next
<1>8. QED
    BY <1>1, <1>3, <1>4, <1>5, <1>6, <1>7, FinishCases

(* js_run_jobs: a job starts, or the outermost drain trims the free list.  *)
LEMMA DrainPool ==
    ASSUME LostInv, LostInv', FreeInv, Drain
    PROVE  FreeInv' /\ [Pool!Next]_(Pool!poolVars)
<1>0. ActiveInv /\ StackOK
    BY DEF LostInv, PromiseInv, TypeOK
<1>1. CASE EnterDrain
  <2>1. done' = done /\ UNCHANGED <<queue, free, nextId>>
      BY <1>1 DEF EnterDrain
  <2>2. ASSUME NEW frame, stack' = <<frame>> \o stack, frame.kind # "job"
        PROVE  Ended(0)
      BY <1>0, <2>1, <2>2, PushJobs, NoneEnds
  <2>3. [kind |-> "drain", body |-> "drain", job |-> NoJob, fiber |-> NoFiber].kind # "job"
      OBVIOUS
  <2>4. stack' = <<[kind |-> "drain", body |-> "drain", job |-> NoJob, fiber |-> NoFiber]>> \o stack
      BY <1>1 DEF EnterDrain
  <2>5. Ended(0)
      BY <2>2, <2>3, <2>4
  <2>6. QED
      BY <2>1, <2>5, UnmovedPool
<1>2. CASE StartJob \/ LeaveDrain
  <2>1. PICK p \in Nat, q \in Nat, r \in Nat, d \in Nat, x \in Nat, f \in Nat,
             pn \in Nat, qn \in Nat, rn \in Nat, dn \in Nat, xn \in Nat, fn \in Nat :
                /\ p = PendingReactions /\ q = Len(queue) /\ r = Running
                /\ d = Done /\ x = nextId /\ f = free
                /\ pn = PendingReactions' /\ qn = Len(queue') /\ rn = Running'
                /\ dn = Done' /\ xn = nextId' /\ fn = free'
                /\ x = 1 + p + q + r + d /\ x <= MaxReactions + 1
                /\ xn = 1 + pn + qn + rn + dn /\ xn <= MaxReactions + 1
                /\ f <= MaxFree + p + d
      BY Numbers
  <2>2. /\ x = 1 + p + q + r + d /\ xn = 1 + pn + qn + rn + dn /\ f <= MaxFree + p + d
        /\ MaxFree \in Nat /\ FreeMax \in Nat
      BY <2>1, MicrotaskConstants
  <2>3. /\ reactions' = reactions /\ nextId' = nextId /\ done' = done
        /\ pn = p /\ xn = x /\ dn = d
    <3>1. reactions' = reactions /\ nextId' = nextId /\ done' = done
        BY <1>2 DEF StartJob, LeaveDrain, promiseVars
    <3>2. PendingReactions' = PendingReactions /\ Done' = Done
        BY <3>1 DEF PendingReactions, Done
    <3>3. QED
        BY <2>1, <3>1, <3>2
  <2>4. ASSUME StartJob PROVE FreeInv' /\ Pool!Next
    <3>1. queue # <<>> /\ queue' = Tail(queue) /\ free' = free /\ queue \in Seq(Job)
        BY <2>4 DEF StartJob, LostInv, PromiseInv, TypeOK, QueueOK
    <3>2. Len(queue) > 0 /\ Len(queue') = Len(queue) - 1
        BY <3>1
    <3>3. q > 0 /\ qn = q - 1 /\ fn = f
        BY <2>1, <3>1, <3>2
    <3>4. rn = r + 1 /\ fn <= MaxFree + pn + dn
        BY <2>2, <2>3, <3>3
    <3>5. Pool!Start
        BY <2>1, <2>3, <3>3, <3>4, NoneLost DEF Pool!Start, Running
    <3>6. QED
        BY <2>1, <3>4, <3>5 DEF FreeInv, Pool!Next
  <2>5. ASSUME LeaveDrain PROVE FreeInv' /\ [Pool!Next]_(Pool!poolVars)
    <3>1. /\ stack # <<>> /\ Leave /\ Top.kind # "job" /\ queue' = queue
          /\ free' = IF RunningJobs = {} /\ free > FreeMax THEN FreeMax ELSE free
        BY <2>5, <2>3 DEF LeaveDrain, Leave, Draining, Top, Host
    <3>2. rn = r /\ qn = q
        BY <2>1, <2>2, <2>3, <3>1, LeaveEnds DEF Ended
    <3>3. fn \in Nat /\ fn <= f
        BY <2>1, <2>2, <3>1
    <3>4. fn <= MaxFree + pn + dn
        BY <2>2, <2>3, <3>3
    <3>5. CASE RunningJobs = {}
      <4>1. r = 0
          BY <2>1, <3>5, RunningCount
      <4>2. fn = IF f <= FreeMax THEN f ELSE FreeMax
          BY <2>1, <2>2, <3>1, <3>5
      <4>3. Pool!Trim
          BY <2>1, <2>3, <3>2, <4>1, <4>2, NoneLost DEF Pool!Trim, Running
      <4>4. QED
          BY <2>1, <3>4, <4>3 DEF FreeInv, Pool!Next
    <3>6. CASE RunningJobs # {}
      <4>1. UNCHANGED Pool!poolVars
          BY <2>1, <2>3, <3>1, <3>2, <3>6, NoneLost DEF Pool!poolVars, Running
      <4>2. QED
          BY <2>1, <3>4, <4>1 DEF FreeInv
    <3>7. QED
        BY <3>5, <3>6
  <2>6. QED
      BY <1>2, <2>4, <2>5
<1>3. QED
    BY <1>1, <1>2 DEF Drain

(* Every step of the queue is a step of the pool, or none.                 *)
LEMMA PoolStep ==
    ASSUME LostInv, LostInv', FreeInv, [Next]_vars
    PROVE  FreeInv' /\ [Pool!Next]_(Pool!poolVars)
<1>1. CASE Interrupt \/ ClearInterrupt \/ UNCHANGED vars
  <2>1. UNCHANGED <<queue, nextId, free>> /\ stack' = stack /\ done' = done
      BY <1>1 DEF Interrupt, ClearInterrupt, vars
  <2>2. ActiveInv
      BY DEF LostInv
  <2>3. Ended(0)
      BY <2>1, <2>2, SameJobs, NoneEnds
  <2>4. QED
      BY <2>1, <2>3, UnmovedPool
<1>2. QED
    BY <1>1, CodePool, FinishPool, DrainPool DEF Next

(* At first the pool is empty.                                             *)
LEMMA PoolInit == Init => FreeInv /\ Pool!Init
<1> SUFFICES ASSUME Init
             PROVE  FreeInv /\ Pool!Init
    OBVIOUS
<1>1. CountsAgree
    BY LostInit, Counts
<1>2. nextId = 1 /\ free = 0
    BY DEF Init
<1>3. PendingReactions = 0 /\ Len(queue) = 0 /\ Running = 0 /\ Done = 0 /\ Lost = {}
    BY <1>1, <1>2 DEF CountsAgree
<1>4. Cardinality(Lost) = 0
    BY <1>3, FS_EmptySet
<1>5. QED
    BY <1>2, <1>3, <1>4, MicrotaskConstants DEF FreeInv, Pool!Init, Running

(* The queue, its lists and its stack of running jobs implement the job    *)
(* reserve (JobPool): each registration pays for one node, settling spends *)
(* them, ending a job gives its node back (reaction_alloc, job_alloc,      *)
(* job_recycle and jobs_free_trim, js_promise.c:36-240), and no job is     *)
(* refused a node, as long as a trim keeps what the pending reactions      *)
(* reserved.                                                               *)
THEOREM ImplementsPool == Spec /\ []ReserveKept => PoolSpec
<1>1. ReserveKept /\ LostInv /\ [Next]_vars => LostInv'
    BY LostStep
<1>2. LostInv /\ LostInv' /\ FreeInv /\ [Next]_vars =>
         FreeInv' /\ [Pool!Next]_(Pool!poolVars)
    BY PoolStep
<1>3. QED
    BY <1>1, <1>2, LostInit, PoolInit, PTL DEF Spec, PoolSpec, Pool!Spec
=============================================================================
