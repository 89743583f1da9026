----------------------------- MODULE ModuleEval -----------------------------
(***************************************************************************)
(* Linking and evaluation of module graphs (src/runtime/js_module.c from   *)
(* resolve_dep on, js_run_module of js_interp.c).  Sources have arrived:   *)
(* how a graph is fetched is ModuleGraph's subject.                        *)
(*                                                                         *)
(* The C stack is explicit.  Evaluating a module calls the evaluation of   *)
(* its dependencies, runs its body and drains the job queue before         *)
(* js_run_module returns, so any queued continuation of any other import   *)
(* runs in the middle of an evaluation.  A frame is one of                 *)
(*   drain       js_run_jobs                                               *)
(*   root(o)     root_on_fetched of import o                               *)
(*   inst(m,i)   instantiate,  link(m,i) link_module, at dependency i      *)
(*   step(m,i)   eval_step at dependency i; "called" once evaluate() of    *)
(*               that dependency has been entered                          *)
(*   body(m)     the body's own code,  ran(m) js_run_module after it       *)
(*                                                                         *)
(* The state of a chain is a script object: reading or writing one of its  *)
(* fields (mstate_get, mstate_set) allocates, and the chain does not test  *)
(* whether it was refused.  A lookup of 'module' that is refused leaves    *)
(* the chain where it is for ever or is a NULL dereference, one of         *)
(* 'promise' leaves the chain's promise pending, one of 'index' or a       *)
(* refused write to it begins at another dependency.                       *)
(***************************************************************************)
EXTENDS Integers, Sequences, FiniteSets

CONSTANTS Modules, Imports,
          Graphs,        \* the functions from modules to their specifier lists
          NoModule,      \* a NULL dependency
          Host,          \* what a body awaits when it does not await an import
          Roots,         \* bound: the modules that are imported, by graph
          MaxRefusals    \* bound: refused allocations, by graph

ASSUME ModulesNotSentinel == NoModule \notin Modules
ASSUME HostNotImport == Host \notin Imports
ASSUME EvalConstants ==
    /\ Modules \cap Imports = {} /\ NoModule \notin Imports
    /\ Graphs \subseteq [Modules -> Seq(Modules)]
    /\ Roots \in [Graphs -> SUBSET Modules]
    /\ MaxRefusals \in [Graphs -> Nat]

VARIABLES
    specs,      \* dep_specs of every module, canonicalized
    status,     \* JsModule.status
    deps,       \* JsModule.deps; <<>> while the array is NULL
    ep,         \* the promise evaluate() made for the module's chain
    epWait,     \* reactions on it, in order of registration
    bp,         \* the promise of the body's run, "none" before
    bpWait,     \* has eval_on_body_done been attached to it
    awaits,     \* what a suspended body waits for
    reason,     \* eval_error: the module whose body threw, or "oom"
    index,      \* state.index of the evaluation chain
    op,         \* imports: root, importing body, state of the promise handed out
    queue, stack,
    ret,        \* what the last call returned: instantiate, link, evaluate
    refusals,   \* allocations refused so far
    crashed,    \* a NULL module has been dereferenced
    lost,       \* history: modules whose chain a refused lookup left behind
    runs,       \* history: how often the body was started
    starter,    \* history: the chain or import whose evaluate() began it
    joined      \* history: imports that found their root EVALUATING

modVars == <<specs, status, deps, ep, epWait, bp, bpWait, awaits, reason, index>>
memVars == <<refusals, crashed, lost>>
histVars == <<runs, starter, joined>>
vars == <<modVars, op, queue, stack, ret, memVars, histVars>>

Statuses == {"unlinked", "linking", "linked", "evaluating", "evaluated", "errored"}
Reasons == Modules \cup {"oom", "unresolved", "notLoaded"}
Job(do, x, why) == [do |-> do, x |-> x, why |-> why]
Waiters == [do : {"dep"}, x : Modules] \cup [do : {"root"}, x : Imports]
ModJobs == [do : {"depDone", "evalFail", "bodyDone"}, x : Modules, why : Reasons \cup {"none"}]
RootJobs == [do : {"fetched", "rootDone", "rootFail"}, x : Imports, why : Reasons \cup {"none"}]

TypeOK ==
    /\ specs \in Graphs
    /\ status \in [Modules -> Statuses]
    /\ deps \in [Modules -> Seq(Modules \cup {NoModule})]
    /\ \A m \in Modules : deps[m] # <<>> => Len(deps[m]) = Len(specs[m])
    /\ ep \in [Modules -> {"none", "pending", "fulfilled", "rejected"}]
    /\ epWait \in [Modules -> Seq(Waiters)]
    /\ bp \in [Modules -> {"none", "pending", "fulfilled", "rejected"}]
    /\ bpWait \in [Modules -> BOOLEAN]
    /\ awaits \in [Modules -> Imports \cup {Host}]
    /\ reason \in [Modules -> Reasons \cup {"none"}]
    /\ index \in [Modules -> Nat]
    /\ op \in [Imports -> [root : Modules \cup {NoModule}, by : Modules \cup {Host},
                           st : {"idle", "loading", "loaded", "fulfilled", "rejected"},
                           why : Reasons \cup {"none"}]]
    /\ queue \in Seq(ModJobs \cup RootJobs)
    /\ ret \in {"ok"} \cup Reasons
    /\ refusals \in Nat
    /\ crashed \in BOOLEAN
    /\ lost \subseteq Modules

Init ==
    /\ specs \in Graphs
    /\ status = [m \in Modules |-> "unlinked"]
    /\ deps = [m \in Modules |-> <<>>]
    /\ ep = [m \in Modules |-> "none"]
    /\ epWait = [m \in Modules |-> <<>>]
    /\ bp = [m \in Modules |-> "none"]
    /\ bpWait = [m \in Modules |-> FALSE]
    /\ awaits = [m \in Modules |-> Host]
    /\ reason = [m \in Modules |-> "none"]
    /\ index = [m \in Modules |-> 1]
    /\ op = [o \in Imports |-> [root |-> NoModule, by |-> Host, st |-> "idle", why |-> "none"]]
    /\ queue = <<>> /\ stack = <<>> /\ ret = "ok"
    /\ refusals = 0 /\ crashed = FALSE /\ lost = {}
    /\ runs = [m \in Modules |-> 0]
    /\ starter = [m \in Modules |-> NoModule]
    /\ joined = {}

Top == Head(stack)
At(where) == ~crashed /\ stack # <<>> /\ Top.at = where
Push(f) == <<f>> \o stack
Instead(f) == <<f>> \o Tail(stack)
Drain == [at |-> "drain"]
Step(m, i) == [at |-> "step", m |-> m, i |-> i, called |-> FALSE]

(* The modules of the graph of r: they are in every set that has r and the *)
(* dependencies of its members.                                            *)
Closed(S) == \A m \in S : \A i \in DOMAIN specs[m] : specs[m][i] \in S
GraphOf(r) == {m \in Modules : \A S \in SUBSET Modules : r \in S /\ Closed(S) => m \in S}

(***************************************************************************)
(* Allocations.  A step says how many of its own have been refused, at     *)
(* least, when it gets to an outcome.                                      *)
(***************************************************************************)
Refused(n) == refusals + n <= MaxRefusals[specs] /\ refusals' = refusals + n

Keeps(n) == Refused(n) /\ UNCHANGED lost

(* The chain of m is left behind: nothing will go on with it.              *)
Loses(m, n) == Refused(n) /\ lost' = lost \cup {m}

(***************************************************************************)
(* Settlement of an evaluation promise: its reactions become jobs.         *)
(***************************************************************************)
(* The job of a reaction when the promise has settled.                     *)
Told(w, st, why) ==
    IF st = "fulfilled"
    THEN Job(IF w.do = "dep" THEN "depDone" ELSE "rootDone", w.x, "none")
    ELSE Job(IF w.do = "dep" THEN "evalFail" ELSE "rootFail", w.x, why)

Reactions(m, st, why) == [k \in DOMAIN epWait[m] |-> Told(epWait[m][k], st, why)]

(* The promise of the chain of m is looked up and settled, or the lookup   *)
(* is refused and it stays pending.  q is the queue before.                *)
Tells(q, m, st, why, n) ==
    \/ /\ ep' = [ep EXCEPT ![m] = st]
       /\ epWait' = [epWait EXCEPT ![m] = <<>>]
       /\ queue' = q \o Reactions(m, st, why) /\ Keeps(n)
    \/ /\ queue' = q /\ UNCHANGED <<ep, epWait>> /\ Loses(m, n + 1)

(* Mutation of SettleEval: whoever waits is forgotten.                     *)
SettleEvalForgets(q, m, st, why, newStatus, n) ==
    /\ status' = [status EXCEPT ![m] = newStatus]
    /\ ep' = [ep EXCEPT ![m] = st]
    /\ epWait' = [epWait EXCEPT ![m] = <<>>]
    /\ queue' = q /\ Keeps(n)

SettleEval(q, m, st, why, newStatus, n) ==
    /\ status' = [status EXCEPT ![m] = newStatus]
    /\ Tells(q, m, st, why, n)

(* Mutation of FailState: the chain's promise is fulfilled.                *)
FailStateFulfils(q, m, why, n) ==
    /\ SettleEval(q, m, "fulfilled", why, "errored", n)
    /\ reason' = [reason EXCEPT ![m] = why]

FailState(q, m, why, n) ==
    /\ SettleEval(q, m, "rejected", why, "errored", n)
    /\ reason' = [reason EXCEPT ![m] = why]

BodyDone(q, m) == SettleEval(q, m, "fulfilled", "none", "evaluated", 0) /\ UNCHANGED reason

(***************************************************************************)
(* The host and the running bodies: imports, their graph loads, the end of *)
(* a suspended body.                                                       *)
(***************************************************************************)
ErroredIn(r) == {m \in GraphOf(r) : status[m] = "errored"}

(* js_eval_module from the host (which drains at once), or import() from a *)
(* body.  A graph that meets an errored module is rejected by the fetch.   *)
Import(o, r) ==
    /\ op[o].st = "idle" /\ ~crashed /\ r \in Roots[specs]
    /\ stack = <<>> \/ At("body")
    /\ op' = [op EXCEPT ![o] =
                [root |-> r, by |-> IF stack = <<>> THEN Host ELSE Top.m,
                 st |-> IF ErroredIn(r) = {} THEN "loading" ELSE "rejected",
                 why |-> IF ErroredIn(r) = {} THEN "none"
                         ELSE reason[CHOOSE m \in ErroredIn(r) : TRUE]]]
    /\ stack' = IF stack = <<>> THEN <<Drain>> ELSE stack
    /\ UNCHANGED <<modVars, queue, ret, memVars, histVars>>

(* The last source of the graph has been taken over; a module that was     *)
(* errored by then may or may not have been seen before it was.            *)
GraphLoads(o) ==
    /\ op[o].st = "loading" /\ At("drain")
    /\ \/ /\ op' = [op EXCEPT ![o].st = "loaded"]
          /\ queue' = Append(queue, Job("fetched", o, "none"))
       \/ \E m \in ErroredIn(op[o].root) :
             /\ op' = [op EXCEPT ![o].st = "rejected", ![o].why = reason[m]]
             /\ UNCHANGED queue
    /\ UNCHANGED <<modVars, stack, ret, memVars, histVars>>

HostDrains ==
    /\ ~crashed /\ stack = <<>> /\ stack' = <<Drain>>
    /\ \/ queue # <<>>
       \/ \E o \in Imports : op[o].st = "loading"
       \/ \E m \in Modules : bp[m] = "pending"
    /\ UNCHANGED <<modVars, op, queue, ret, memVars, histVars>>

(* What the body of m awaited has settled and its fiber runs to its end.   *)
FiberEnds(m) ==
    /\ bp[m] = "pending" /\ At("drain")
    /\ awaits[m] \in Imports => op[awaits[m]].st \in {"fulfilled", "rejected"}
    /\ \E st \in {"fulfilled", "rejected"} :
          /\ bp' = [bp EXCEPT ![m] = st]
          /\ queue' = IF ~bpWait[m] THEN queue
                      ELSE Append(queue, IF st = "fulfilled" THEN Job("bodyDone", m, "none")
                                         ELSE Job("evalFail", m, m))
    /\ UNCHANGED <<specs, status, deps, ep, epWait, bpWait, awaits, reason, index,
                   op, stack, ret, memVars, histVars>>

(***************************************************************************)
(* Jobs.                                                                   *)
(***************************************************************************)
TakeJob(do) == At("drain") /\ queue # <<>> /\ Head(queue).do = do

TakeFetched ==
    /\ TakeJob("fetched")
    /\ queue' = Tail(queue) /\ ret' = "ok"
    /\ stack' = Push([at |-> "root", o |-> Head(queue).x, phase |-> "inst"])
    /\ UNCHANGED <<modVars, op, memVars, histVars>>

(* state.index as eval_on_dep_done reads and writes it, from 1 here.       *)
NaN == 0                                     \* what a refused lookup is converted to
Advanced(i) == IF i = NaN THEN NaN ELSE i + 1
FirstDep(i) == IF i = NaN THEN 1 ELSE i      \* (uint32_t)NaN

(* eval_step up to its loop, above the frames below; n allocations have    *)
(* been refused before it.  Refused the index it starts again from the     *)
(* first dependency, refused the module it does nothing.                   *)
EnterStep(m, i, below, n) ==
    \/ stack' = <<Step(m, i)>> \o below /\ Keeps(n)
    \/ i # 1 /\ stack' = <<Step(m, 1)>> \o below /\ Keeps(n + 1)
    \/ stack' = below /\ Loses(m, n + 1)

TakeDepDone == LET m == Head(queue).x IN
    /\ TakeJob("depDone")
    /\ queue' = Tail(queue)
    /\ \/ /\ index' = [index EXCEPT ![m] = Advanced(@)]
          /\ EnterStep(m, FirstDep(Advanced(index[m])), stack, 0)
       \/ index' = [index EXCEPT ![m] = NaN] /\ EnterStep(m, 1, stack, 1)
       \/ UNCHANGED index /\ EnterStep(m, FirstDep(index[m]), stack, 1)
    /\ UNCHANGED <<specs, status, deps, ep, epWait, bp, bpWait, awaits, reason,
                   op, ret, crashed, histVars>>

TakeEvalSettled == LET j == Head(queue) IN
    /\ \/ TakeJob("evalFail") /\ FailState(Tail(queue), j.x, j.why, 0)
       \/ TakeJob("bodyDone") /\ BodyDone(Tail(queue), j.x)
    /\ UNCHANGED <<specs, deps, bp, bpWait, awaits, index, op, stack, ret, crashed, histVars>>

TakeRootSettled == LET j == Head(queue) IN
    /\ At("drain") /\ queue # <<>> /\ j.do \in {"rootDone", "rootFail"}
    /\ queue' = Tail(queue)
    /\ op' = [op EXCEPT ![j.x].st = IF j.do = "rootDone" THEN "fulfilled" ELSE "rejected",
                        ![j.x].why = j.why]
    /\ UNCHANGED <<modVars, stack, ret, memVars, histVars>>

DrainEnds ==
    /\ At("drain") /\ queue = <<>>
    /\ stack' = Tail(stack)
    /\ UNCHANGED <<modVars, op, queue, ret, memVars, histVars>>

(***************************************************************************)
(* instantiate and link_module.                                            *)
(***************************************************************************)
NeedsDeps(m) == status[m] \in {"unlinked", "linking"} /\ deps[m] = <<>> /\ specs[m] # <<>>

(* Mutation of EnterInst: one slot too many.                               *)
EnterInstLong(m) ==
    /\ deps' = [deps EXCEPT ![m] = [i \in 1..(Len(specs[m]) + 1) |-> NoModule]]
    /\ stack' = Push([at |-> "inst", m |-> m, i |-> 1])

EnterInst(m) ==
    /\ deps' = [deps EXCEPT ![m] = [i \in DOMAIN specs[m] |-> NoModule]]
    /\ stack' = Push([at |-> "inst", m |-> m, i |-> 1])

InstStep == LET m == Top.m
                i == Top.i
                d == specs[m][i] IN
    /\ At("inst")
    /\ \/ /\ ret = "ok" /\ i \in DOMAIN specs[m] /\ status[d] # "errored"
          /\ IF NeedsDeps(d)
             THEN EnterInst(d)
             ELSE /\ deps' = [deps EXCEPT ![m][i] = d]
                  /\ stack' = Instead([Top EXCEPT !.i = @ + 1])
          /\ UNCHANGED ret /\ Keeps(0)
       \/ /\ ret = "ok" /\ i \in DOMAIN specs[m] /\ status[d] = "errored"
          /\ ret' = "notLoaded" /\ stack' = Tail(stack) /\ UNCHANGED deps /\ Keeps(0)
       \/ /\ ret = "ok" /\ i \in DOMAIN specs[m]     \* the specifier or the array of d
          /\ ret' = "oom" /\ stack' = Tail(stack) /\ UNCHANGED deps /\ Keeps(1)
       \/ /\ ret # "ok" \/ i \notin DOMAIN specs[m]
          /\ stack' = Tail(stack) /\ UNCHANGED <<deps, ret>> /\ Keeps(0)
    /\ UNCHANGED <<specs, status, ep, epWait, bp, bpWait, awaits, reason, index,
                   op, queue, crashed, histVars>>

NeedsLink(m) == status[m] = "unlinked"

EnterLink(m) ==
    /\ status' = [status EXCEPT ![m] = "linking"]
    /\ stack' = Push([at |-> "link", m |-> m, i |-> 1])

(* Every specifier of a module is that of an import or of a re-export, so  *)
(* a dependency left NULL is one that cannot be bound.                     *)
Unbound(m) == \E i \in DOMAIN deps[m] : deps[m][i] = NoModule

LinkStep == LET m == Top.m
                i == Top.i IN
    /\ At("link")
    /\ \/ /\ ret = "ok" /\ i \in DOMAIN deps[m]
          /\ IF deps[m][i] # NoModule /\ NeedsLink(deps[m][i])
             THEN EnterLink(deps[m][i])
             ELSE stack' = Instead([Top EXCEPT !.i = @ + 1]) /\ UNCHANGED status
          /\ UNCHANGED ret
       \/ /\ ret = "ok" /\ i \notin DOMAIN deps[m] /\ ~Unbound(m)
          /\ status' = [status EXCEPT ![m] = "linked"]
          /\ stack' = Tail(stack) /\ UNCHANGED ret
       \/ /\ ret = "ok" /\ i \notin DOMAIN deps[m] /\ Unbound(m)
          /\ ret' = "unresolved" /\ stack' = Tail(stack) /\ UNCHANGED status
       \/ /\ ret # "ok"
          /\ stack' = Tail(stack) /\ UNCHANGED <<status, ret>>
    /\ UNCHANGED <<specs, deps, ep, epWait, bp, bpWait, awaits, reason, index,
                   op, queue, memVars, histVars>>

(***************************************************************************)
(* root_on_fetched: instantiate, link, then evaluate the root.             *)
(***************************************************************************)
Then(phase, f) == <<f, [Top EXCEPT !.phase = phase]>> \o Tail(stack)

RootLeaves(st, why) ==
    /\ op' = [op EXCEPT ![Top.o].st = st, ![Top.o].why = why]
    /\ stack' = Tail(stack) /\ ret' = "ok"

RootInstantiates == LET m == op[Top.o].root IN
    /\ At("root") /\ Top.phase = "inst"
    /\ \/ /\ NeedsDeps(m) /\ Keeps(0)
          /\ deps' = [deps EXCEPT ![m] = [i \in DOMAIN specs[m] |-> NoModule]]
          /\ stack' = Then("link", [at |-> "inst", m |-> m, i |-> 1]) /\ UNCHANGED <<op, ret>>
       \/ NeedsDeps(m) /\ Keeps(1) /\ RootLeaves("rejected", "oom") /\ UNCHANGED deps
       \/ /\ ~NeedsDeps(m) /\ Keeps(0)
          /\ stack' = Instead([Top EXCEPT !.phase = "link"]) /\ UNCHANGED <<deps, op, ret>>
    /\ UNCHANGED <<specs, status, ep, epWait, bp, bpWait, awaits, reason, index,
                   queue, crashed, histVars>>

RootLinks == LET m == op[Top.o].root IN
    /\ At("root") /\ Top.phase = "link"
    /\ \/ /\ ret # "ok" /\ RootLeaves("rejected", ret) /\ UNCHANGED status
       \/ /\ ret = "ok" /\ NeedsLink(m)
          /\ status' = [status EXCEPT ![m] = "linking"]
          /\ stack' = Then("eval", [at |-> "link", m |-> m, i |-> 1])
          /\ UNCHANGED <<op, ret>>
       \/ /\ ret = "ok" /\ ~NeedsLink(m)
          /\ stack' = Instead([Top EXCEPT !.phase = "eval"]) /\ UNCHANGED <<status, op, ret>>
    /\ UNCHANGED <<specs, deps, ep, epWait, bp, bpWait, awaits, reason, index,
                   queue, memVars, histVars>>

(***************************************************************************)
(* evaluate(): what a caller gets without a chain of its own, and the      *)
(* start of a chain.  A refused allocation leaves the module EVALUATING.   *)
(***************************************************************************)
(* Mutation of Startable: no check for an evaluation under way.            *)
StartableAgain(m) == status[m] \in {"unlinked", "linking", "linked", "evaluating"}

Startable(m) == status[m] \in {"unlinked", "linking", "linked"}

Begin(m, by) ==
    /\ status' = [status EXCEPT ![m] = "evaluating"]
    /\ starter' = [starter EXCEPT ![m] = by]

(* Whoever asks again is given a promise that has settled already.         *)
Begun(m) == status[m] \in {"evaluating", "evaluated", "errored"}

RootEvaluates == LET m == op[Top.o].root IN
    /\ At("root") /\ Top.phase = "eval"
    /\ \/ /\ ret # "ok" /\ RootLeaves("rejected", ret)
          /\ Keeps(0) /\ UNCHANGED <<status, ep, starter, joined>>
       \/ /\ ret = "ok" /\ status[m] \in {"evaluated", "evaluating"}
          /\ RootLeaves("fulfilled", "none")
          /\ joined' = IF status[m] = "evaluating" THEN joined \cup {Top.o} ELSE joined
          /\ Keeps(0) /\ UNCHANGED <<status, ep, starter>>
       \/ /\ ret = "ok" /\ status[m] = "errored"
          /\ RootLeaves("rejected", reason[m])
          /\ Keeps(0) /\ UNCHANGED <<status, ep, starter, joined>>
       \/ /\ ret = "ok" /\ Begun(m)
          /\ RootLeaves("rejected", "oom")
          /\ Keeps(1) /\ UNCHANGED <<status, ep, starter, joined>>
       \/ /\ ret = "ok" /\ Startable(m) /\ Begin(m, Top.o)
          /\ ep' = [ep EXCEPT ![m] = "pending"]
          /\ EnterStep(m, 1, Instead([Top EXCEPT !.phase = "done"]), 0)
          /\ UNCHANGED <<op, ret, joined>>
       \/ /\ ret = "ok" /\ Startable(m) /\ Begin(m, Top.o)
          /\ RootLeaves("rejected", "oom") /\ Keeps(1) /\ UNCHANGED <<ep, joined>>
    /\ UNCHANGED <<specs, deps, epWait, bp, bpWait, awaits, reason, index, queue, crashed, runs>>

RootReturns == LET m == op[Top.o].root IN
    /\ At("root") /\ Top.phase = "done"
    /\ \/ /\ ep[m] = "fulfilled" /\ RootLeaves("fulfilled", "none")
          /\ Keeps(0) /\ UNCHANGED epWait
       \/ /\ ep[m] = "rejected" /\ RootLeaves("rejected", reason[m])
          /\ Keeps(0) /\ UNCHANGED epWait
       \/ /\ ep[m] = "pending"
          /\ epWait' = [epWait EXCEPT ![m] = Append(@, [do |-> "root", x |-> Top.o])]
          /\ stack' = Tail(stack) /\ Keeps(0) /\ UNCHANGED <<op, ret>>
       \/ /\ ep[m] = "pending" /\ RootLeaves("rejected", "oom")
          /\ Keeps(1) /\ UNCHANGED epWait
    /\ UNCHANGED <<specs, status, deps, ep, bp, bpWait, awaits, reason, index, queue,
                   crashed, histVars>>

(***************************************************************************)
(* eval_step.                                                              *)
(***************************************************************************)
AtDep == At("step") /\ Top.i \in DOMAIN deps[Top.m]
NextDep == stack' = Instead(Step(Top.m, Top.i + 1))
Quiet == Keeps(0) /\ UNCHANGED <<status, ep, epWait, queue, reason>>

(* Mutation of ChainFails: a failure that is not taken any further.        *)
ChainFailsAlone(why, n) ==
    Keeps(n) /\ stack' = Tail(stack) /\ UNCHANGED <<status, ep, epWait, queue, reason>>

ChainFails(why, n) == FailState(queue, Top.m, why, n) /\ stack' = Tail(stack)

StepDep == LET m == Top.m
               d == deps[m][Top.i] IN
    /\ AtDep /\ ~Top.called
    /\ \/ /\ \/ d = NoModule
             \/ d # NoModule /\ status[d] \in {"evaluated", "evaluating"}
          /\ NextDep /\ Quiet /\ UNCHANGED starter
       \/ /\ d # NoModule /\ status[d] = "errored"
          /\ ChainFails(reason[d], 0) /\ UNCHANGED starter
       \/ d # NoModule /\ Begun(d) /\ ChainFails("oom", 1) /\ UNCHANGED starter
       \/ /\ d # NoModule /\ Startable(d) /\ Begin(d, m)
          /\ ep' = [ep EXCEPT ![d] = "pending"]
          /\ EnterStep(d, 1, Instead([Top EXCEPT !.called = TRUE]), 0)
          /\ UNCHANGED <<epWait, queue, reason>>
       \/ /\ d # NoModule /\ Startable(d)
          /\ starter' = [starter EXCEPT ![d] = m]
          /\ status' = [status EXCEPT ![d] = "evaluating", ![m] = "errored"]
          /\ Tells(queue, m, "rejected", "oom", 1)
          /\ reason' = [reason EXCEPT ![m] = "oom"]
          /\ stack' = Tail(stack)
    /\ UNCHANGED <<specs, deps, bp, bpWait, awaits, index, op, ret, crashed, runs, joined>>

StepReturns == LET m == Top.m
                   d == deps[m][Top.i] IN
    /\ AtDep /\ Top.called
    /\ \/ ep[d] = "fulfilled" /\ NextDep /\ Quiet /\ UNCHANGED index
       \/ ep[d] = "rejected" /\ ChainFails(reason[d], 0) /\ UNCHANGED index
       \/ /\ ep[d] = "pending"
          /\ \/ index' = [index EXCEPT ![m] = Top.i] /\ Keeps(0)
             \/ UNCHANGED index /\ Keeps(1)
          /\ epWait' = [epWait EXCEPT ![d] = Append(@, [do |-> "dep", x |-> m])]
          /\ stack' = Tail(stack) /\ UNCHANGED <<status, ep, queue, reason>>
       \/ /\ ep[d] = "pending"
          /\ index' = [index EXCEPT ![m] = Top.i] /\ ChainFails("oom", 1)
    /\ UNCHANGED <<specs, deps, bp, bpWait, awaits, op, ret, crashed, histVars>>

(* The index is not read again: that its last write may be refused makes   *)
(* no difference and is left out.                                          *)
RunBody == LET m == Top.m IN
    /\ At("step") /\ ~AtDep
    /\ index' = [index EXCEPT ![m] = Top.i]
    /\ runs' = [runs EXCEPT ![m] = @ + 1]
    /\ stack' = <<[at |-> "body", m |-> m], [at |-> "ran", m |-> m]>> \o Tail(stack)
    /\ UNCHANGED <<specs, status, deps, ep, epWait, bp, bpWait, awaits, reason,
                   op, queue, ret, memVars, starter, joined>>

(* A re-export, or what js_run_module allocates before it runs anything,   *)
(* is refused: the chain fails before its body.                            *)
BodyRefused ==
    /\ At("step") /\ ~AtDep
    /\ index' = [index EXCEPT ![Top.m] = Top.i] /\ ChainFails("oom", 1)
    /\ UNCHANGED <<specs, deps, bp, bpWait, awaits, op, ret, crashed, histVars>>

(* The body returns, throws, or suspends at an await; js_run_module then   *)
(* drains before it returns.                                               *)
BodyStops == LET m == Top.m IN
    /\ At("body")
    /\ \/ \E st \in {"fulfilled", "rejected"} : bp' = [bp EXCEPT ![m] = st] /\ UNCHANGED awaits
       \/ /\ bp' = [bp EXCEPT ![m] = "pending"]
          /\ \E w \in {Host} \cup {o \in Imports : op[o].by = m} :
                awaits' = [awaits EXCEPT ![m] = w]
    /\ stack' = Instead(Drain)
    /\ UNCHANGED <<specs, status, deps, ep, epWait, bpWait, reason, index,
                   op, queue, ret, memVars, histVars>>

(* Mutation of BodyReturns: a suspended body counts as done.               *)
BodyReturnsEarly == LET m == Top.m IN
    /\ At("ran") /\ stack' = Tail(stack)
    /\ IF bp[m] = "rejected" THEN FailState(queue, m, m, 0) ELSE BodyDone(queue, m)
    /\ UNCHANGED <<specs, deps, bp, bpWait, awaits, index, op, ret, crashed, histVars>>

BodyReturns == LET m == Top.m IN
    /\ At("ran") /\ stack' = Tail(stack)
    /\ \/ bp[m] = "fulfilled" /\ BodyDone(queue, m) /\ UNCHANGED bpWait
       \/ bp[m] = "rejected" /\ FailState(queue, m, m, 0) /\ UNCHANGED bpWait
       \/ bp[m] = "pending" /\ bpWait' = [bpWait EXCEPT ![m] = TRUE] /\ Quiet
       \/ FailState(queue, m, "oom", 1) /\ UNCHANGED bpWait
    /\ UNCHANGED <<specs, deps, bp, awaits, index, op, ret, crashed, histVars>>

(* A refused lookup of 'module' that is dereferenced untested: before the  *)
(* re-exports and the body, in eval_fail_state and in eval_on_body_done.   *)
(* The access faults, and the process is gone.                             *)
FailsNow == LET d == deps[Top.m][Top.i] IN
    \/ At("ran") /\ bp[Top.m] = "rejected"
    \/ AtDep /\ Top.called /\ ep[d] = "rejected"
    \/ AtDep /\ ~Top.called /\ d # NoModule /\ status[d] = "errored"

(* Where one refused allocation makes the chain fail.                      *)
MayRunShort == LET d == deps[Top.m][Top.i] IN
    At("ran") \/ (AtDep /\ d # NoModule /\ (Top.called => ep[d] = "pending"))

NullModule ==
    /\ \/ Refused(1) /\ \/ TakeJob("evalFail") \/ TakeJob("bodyDone")
                        \/ At("step") /\ ~AtDep
                        \/ FailsNow
       \/ Refused(2) /\ MayRunShort
    /\ crashed' = TRUE
    /\ UNCHANGED <<modVars, op, queue, stack, ret, lost, histVars>>

Engine ==
    \/ TakeFetched \/ TakeDepDone \/ TakeEvalSettled \/ TakeRootSettled \/ DrainEnds
    \/ InstStep \/ LinkStep \/ RootInstantiates \/ RootLinks \/ RootEvaluates \/ RootReturns
    \/ StepDep \/ StepReturns \/ RunBody \/ BodyRefused \/ BodyStops \/ BodyReturns
    \/ NullModule \/ HostDrains

Next ==
    \/ \E o \in Imports, r \in Modules : Import(o, r)
    \/ \E o \in Imports : GraphLoads(o)
    \/ \E m \in Modules : FiberEnds(m)
    \/ Engine

(* The host answers every load and every promise a body awaits, and goes   *)
(* on calling js_run_jobs while something is outstanding; a drain that     *)
(* ends and begins again meets each outstanding answer infinitely often.   *)
Fairness ==
    /\ WF_vars(Engine)
    /\ \A o \in Imports : SF_vars(GraphLoads(o))
    /\ \A m \in Modules : SF_vars(FiberEnds(m))

Spec == Init /\ [][Next]_vars /\ Fairness

(***************************************************************************)
(* Properties.                                                             *)
(***************************************************************************)
(* A module's body is started at most once, whatever imports, cycles and   *)
(* nested drains do while its evaluation is under way (eval_step,          *)
(* evaluate).                                                              *)
BodyOnce == \A m \in Modules : runs[m] <= 1

(* A body does not start before every dependency whose evaluation its own  *)
(* chain began has run to true completion, top-level awaits included       *)
(* (eval_step folds or parks on each in turn).                             *)
BodyAfterDeps ==
    \A m \in Modules : runs[m] > 0 =>
        \A d \in Modules \ {m} : starter[d] = m =>
            status[d] = "evaluated" /\ bp[d] = "fulfilled"

(* A failed evaluation is an answer: the chain that began it, if it got on *)
(* without an allocation failure of its own, fails for the same reason and *)
(* its body never starts; the import that began it is told that reason     *)
(* (eval_on_fail, root_on_eval_fail).                                      *)
FailureSpreads ==
    \A d \in Modules : status[d] = "errored" =>
        /\ \A m \in Modules \ {d} : starter[d] = m =>
              /\ runs[m] = 0
              /\ status[m] = "errored" => reason[m] \in {reason[d], "oom"}
        /\ \A o \in Imports : starter[d] = o => op[o].st # "fulfilled"

(* An import is fulfilled only when its module has been evaluated, except  *)
(* one that met the module in the middle of its evaluation (evaluate's     *)
(* comment: a second concurrent evaluation does not wait).                 *)
ImportTruthful ==
    \A o \in Imports \ joined : op[o].st = "fulfilled" => status[op[o].root] = "evaluated"

(* What an import is told, what its root's evaluation came to and what its *)
(* dependencies' came to are one story.                                    *)
OutcomesAgree == FailureSpreads /\ ImportTruthful

(* A body never runs with an import that linking failed to bind            *)
(* (link_module rejects with "unresolved import").                         *)
BodiesBound == \A m \in Modules : runs[m] > 0 => ~Unbound(m)

(* Every import is answered, also when bodies suspend on imports of the    *)
(* modules that wait for them (cycles through top-level await) and when    *)
(* memory is refused, unless it was the memory for a lookup of the         *)
(* 'module' or the 'promise' of a chain.                                   *)
ImportsSettle ==
    \A o \in Imports : op[o].st = "loading" ~>
        op[o].st \in {"fulfilled", "rejected"} \/ lost # {} \/ crashed
=============================================================================
