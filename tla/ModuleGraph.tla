---------------------------- MODULE ModuleGraph ----------------------------
(***************************************************************************)
(* The asynchronous half of module loading (src/runtime/js_module.c): the  *)
(* registry, the shallow fetch of one module, and the graph load of one    *)
(* import, a counter shared by the fetches of everything reachable from    *)
(* the root.                                                               *)
(*                                                                         *)
(* Each import has its own graph load; they meet in the registry and in    *)
(* the fetch promises.  Everything is chained through the microtask queue, *)
(* so a fetch that finished may be told to an import much later.  `loop`   *)
(* is graph_on_fetched while it goes through the dependencies of a module, *)
(* one iteration a step.  There the engine calls the loader, which may     *)
(* import other modules and settle promises it returned earlier.           *)
(***************************************************************************)
EXTENDS Integers, Sequences, FiniteSets, SequencesExt

CONSTANTS
    Modules,       (* canonical specifiers                                  *)
    Imports,       (* calls of js_eval_module or import()                   *)
    Unresolvable,  (* a specifier the canonicalizer refuses                 *)
    NoModule, NoImport, NoLoop,
    NaN,           (* the counter after arithmetic on an undefined          *)
    DepLists,      (* bound: the dep_specs a loaded module may have         *)
    LoaderStyles,  (* bound: what the loader callback returns               *)
    Later,         (* bound: what evaluation makes of a loaded module       *)
    MaxRefusals    (* bound: allocations that are refused                   *)

(* JsModStatus; "absent" while the registry does not know the specifier.   *)
Statuses == {"absent", "fetching", "unlinked", "linking", "linked",
             "evaluating", "evaluated", "errored"}

(* Loaded and not yet settled: instantiate, link and evaluate go on.       *)
Unsettled == {"unlinked", "linking", "linked", "evaluating"}

(* The loader returns a promise it settles later, a settled promise, or    *)
(* something that is not a promise.                                        *)
Styles == {"later", "now", "none"}

(* graph_on_fetched of a module for an import, at its next dependency.     *)
Loops == [op: Imports, module: Modules, next: Nat]

ASSUME GraphConstants ==
    /\ IsFiniteSet(Modules)
    /\ Unresolvable \notin Modules
    /\ NoModule \notin Modules
    /\ NoImport \notin Imports
    /\ NoLoop \notin Loops
    /\ NaN \notin Int
    /\ DepLists \subseteq Seq(Modules \cup {Unresolvable})
    /\ LoaderStyles \subseteq Styles
    /\ Later \subseteq Unsettled \cup {"evaluated", "errored"}
    /\ MaxRefusals \in Nat

VARIABLES
    status,        (* JsModule.status, through the registry                 *)
    depSpecs,      (* JsModule.dep_specs                                    *)
    asked,         (* modules whose loader promise is pending               *)
    waiting,       (* reactions on each fetch promise, in order             *)
    queue,         (* the continuations in the microtask queue              *)
    loop,          (* graph_on_fetched in progress                          *)
    root,          (* state.root of each graph load                         *)
    seen,          (* state.seen                                            *)
    remaining,     (* state.remaining                                       *)
    graph,         (* state.promise                                         *)
    told,          (* imports with a continuation on that promise           *)
    loads,         (* history: loader calls per specifier                   *)
    processed,     (* history: modules whose dependencies were enqueued     *)
    refusals       (* history: allocations refused                          *)

registryVars == <<status, depSpecs, asked, waiting, loads>>
opVars == <<root, seen, remaining, graph, told, processed>>
vars == <<status, depSpecs, asked, waiting, queue, loop, root, seen,
          remaining, graph, told, loads, processed, refusals>>

(* Continuations: fetch_on_resolved/rejected of a module; graph_on_fetched *)
(* and graph_on_failed of a module for an import; root_on_fetched and      *)
(* root_on_eval_fail of an import.                                         *)
Answered(m) == [kind |-> "answered", module |-> m, op |-> NoImport]
Fetched(o, m) == [kind |-> "fetched", module |-> m, op |-> o]
Failed(o, m) == [kind |-> "failed", module |-> m, op |-> o]
Loaded(o) == [kind |-> "loaded", module |-> NoModule, op |-> o]
LoadFailed(o) == [kind |-> "loadFailed", module |-> NoModule, op |-> o]

GraphJob ==
    [kind: {"answered"}, module: Modules, op: {NoImport}]
    \cup [kind: {"fetched", "failed"}, module: Modules, op: Imports]
    \cup [kind: {"loaded", "loadFailed"}, module: {NoModule}, op: Imports]

Settlement == {"none", "pending", "fulfilled", "rejected"}

RegistryOK ==
    /\ status \in [Modules -> Statuses]
    /\ depSpecs \in [Modules -> Seq(Modules \cup {Unresolvable})]
    /\ asked \subseteq Modules
    /\ waiting \in [Modules -> Seq(Imports)]
    /\ loads \in [Modules -> Nat]

OpsOK ==
    /\ root \in [Imports -> Modules \cup {NoModule}]
    /\ seen \in [Imports -> SUBSET Modules]
    /\ remaining \in [Imports -> Int \cup {NaN}]
    /\ graph \in [Imports -> Settlement]
    /\ told \subseteq Imports
    /\ processed \in [Imports -> SUBSET Modules]

(* Every variable holds a value of the kind the code keeps in it.          *)
TypeOK ==
    /\ RegistryOK
    /\ OpsOK
    /\ queue \in Seq(GraphJob)
    /\ loop \in Loops \cup {NoLoop}
    /\ refusals \in Nat

Init ==
    /\ status = [m \in Modules |-> "absent"]
    /\ depSpecs = [m \in Modules |-> <<>>]
    /\ asked = {}
    /\ waiting = [m \in Modules |-> <<>>]
    /\ queue = <<>>
    /\ loop = NoLoop
    /\ root = [o \in Imports |-> NoModule]
    /\ seen = [o \in Imports |-> {}]
    /\ remaining = [o \in Imports |-> 0]
    /\ graph = [o \in Imports |-> "none"]
    /\ told = {}
    /\ loads = [m \in Modules |-> 0]
    /\ processed = [o \in Imports |-> {}]
    /\ refusals = 0

(* ---- allocations ------------------------------------------------------ *)

(* An operation that meets a refused allocation.                           *)
Refuse == refusals < MaxRefusals /\ refusals' = refusals + 1

(* What js_to_number_value makes of the counter, plus k.                   *)
Plus(x, k) == IF x = NaN THEN NaN ELSE x + k

(* ---- shallow fetch ---------------------------------------------------- *)

(* Mutation of Request: a module whose fetch failed is asked for again.    *)
RequestAgain(m, style) ==
    /\ status[m] \in {"absent", "errored"}
    /\ status' = [status EXCEPT ![m] = IF style = "none" THEN "errored"
                                       ELSE "fetching"]
    /\ loads' = [loads EXCEPT ![m] = @ + 1]
    /\ asked' = IF style = "later" THEN asked \cup {m} ELSE asked

(* The first request for m: a placeholder is registered and the loader is  *)
(* called.  Without a promise to wait for, the fetch has failed.           *)
Request(m, style) ==
    /\ status[m] = "absent"
    /\ status' = [status EXCEPT ![m] = IF style = "none" THEN "errored"
                                       ELSE "fetching"]
    /\ loads' = [loads EXCEPT ![m] = @ + 1]
    /\ asked' = IF style = "later" THEN asked \cup {m} ELSE asked

(* A loader promise that is settled from the start answers at once.        *)
WithAnswer(m, style) ==
    IF style = "now" THEN Append(queue, Answered(m)) ELSE queue

(* The fetch promise is pending and o's reactions wait on it.              *)
FetchStarts(o, m) ==
    /\ \E style \in LoaderStyles \ {"none"}:
            Request(m, style) /\ queue' = WithAnswer(m, style)
    /\ waiting' = [waiting EXCEPT ![m] = Append(@, o)]

FetchFails(o, m) ==
    /\ "none" \in LoaderStyles
    /\ Request(m, "none")
    /\ queue' = Append(queue, Failed(o, m))
    /\ UNCHANGED waiting

FetchJoins(o, m) ==
    /\ status[m] = "fetching"
    /\ waiting' = [waiting EXCEPT ![m] = Append(@, o)]
    /\ UNCHANGED <<status, asked, loads, queue>>

(* The registry knows how the fetch ended: react to a settled promise.     *)
FetchKnown(o, m) ==
    /\ status[m] \notin {"absent", "fetching"}
    /\ queue' = Append(queue, IF status[m] = "errored" THEN Failed(o, m)
                              ELSE Fetched(o, m))
    /\ UNCHANGED <<status, asked, loads, waiting>>

(* fetch_module_async, with graph_on_fetched and graph_on_failed of o      *)
(* attached to what it returns.                                            *)
Fetch(o, m) ==
    \/ FetchStarts(o, m)
    \/ FetchFails(o, m)
    \/ FetchJoins(o, m)
    \/ FetchKnown(o, m)

(* ---- graph load ------------------------------------------------------- *)

(* The promise of the graph load settles, with q in the queue: only the    *)
(* first settlement counts, and the import is told if it could be attached.*)
Settle(q, o, how, job) ==
    IF graph[o] = "pending"
    THEN /\ graph' = [graph EXCEPT ![o] = how]
         /\ queue' = IF o \in told THEN Append(q, job) ELSE q
    ELSE queue' = q /\ UNCHANGED graph

GraphFail(q, o) == Settle(q, o, "rejected", LoadFailed(o))

(* With memory exhausted the state object may be unreadable even for that. *)
GraphFailsOrNot(q, o) ==
    \/ GraphFail(q, o)
    \/ queue' = q /\ UNCHANGED graph

(* load_graph for the root m of a new import.                              *)
Import(o, m) ==
    /\ graph[o] = "none"
    /\ root' = [root EXCEPT ![o] = m]
    /\ seen' = [seen EXCEPT ![o] = {m}]
    /\ remaining' = [remaining EXCEPT ![o] = 1]
    /\ graph' = [graph EXCEPT ![o] = "pending"]
    /\ told' = told \cup {o}
    /\ Fetch(o, m)
    /\ UNCHANGED <<depSpecs, loop, processed, refusals>>

(* ... refused before the graph load exists, before the root is requested, *)
(* or before o's reactions are attached to it: the import rejects.         *)
ImportRefused(o, m) ==
    /\ Refuse
    /\ graph[o] = "none"
    /\ graph' = [graph EXCEPT ![o] = "rejected"]
    /\ \/ UNCHANGED <<status, asked, loads, queue>>
       \/ /\ queue' = Append(queue, LoadFailed(o))
          /\ UNCHANGED <<status, asked, loads>>
       \/ \E style \in LoaderStyles:
            /\ Request(m, style)
            /\ queue' = Append(WithAnswer(m, style), LoadFailed(o))
    /\ UNCHANGED <<depSpecs, waiting, loop, root, seen, remaining, told,
                   processed>>

(* ... refused while the counter is read or written, which is not tested,  *)
(* or while the import is attached to the graph load, which rejects it.    *)
ImportSpoilt(o, m) ==
    /\ Refuse
    /\ graph[o] = "none"
    /\ root' = [root EXCEPT ![o] = m]
    /\ seen' = [seen EXCEPT ![o] = {m}]
    /\ \/ /\ remaining' = [remaining EXCEPT ![o] = 1]
          /\ UNCHANGED told
       \/ /\ \E count \in {0, NaN}: remaining' = [remaining EXCEPT ![o] = count]
          /\ told' = told \cup {o}
    /\ graph' = [graph EXCEPT ![o] = "pending"]
    /\ Fetch(o, m)
    /\ UNCHANGED <<depSpecs, loop, processed>>

(* js_resolve or js_reject of a promise the loader returned.               *)
LoaderSettles(m) ==
    /\ m \in asked
    /\ asked' = asked \ {m}
    /\ queue' = Append(queue, Answered(m))
    /\ UNCHANGED <<status, depSpecs, waiting, loop, root, seen, remaining,
                   graph, told, loads, processed, refusals>>

(* The next job is of this kind, and nothing is in progress.               *)
NextJob(kind) ==
    /\ loop = NoLoop
    /\ queue # <<>>
    /\ Head(queue).kind = kind

(* Mutation of Wake: only the import that asked first is told.             *)
WakeFirst(m, ok) ==
    /\ waiting' = [waiting EXCEPT ![m] = <<>>]
    /\ queue' = Tail(queue) \o
            [i \in DOMAIN waiting[m] \cap {1} |->
                IF ok THEN Fetched(waiting[m][i], m) ELSE Failed(waiting[m][i], m)]

(* The fetch promise of m settles and tells whoever waits for it.          *)
Wake(m, ok) ==
    /\ waiting' = [waiting EXCEPT ![m] = <<>>]
    /\ queue' = Tail(queue) \o
            [i \in DOMAIN waiting[m] |->
                IF ok THEN Fetched(waiting[m][i], m) ELSE Failed(waiting[m][i], m)]

(* fetch_on_resolved with source or bytecode that loads: the module's      *)
(* specifiers are known.                                                   *)
Loads(m, deps) ==
    /\ status' = [status EXCEPT ![m] = "unlinked"]
    /\ depSpecs' = [depSpecs EXCEPT ![m] = deps]
    /\ Wake(m, TRUE)

(* Mutation of Adopts: a status of its own, which no code knows.           *)
AdoptsAsSynthetic(m) ==
    /\ status' = [status EXCEPT ![m] = "synthetic"]
    /\ UNCHANGED depSpecs
    /\ Wake(m, TRUE)

(* ... with an object, which is the exports of a synthetic module.         *)
Adopts(m) ==
    /\ status' = [status EXCEPT ![m] = "evaluated"]
    /\ UNCHANGED depSpecs
    /\ Wake(m, TRUE)

(* ... with anything else or with source that does not compile, and        *)
(* fetch_on_rejected.                                                      *)
FailsToLoad(m) ==
    /\ status' = [status EXCEPT ![m] = "errored"]
    /\ UNCHANGED depSpecs
    /\ Wake(m, FALSE)

TakeAnswered(m) ==
    /\ NextJob("answered")
    /\ Head(queue).module = m
    /\ \/ \E deps \in DepLists: Loads(m, deps)
       \/ Adopts(m)
       \/ FailsToLoad(m)
    /\ UNCHANGED <<asked, loop, root, seen, remaining, graph, told, loads,
                   processed, refusals>>

(* graph_on_fetched begins.                                                *)
TakeFetched(o, m) ==
    /\ NextJob("fetched")
    /\ Head(queue) = Fetched(o, m)
    /\ queue' = Tail(queue)
    /\ loop' = [op |-> o, module |-> m, next |-> 1]
    /\ UNCHANGED <<status, depSpecs, asked, waiting, root, seen, remaining,
                   graph, told, loads, processed, refusals>>

(* graph_on_failed.  The state object may be unreadable: nothing happens.  *)
TakeFailed(o) ==
    /\ NextJob("failed")
    /\ Head(queue).op = o
    /\ \/ GraphFail(Tail(queue), o) /\ UNCHANGED refusals
       \/ Refuse /\ GraphFailsOrNot(Tail(queue), o)
    /\ UNCHANGED <<status, depSpecs, asked, waiting, loop, root, seen,
                   remaining, told, loads, processed>>

(* ---- graph_on_fetched ------------------------------------------------- *)

(* The dependency the loop is at.                                          *)
AtDep(o, m, d) ==
    /\ loop # NoLoop
    /\ loop.op = o
    /\ loop.module = m
    /\ loop.next \in DOMAIN depSpecs[m]
    /\ depSpecs[m][loop.next] = d

NextDep == loop' = [loop EXCEPT !.next = @ + 1]

(* A specifier that does not resolve fails the load; the loop goes on.     *)
EnqueueUnresolvable(o, m) ==
    /\ \/ /\ AtDep(o, m, Unresolvable)
          /\ GraphFail(queue, o)
          /\ UNCHANGED refusals
       \/ /\ \E d \in Modules \cup {Unresolvable}: AtDep(o, m, d)
          /\ Refuse
          /\ GraphFailsOrNot(queue, o)
    /\ NextDep
    /\ UNCHANGED <<status, depSpecs, asked, waiting, root, seen, remaining,
                   told, loads, processed>>

EnqueueSeen(o, m, d) ==
    /\ AtDep(o, m, d)
    /\ d \in seen[o]
    /\ NextDep
    /\ UNCHANGED <<status, depSpecs, asked, waiting, queue, root, seen,
                   remaining, graph, told, loads, processed, refusals>>

(* Mutation of EnqueueNew: the dependency is fetched but not counted.      *)
EnqueueNewUncounted(o, m, d) ==
    /\ AtDep(o, m, d)
    /\ d \in Modules \ seen[o]
    /\ seen' = [seen EXCEPT ![o] = @ \cup {d}]
    /\ Fetch(o, d)
    /\ NextDep
    /\ UNCHANGED <<depSpecs, root, remaining, graph, told, processed, refusals>>

EnqueueNew(o, m, d) ==
    /\ AtDep(o, m, d)
    /\ d \in Modules \ seen[o]
    /\ seen' = [seen EXCEPT ![o] = @ \cup {d}]
    /\ remaining' = [remaining EXCEPT ![o] = Plus(@, 1)]
    /\ Fetch(o, d)
    /\ NextDep
    /\ UNCHANGED <<depSpecs, root, graph, told, processed, refusals>>

(* A refusal that graph_enqueue reports, of d's entry in the seen set or,  *)
(* after the request, of the reactions: the load fails and the handler     *)
(* returns without counting the module as done.                            *)
EnqueueRefused(o, m, d) ==
    /\ Refuse
    /\ AtDep(o, m, d)
    /\ \/ /\ GraphFailsOrNot(queue, o)
          /\ UNCHANGED <<status, asked, loads, seen>>
       \/ /\ d \notin seen[o]
          /\ seen' = [seen EXCEPT ![o] = @ \cup {d}]
          /\ \/ UNCHANGED <<status, asked, loads>> /\ GraphFailsOrNot(queue, o)
             \/ \E style \in LoaderStyles:
                    /\ Request(d, style)
                    /\ GraphFailsOrNot(WithAnswer(d, style), o)
    /\ loop' = NoLoop
    /\ UNCHANGED <<depSpecs, waiting, root, remaining, told, processed>>

(* A refusal nobody tests: the fetch is chained but not counted.           *)
EnqueueUncounted(o, m, d) ==
    /\ Refuse
    /\ AtDep(o, m, d)
    /\ d \in Modules \ seen[o]
    /\ seen' = [seen EXCEPT ![o] = @ \cup {d}]
    /\ \/ UNCHANGED remaining
       \/ remaining' = [remaining EXCEPT ![o] = NaN]
    /\ Fetch(o, d)
    /\ NextDep
    /\ UNCHANGED <<depSpecs, root, graph, told, processed>>

(* After the loop: one fetch less to wait for, and the load is complete    *)
(* when it was the last.                                                   *)
AtEnd(o, m) ==
    /\ loop # NoLoop
    /\ loop.op = o
    /\ loop.module = m
    /\ loop.next \notin DOMAIN depSpecs[m]
    /\ loop' = NoLoop
    /\ processed' = [processed EXCEPT ![o] = @ \cup {m}]

Finish(o, m) ==
    /\ AtEnd(o, m)
    /\ remaining' = [remaining EXCEPT ![o] = Plus(@, -1)]
    /\ IF remaining[o] = 1 THEN Settle(queue, o, "fulfilled", Loaded(o))
       ELSE UNCHANGED <<queue, graph>>
    /\ UNCHANGED <<status, depSpecs, asked, waiting, root, seen, told, loads,
                   refusals>>

(* ... a lookup or the write of the counter is refused, which is not       *)
(* tested: the counter is lost, or counted and the promise not found, or   *)
(* not stored though the load fulfils.                                     *)
FinishRefused(o, m) ==
    /\ Refuse
    /\ AtEnd(o, m)
    /\ \/ /\ \/ UNCHANGED remaining
             \/ \E count \in {Plus(remaining[o], -1), NaN}:
                    remaining' = [remaining EXCEPT ![o] = count]
          /\ UNCHANGED <<queue, graph>>
       \/ /\ remaining[o] = 1
          /\ UNCHANGED remaining
          /\ Settle(queue, o, "fulfilled", Loaded(o))
    /\ UNCHANGED <<status, depSpecs, asked, waiting, root, seen, told, loads>>

(* ---- what follows ----------------------------------------------------- *)

(* The import learns how its graph load ended.                             *)
TakeRoot(o) ==
    /\ NextJob("loaded") \/ NextJob("loadFailed")
    /\ Head(queue).op = o
    /\ queue' = Tail(queue)
    /\ UNCHANGED <<status, depSpecs, asked, waiting, loop, root, seen,
                   remaining, graph, told, loads, processed, refusals>>

(* Linking and evaluation, of which a graph load only sees that the status *)
(* changed: any loaded module, at any moment between two jobs.             *)
Evaluation(m, later) ==
    /\ loop = NoLoop
    /\ status[m] \in Unsettled
    /\ status' = [status EXCEPT ![m] = later]
    /\ UNCHANGED <<depSpecs, asked, waiting, queue, loop, root, seen,
                   remaining, graph, told, loads, processed, refusals>>

OpStep(o, m) ==
    \/ Import(o, m)
    \/ ImportRefused(o, m)
    \/ ImportSpoilt(o, m)
    \/ TakeFetched(o, m)
    \/ EnqueueUnresolvable(o, m)
    \/ \E d \in Modules:
            \/ EnqueueSeen(o, m, d)
            \/ EnqueueNew(o, m, d)
            \/ EnqueueRefused(o, m, d)
            \/ EnqueueUncounted(o, m, d)
    \/ Finish(o, m)
    \/ FinishRefused(o, m)

Next ==
    \/ \E o \in Imports, m \in Modules: OpStep(o, m)
    \/ \E o \in Imports: TakeFailed(o) \/ TakeRoot(o)
    \/ \E m \in Modules: LoaderSettles(m) \/ TakeAnswered(m)
    \/ \E m \in Modules, later \in Later: Evaluation(m, later)

Spec == Init /\ [][Next]_vars

(* ---- properties ------------------------------------------------------- *)

(* The loader is called at most once for a specifier, whatever imports it  *)
(* and whichever way its fetch ended.                                      *)
FetchedOnce == \A m \in Modules: loads[m] <= 1

(* A graph load that fulfils has fetched everything reachable from its     *)
(* root: each module it has seen was loaded and had all its specifiers     *)
(* enqueued, so instantiate never meets "dependency was not fetched".      *)
(* Refused allocations can spoil the counter (js_module.c:410, 469).       *)
GraphComplete ==
    \A o \in Imports:
        graph[o] = "fulfilled" /\ refusals = 0 =>
            /\ root[o] \in seen[o]
            /\ seen[o] = processed[o]
            /\ \A m \in seen[o]:
                    /\ status[m] \notin {"absent", "fetching"}
                    /\ \A i \in DOMAIN depSpecs[m]: depSpecs[m][i] \in seen[o]

(* Nothing more can happen unless the host imports again.                  *)
Quiet == queue = <<>> /\ loop = NoLoop /\ asked = {}

(* When the host has answered every request and drained the queue, every   *)
(* graph load has settled, whatever cycles, joined fetches and failures it *)
(* met: the counter does not miss the last fetch.                          *)
NoImportStranded ==
    Quiet /\ refusals = 0 => \A o \in Imports: graph[o] # "pending"

=============================================================================
