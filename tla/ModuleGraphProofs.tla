------------------------- MODULE ModuleGraphProofs -------------------------
(***************************************************************************)
(* What holds of graph loads for any registry, any number of concurrent    *)
(* imports and any dependency lists.                                       *)
(***************************************************************************)
EXTENDS ModuleGraph, FiniteSetTheorems, TLAPS

(* A continuation of an import in the queue: graph_on_fetched or           *)
(* graph_on_failed.                                                        *)
IsToken(job) == job.kind \in {"fetched", "failed"}

IsAnswer(job) == job.kind = "answered"

(* The modules an import still waits for.                                  *)
Wanted == [o \in Imports |-> seen[o] \ processed[o]]

Absent == {"absent", "fetching"}

(* In the queue q, a loader promise answers once, and until then its       *)
(* module is fetching (st) and no longer asked for (as).                   *)
AnswersOK(q, st, as) ==
    \A i \in DOMAIN q:
        IsAnswer(q[i]) =>
            /\ st[q[i].module] = "fetching"
            /\ q[i].module \notin as
            /\ \A j \in DOMAIN q:
                    IsAnswer(q[j]) /\ q[j].module = q[i].module => j = i

(* What is absent has not been requested; who is asked for is fetching.    *)
RequestInv ==
    /\ \A m \in Modules: loads[m] = IF status[m] = "absent" THEN 0 ELSE 1
    /\ \A m \in asked: status[m] = "fetching"
    /\ AnswersOK(queue, status, asked)

(* Whoever is told of a fetch by a job of q is told once, and wants it.    *)
TokensOK(q, st, want) ==
    \A i \in DOMAIN q:
        IsToken(q[i]) =>
            /\ st[q[i].module] \notin Absent
            /\ q[i].module \in want[q[i].op]
            /\ \A j \in DOMAIN q:
                    IsToken(q[j]) /\ q[j].module = q[i].module /\ q[j].op = q[i].op
                        => j = i

(* Whoever waits for a fetch waits once, and wants it.                     *)
WaitingOK(wait, st, want) ==
    \A m \in Modules:
        /\ wait[m] # <<>> => st[m] = "fetching"
        /\ \A k \in DOMAIN wait[m]: m \in want[wait[m][k]]
        /\ \A k, l \in DOMAIN wait[m]: wait[m][k] = wait[m][l] => k = l

NotQueued(q, o, m) ==
    \A i \in DOMAIN q: IsToken(q[i]) => q[i].module # m \/ q[i].op # o

(* The dependency is one the load has seen, or one that failed it.         *)
Covered(o, d) == d \in seen[o] \/ graph[o] = "rejected"

(* The module in the loop has left the queue and is not counted yet; the   *)
(* dependencies behind it are covered.                                     *)
LoopInv ==
    loop # NoLoop =>
        /\ loop.next # 0
        /\ status[loop.module] \notin Absent
        /\ loop.module \in Wanted[loop.op]
        /\ NotQueued(queue, loop.op, loop.module)
        /\ \A i \in DOMAIN depSpecs[loop.module]:
                i < loop.next => Covered(loop.op, depSpecs[loop.module][i])

(* What is processed was fetched and its dependencies are covered.         *)
ProcessedInv ==
    \A o \in Imports: \A m \in processed[o]:
        /\ m \in seen[o]
        /\ status[m] \notin Absent
        /\ \A i \in DOMAIN depSpecs[m]: Covered(o, depSpecs[m][i])

(* The counter counts what is wanted; a load that fulfilled wants nothing. *)
CountInv ==
    \A o \in Imports:
        /\ remaining[o] = Cardinality(Wanted[o])
        /\ graph[o] = "none" => seen[o] = {} /\ processed[o] = {}
        /\ graph[o] # "none" => root[o] \in seen[o]
        /\ graph[o] = "pending" => Wanted[o] # {}
        /\ graph[o] = "fulfilled" => Wanted[o] = {}

LoadInv ==
    /\ TokensOK(queue, status, Wanted)
    /\ WaitingOK(waiting, status, Wanted)
    /\ LoopInv
    /\ ProcessedInv
    /\ CountInv

GraphInv == refusals = 0 => LoadInv

(* o waits for the fetch of m, is about to be told, or is being told.      *)
Waits(wait, o, m) == \E k \in DOMAIN wait[m]: wait[m][k] = o

OnItsWay(o, m) ==
    \/ Waits(waiting, o, m)
    \/ ~NotQueued(queue, o, m)
    \/ loop # NoLoop /\ loop.module = m /\ loop.op = o

AnswerQueued(q, m) == \E i \in DOMAIN q: q[i] = Answered(m)

(* Whatever a pending load wants is on its way, and the loader promise of  *)
(* whatever is fetching is pending or about to answer.                     *)
ArrivesInv ==
    /\ \A o \in Imports:
            graph[o] = "pending" => \A m \in Wanted[o]: OnItsWay(o, m)
    /\ \A m \in Modules:
            status[m] = "fetching" => m \in asked \/ AnswerQueued(queue, m)

DeliveryInv == refusals = 0 => ArrivesInv

-----------------------------------------------------------------------------
(* Types                                                                   *)

(* The continuations are jobs.                                             *)
LEMMA JobTypes ==
    /\ \A m \in Modules: Answered(m) \in GraphJob
    /\ \A o \in Imports: Loaded(o) \in GraphJob /\ LoadFailed(o) \in GraphJob
    /\ \A o \in Imports, m \in Modules:
            Fetched(o, m) \in GraphJob /\ Failed(o, m) \in GraphJob
BY DEF Answered, Loaded, LoadFailed, Fetched, Failed, GraphJob

(* A request changes the registry within its types.                        *)
LEMMA RequestType ==
    ASSUME RegistryOK, NEW m \in Modules, NEW style \in Styles,
           Request(m, style)
    PROVE  /\ status' \in [Modules -> Statuses]
           /\ loads' \in [Modules -> Nat]
           /\ asked' \subseteq Modules
<1>1. status' \in [Modules -> Statuses]
    BY DEF RegistryOK, Request, Statuses
<1>2. loads' \in [Modules -> Nat]
    BY DEF RegistryOK, Request
<1>3. asked' \subseteq Modules
    BY DEF RegistryOK, Request
<1>4. QED
    BY <1>1, <1>2, <1>3

LEMMA WithAnswerType ==
    ASSUME queue \in Seq(GraphJob), NEW m \in Modules, NEW style
    PROVE  WithAnswer(m, style) \in Seq(GraphJob)
BY JobTypes DEF WithAnswer

(* A fetch changes the registry and the queue within their types.          *)
LEMMA FetchType ==
    ASSUME RegistryOK, queue \in Seq(GraphJob),
           NEW o \in Imports, NEW m \in Modules, Fetch(o, m)
    PROVE  /\ status' \in [Modules -> Statuses]
           /\ loads' \in [Modules -> Nat]
           /\ asked' \subseteq Modules
           /\ waiting' \in [Modules -> Seq(Imports)]
           /\ queue' \in Seq(GraphJob)
<1>1. CASE FetchStarts(o, m)
    <2>1. PICK style \in LoaderStyles \ {"none"}:
                Request(m, style) /\ queue' = WithAnswer(m, style)
        BY <1>1 DEF FetchStarts
    <2>2. style \in Styles
        BY <2>1, GraphConstants
    <2>3. waiting' \in [Modules -> Seq(Imports)]
        BY <1>1 DEF FetchStarts, RegistryOK
    <2>4. QED
        BY <2>1, <2>2, <2>3, RequestType, WithAnswerType
<1>2. CASE FetchFails(o, m)
    <2>1. Request(m, "none") /\ UNCHANGED waiting /\ queue' = Append(queue, Failed(o, m))
        BY <1>2 DEF FetchFails
    <2>2. queue' \in Seq(GraphJob)
        BY <2>1, JobTypes
    <2>3. "none" \in Styles
        BY DEF Styles
    <2>4. QED
        BY <2>1, <2>2, <2>3, RequestType DEF RegistryOK
<1>3. CASE FetchJoins(o, m)
    BY <1>3 DEF FetchJoins, RegistryOK
<1>4. CASE FetchKnown(o, m)
    <2>1. queue' \in Seq(GraphJob)
        BY <1>4, JobTypes DEF FetchKnown
    <2>2. QED
        BY <1>4, <2>1 DEF FetchKnown, RegistryOK
<1>5. QED
    BY <1>1, <1>2, <1>3, <1>4 DEF Fetch

(* A settled graph load stays within its types.                            *)
LEMMA SettleType ==
    ASSUME graph \in [Imports -> Settlement], NEW q \in Seq(GraphJob),
           NEW o \in Imports, NEW how \in Settlement, NEW job \in GraphJob,
           Settle(q, o, how, job)
    PROVE  graph' \in [Imports -> Settlement] /\ queue' \in Seq(GraphJob)
BY DEF Settle

LEMMA GraphFailType ==
    ASSUME graph \in [Imports -> Settlement], NEW q \in Seq(GraphJob),
           NEW o \in Imports, GraphFailsOrNot(q, o)
    PROVE  graph' \in [Imports -> Settlement] /\ queue' \in Seq(GraphJob)
BY JobTypes, SettleType DEF GraphFailsOrNot, GraphFail, Settlement

(* Those who wait are told in jobs.                                        *)
LEMMA WakeType ==
    ASSUME RegistryOK, queue \in Seq(GraphJob), queue # <<>>,
           NEW m \in Modules, NEW ok \in BOOLEAN, Wake(m, ok)
    PROVE  waiting' \in [Modules -> Seq(Imports)] /\ queue' \in Seq(GraphJob)
<1> DEFINE w == waiting[m]
           jobs == [i \in DOMAIN w |-> IF ok THEN Fetched(w[i], m) ELSE Failed(w[i], m)]
<1>1. w \in Seq(Imports)
    BY DEF RegistryOK
<1>2. \A i \in DOMAIN w: w[i] \in Imports
    BY <1>1
<1>3. jobs \in [1..Len(w) -> GraphJob]
    BY <1>1, <1>2, JobTypes
<1>4. jobs \in Seq(GraphJob)
    BY <1>1, <1>3
<1>5. queue' = Tail(queue) \o jobs
    BY DEF Wake
<1>6. queue' \in Seq(GraphJob)
    BY <1>4, <1>5
<1>7. waiting' \in [Modules -> Seq(Imports)]
    BY DEF Wake, RegistryOK
<1>8. QED
    BY <1>6, <1>7

(* The counter stays a number or NaN.                                      *)
LEMMA PlusType ==
    ASSUME OpsOK, NEW o \in Imports
    PROVE  /\ Plus(remaining[o], 1) \in Int \cup {NaN}
           /\ Plus(remaining[o], -1) \in Int \cup {NaN}
<1>1. remaining[o] \in Int \cup {NaN}
    BY DEF OpsOK
<1>2. QED
    BY <1>1 DEF Plus

(* Every step of the module keeps the types.                               *)
LEMMA TypeStep ==
    ASSUME TypeOK, [Next]_vars
    PROVE  TypeOK'
<1> USE DEF TypeOK, Loops
<1>1. ASSUME NEW o \in Imports, NEW m \in Modules, OpStep(o, m)
      PROVE  TypeOK'
    <2> loop # NoLoop => /\ loop.op \in Imports /\ loop.module \in Modules
                         /\ loop.next \in Nat
                         /\ [loop EXCEPT !.next = @ + 1]
                                \in [op: Imports, module: Modules, next: Nat]
        OBVIOUS
    <2>1. CASE Import(o, m)
        <3>1. Fetch(o, m)
            BY <2>1 DEF Import
        <3>2. root' \in [Imports -> Modules \cup {NoModule}]
            BY <2>1 DEF Import, OpsOK
        <3>3. seen' \in [Imports -> SUBSET Modules]
            BY <2>1 DEF Import, OpsOK
        <3>4. remaining' \in [Imports -> Int \cup {NaN}]
            BY <2>1 DEF Import, OpsOK
        <3>5. graph' \in [Imports -> Settlement] /\ told' \subseteq Imports
            BY <2>1 DEF Import, OpsOK, Settlement
        <3>6. QED
            BY <2>1, <3>1, <3>2, <3>3, <3>4, <3>5, FetchType
               DEF Import, OpsOK, RegistryOK
    <2>2. CASE ImportRefused(o, m)
        <3>1. /\ status' \in [Modules -> Statuses] /\ loads' \in [Modules -> Nat]
              /\ asked' \subseteq Modules /\ queue' \in Seq(GraphJob)
            <4>1. CASE UNCHANGED <<status, asked, loads, queue>>
                BY <4>1 DEF RegistryOK
            <4>2. CASE /\ queue' = Append(queue, LoadFailed(o))
                       /\ UNCHANGED <<status, asked, loads>>
                BY <4>2, JobTypes DEF RegistryOK
            <4>3. CASE \E style \in LoaderStyles:
                            /\ Request(m, style)
                            /\ queue' = Append(WithAnswer(m, style), LoadFailed(o))
                BY <4>3, GraphConstants, RequestType, WithAnswerType, JobTypes
            <4>4. QED
                BY <2>2, <4>1, <4>2, <4>3 DEF ImportRefused
        <3>2. graph' \in [Imports -> Settlement] /\ refusals' \in Nat
            BY <2>2 DEF ImportRefused, OpsOK, Settlement, Refuse
        <3>3. QED
            BY <2>2, <3>1, <3>2 DEF ImportRefused, OpsOK, RegistryOK
    <2>3. CASE ImportSpoilt(o, m)
        <3>1. Fetch(o, m)
            BY <2>3 DEF ImportSpoilt
        <3>2. root' \in [Imports -> Modules \cup {NoModule}]
            BY <2>3 DEF ImportSpoilt, OpsOK
        <3>3. seen' \in [Imports -> SUBSET Modules]
            BY <2>3 DEF ImportSpoilt, OpsOK
        <3>4. remaining' \in [Imports -> Int \cup {NaN}] /\ told' \subseteq Imports
            BY <2>3 DEF ImportSpoilt, OpsOK
        <3>5. graph' \in [Imports -> Settlement] /\ refusals' \in Nat
            BY <2>3 DEF ImportSpoilt, OpsOK, Settlement, Refuse
        <3>6. QED
            BY <2>3, <3>1, <3>2, <3>3, <3>4, <3>5, FetchType
               DEF ImportSpoilt, OpsOK, RegistryOK
    <2>4. CASE TakeFetched(o, m)
        BY <2>4 DEF TakeFetched, NextJob, OpsOK, RegistryOK
    <2>5. CASE EnqueueUnresolvable(o, m)
        <3>1. GraphFailsOrNot(queue, o)
            BY <2>5 DEF EnqueueUnresolvable, GraphFailsOrNot
        <3>2. graph' \in [Imports -> Settlement] /\ queue' \in Seq(GraphJob)
            BY <3>1, GraphFailType DEF OpsOK
        <3>3. loop # NoLoop /\ NextDep /\ refusals' \in Nat
            BY <2>5 DEF EnqueueUnresolvable, AtDep, Refuse
        <3>4. QED
            BY <2>5, <3>2, <3>3 DEF EnqueueUnresolvable, NextDep, OpsOK, RegistryOK
    <2>6. ASSUME NEW d \in Modules, EnqueueSeen(o, m, d)
          PROVE  TypeOK'
        BY <2>6 DEF EnqueueSeen, AtDep, NextDep, OpsOK, RegistryOK
    <2>7. ASSUME NEW d \in Modules, EnqueueNew(o, m, d)
          PROVE  TypeOK'
        <3>1. Fetch(o, d) /\ loop # NoLoop /\ NextDep
            BY <2>7 DEF EnqueueNew, AtDep
        <3>2. seen' \in [Imports -> SUBSET Modules]
            BY <2>7 DEF EnqueueNew, OpsOK
        <3>3. remaining' \in [Imports -> Int \cup {NaN}]
            BY <2>7, PlusType DEF EnqueueNew, OpsOK
        <3>4. QED
            BY <2>7, <3>1, <3>2, <3>3, FetchType
               DEF EnqueueNew, NextDep, OpsOK, RegistryOK
    <2>8. ASSUME NEW d \in Modules, EnqueueRefused(o, m, d)
          PROVE  TypeOK'
        <3>1. /\ status' \in [Modules -> Statuses] /\ loads' \in [Modules -> Nat]
              /\ asked' \subseteq Modules /\ queue' \in Seq(GraphJob)
              /\ graph' \in [Imports -> Settlement]
              /\ seen' \in [Imports -> SUBSET Modules]
            <4>1. CASE GraphFailsOrNot(queue, o) /\ UNCHANGED <<status, asked, loads, seen>>
                BY <4>1, GraphFailType DEF RegistryOK, OpsOK
            <4>2. CASE /\ seen' = [seen EXCEPT ![o] = @ \cup {d}]
                       /\ UNCHANGED <<status, asked, loads>> /\ GraphFailsOrNot(queue, o)
                BY <4>2, GraphFailType DEF RegistryOK, OpsOK
            <4>3. CASE /\ seen' = [seen EXCEPT ![o] = @ \cup {d}]
                       /\ \E style \in LoaderStyles:
                            Request(d, style) /\ GraphFailsOrNot(WithAnswer(d, style), o)
                <5>1. PICK style \in LoaderStyles:
                            Request(d, style) /\ GraphFailsOrNot(WithAnswer(d, style), o)
                    BY <4>3
                <5>2. graph' \in [Imports -> Settlement] /\ queue' \in Seq(GraphJob)
                    BY <5>1, WithAnswerType, GraphFailType DEF OpsOK
                <5>3. seen' \in [Imports -> SUBSET Modules]
                    BY <4>3 DEF OpsOK
                <5>4. QED
                    BY <5>1, <5>2, <5>3, RequestType, GraphConstants
            <4>4. QED
                BY <2>8, <4>1, <4>2, <4>3 DEF EnqueueRefused
        <3>2. loop' = NoLoop /\ refusals' \in Nat
            BY <2>8 DEF EnqueueRefused, Refuse
        <3>3. QED
            BY <2>8, <3>1, <3>2 DEF EnqueueRefused, OpsOK, RegistryOK
    <2>9. ASSUME NEW d \in Modules, EnqueueUncounted(o, m, d)
          PROVE  TypeOK'
        <3>1. Fetch(o, d) /\ loop # NoLoop /\ NextDep /\ refusals' \in Nat
            BY <2>9 DEF EnqueueUncounted, AtDep, Refuse
        <3>2. seen' \in [Imports -> SUBSET Modules]
            BY <2>9 DEF EnqueueUncounted, OpsOK
        <3>3. remaining' \in [Imports -> Int \cup {NaN}]
            BY <2>9 DEF EnqueueUncounted, OpsOK
        <3>4. QED
            BY <2>9, <3>1, <3>2, <3>3, FetchType
               DEF EnqueueUncounted, NextDep, OpsOK, RegistryOK
    <2>10. ASSUME AtEnd(o, m)
           PROVE  loop' = NoLoop /\ processed' \in [Imports -> SUBSET Modules]
        BY <2>10 DEF AtEnd, OpsOK
    <2>11. CASE Finish(o, m)
        <3>1. remaining' \in [Imports -> Int \cup {NaN}]
            BY <2>11, PlusType DEF Finish, OpsOK
        <3>2. graph' \in [Imports -> Settlement] /\ queue' \in Seq(GraphJob)
            BY <2>11, SettleType, JobTypes DEF Finish, OpsOK, Settlement
        <3>3. AtEnd(o, m)
            BY <2>11 DEF Finish
        <3>4. QED
            BY <2>10, <2>11, <3>1, <3>2, <3>3 DEF Finish, OpsOK, RegistryOK
    <2>12. CASE FinishRefused(o, m)
        <3>1. remaining' \in [Imports -> Int \cup {NaN}]
            BY <2>12, PlusType DEF FinishRefused, OpsOK
        <3>2. AtEnd(o, m) /\ refusals' \in Nat
            BY <2>12 DEF FinishRefused, Refuse
        <3>3. graph' \in [Imports -> Settlement] /\ queue' \in Seq(GraphJob)
            BY <2>12, SettleType, JobTypes DEF FinishRefused, OpsOK, Settlement
        <3>4. QED
            BY <2>10, <2>12, <3>1, <3>2, <3>3 DEF FinishRefused, OpsOK, RegistryOK
    <2>13. QED
        BY <1>1, <2>1, <2>2, <2>3, <2>4, <2>5, <2>6, <2>7, <2>8, <2>9, <2>11, <2>12
           DEF OpStep
<1>2. ASSUME NEW o \in Imports, TakeFailed(o)
      PROVE  TypeOK'
    <2>1. queue # <<>> /\ Tail(queue) \in Seq(GraphJob)
        BY <1>2 DEF TakeFailed, NextJob
    <2>2. GraphFailsOrNot(Tail(queue), o) /\ refusals' \in Nat
        BY <1>2 DEF TakeFailed, GraphFailsOrNot, Refuse
    <2>3. graph' \in [Imports -> Settlement] /\ queue' \in Seq(GraphJob)
        BY <2>1, <2>2, GraphFailType DEF OpsOK
    <2>4. QED
        BY <1>2, <2>2, <2>3 DEF TakeFailed, OpsOK, RegistryOK
<1>3. ASSUME NEW o \in Imports, TakeRoot(o)
      PROVE  TypeOK'
    BY <1>3 DEF TakeRoot, NextJob, OpsOK, RegistryOK
<1>4. ASSUME NEW m \in Modules, LoaderSettles(m)
      PROVE  TypeOK'
    <2>1. queue' \in Seq(GraphJob)
        BY <1>4, JobTypes DEF LoaderSettles
    <2>2. QED
        BY <1>4, <2>1 DEF LoaderSettles, OpsOK, RegistryOK
<1>5. ASSUME NEW m \in Modules, TakeAnswered(m)
      PROVE  TypeOK'
    <2>1. queue # <<>>
        BY <1>5 DEF TakeAnswered, NextJob
    <2>2. PICK ok \in BOOLEAN: Wake(m, ok)
        BY <1>5 DEF TakeAnswered, Loads, Adopts, FailsToLoad
    <2>3. waiting' \in [Modules -> Seq(Imports)] /\ queue' \in Seq(GraphJob)
        BY <2>1, <2>2, WakeType
    <2>4. /\ status' \in [Modules -> Statuses]
          /\ depSpecs' \in [Modules -> Seq(Modules \cup {Unresolvable})]
        <3>1. ASSUME NEW deps \in DepLists, Loads(m, deps)
              PROVE  /\ status' \in [Modules -> Statuses]
                     /\ depSpecs' \in [Modules -> Seq(Modules \cup {Unresolvable})]
            BY <3>1, GraphConstants DEF Loads, RegistryOK, Statuses
        <3>2. QED
            BY <1>5, <3>1 DEF TakeAnswered, Adopts, FailsToLoad, RegistryOK, Statuses
    <2>5. QED
        BY <1>5, <2>3, <2>4 DEF TakeAnswered, OpsOK, RegistryOK
<1>6. ASSUME NEW m \in Modules, NEW later \in Later, Evaluation(m, later)
      PROVE  TypeOK'
    <2>1. later \in Statuses
        BY GraphConstants DEF Statuses, Unsettled
    <2>2. status' \in [Modules -> Statuses]
        BY <1>6, <2>1 DEF Evaluation, RegistryOK
    <2>3. QED
        BY <1>6, <2>2 DEF Evaluation, OpsOK, RegistryOK
<1>7. CASE UNCHANGED vars
    BY <1>7 DEF vars, OpsOK, RegistryOK
<1>8. QED
    BY <1>1, <1>2, <1>3, <1>4, <1>5, <1>6, <1>7 DEF Next

(* The registry, the graph loads and the queue hold what the code keeps in *)
(* them, whatever the loader answers and whichever allocations fail.       *)
THEOREM GraphTypeCorrect == Spec => []TypeOK
<1>1. Init => TypeOK
    BY DEF Init, TypeOK, RegistryOK, OpsOK, Statuses, Settlement
<1>2. TypeOK /\ [Next]_vars => TypeOK'
    BY TypeStep
<1>3. QED
    BY <1>1, <1>2, PTL DEF Spec

-----------------------------------------------------------------------------
(* The queue                                                               *)

(* Which continuation is which.                                            *)
LEMMA JobKinds ==
    /\ \A m: /\ IsAnswer(Answered(m)) /\ ~IsToken(Answered(m))
             /\ Answered(m).module = m
    /\ \A o, m: /\ IsToken(Fetched(o, m)) /\ ~IsAnswer(Fetched(o, m))
                /\ Fetched(o, m).module = m /\ Fetched(o, m).op = o
    /\ \A o, m: /\ IsToken(Failed(o, m)) /\ ~IsAnswer(Failed(o, m))
                /\ Failed(o, m).module = m /\ Failed(o, m).op = o
    /\ \A o: /\ ~IsToken(Loaded(o)) /\ ~IsAnswer(Loaded(o))
             /\ ~IsToken(LoadFailed(o)) /\ ~IsAnswer(LoadFailed(o))
BY DEF IsToken, IsAnswer, Answered, Fetched, Failed, Loaded, LoadFailed

LEMMA TokenTypes ==
    \A job \in GraphJob:
        /\ IsToken(job) => job.op \in Imports /\ job.module \in Modules
        /\ IsAnswer(job) => job.module \in Modules
BY DEF GraphJob, IsToken, IsAnswer

(* The elements of a sequence after an append and without its head.        *)
LEMMA AppendAt ==
    ASSUME NEW q \in Seq(GraphJob), NEW x \in GraphJob
    PROVE  /\ Append(q, x) \in Seq(GraphJob)
           /\ DOMAIN Append(q, x) = 1..(Len(q) + 1)
           /\ DOMAIN q = 1..Len(q)
           /\ \A i \in DOMAIN q: Append(q, x)[i] = q[i]
           /\ Append(q, x)[Len(q) + 1] = x
OBVIOUS

LEMMA TailAt ==
    ASSUME NEW q \in Seq(GraphJob), q # <<>>
    PROVE  /\ Tail(q) \in Seq(GraphJob)
           /\ 1 \in DOMAIN q
           /\ Head(q) = q[1]
           /\ \A i \in DOMAIN Tail(q): i + 1 \in DOMAIN q /\ Tail(q)[i] = q[i + 1] /\ i \in Nat /\ i > 0
OBVIOUS

LEMMA AnswersMonotone ==
    ASSUME NEW q \in Seq(GraphJob), NEW st, NEW as, NEW st2, NEW as2,
           AnswersOK(q, st, as),
           \A m \in Modules: st[m] = "fetching" /\ m \notin as =>
                st2[m] = "fetching" /\ m \notin as2
    PROVE  AnswersOK(q, st2, as2)
<1>1. \A i \in DOMAIN q: IsAnswer(q[i]) => q[i].module \in Modules
    BY TokenTypes
<1>2. QED
    BY <1>1 DEF AnswersOK

LEMMA AnswersTail ==
    ASSUME NEW q \in Seq(GraphJob), q # <<>>, NEW st, NEW as, AnswersOK(q, st, as)
    PROVE  AnswersOK(Tail(q), st, as)
<1> DEFINE r == Tail(q)
<1>1. \A i \in DOMAIN r: i + 1 \in DOMAIN q /\ r[i] = q[i + 1] /\ i \in Nat
    BY TailAt
<1> HIDE DEF r
<1>2. ASSUME NEW i \in DOMAIN r, IsAnswer(r[i])
      PROVE  /\ st[r[i].module] = "fetching" /\ r[i].module \notin as
             /\ \A j \in DOMAIN r:
                    IsAnswer(r[j]) /\ r[j].module = r[i].module => j = i
    <2>1. /\ st[q[i + 1].module] = "fetching" /\ q[i + 1].module \notin as
          /\ \A j \in DOMAIN q:
                IsAnswer(q[j]) /\ q[j].module = q[i + 1].module => j = i + 1
        BY <1>1, <1>2 DEF AnswersOK
    <2>2. ASSUME NEW j \in DOMAIN r, IsAnswer(r[j]), r[j].module = r[i].module
          PROVE  j = i
        <3>1. j + 1 = i + 1
            BY <1>1, <2>1, <2>2
        <3>2. QED
            BY <1>1, <3>1
    <2>3. QED
        BY <1>1, <2>1, <2>2
<1>3. AnswersOK(r, st, as)
    BY <1>2 DEF AnswersOK
<1>4. QED
    BY <1>3 DEF r

LEMMA AnswersAppendOther ==
    ASSUME NEW q \in Seq(GraphJob), NEW x \in GraphJob, ~IsAnswer(x),
           NEW st, NEW as, AnswersOK(q, st, as)
    PROVE  AnswersOK(Append(q, x), st, as)
<1>1. \A i \in DOMAIN Append(q, x): IsAnswer(Append(q, x)[i]) =>
            i \in DOMAIN q /\ Append(q, x)[i] = q[i]
    BY AppendAt
<1>2. QED
    BY <1>1 DEF AnswersOK

LEMMA AnswersAppend ==
    ASSUME NEW q \in Seq(GraphJob), NEW m \in Modules, NEW st, NEW as,
           AnswersOK(q, st, as), st[m] = "fetching", m \notin as,
           \A i \in DOMAIN q: IsAnswer(q[i]) => q[i].module # m
    PROVE  AnswersOK(Append(q, Answered(m)), st, as)
<1> DEFINE r == Append(q, Answered(m))
<1>1. Answered(m) \in GraphJob /\ Answered(m).module = m
    BY JobTypes, JobKinds
<1>2. \A i \in DOMAIN r: \/ i \in DOMAIN q /\ r[i] = q[i]
                         \/ i = Len(q) + 1 /\ r[i] = Answered(m)
    BY <1>1, AppendAt
<1>3. QED
    BY <1>1, <1>2 DEF AnswersOK

(* A request keeps answers unique, whatever else is appended.              *)
LEMMA RequestKeeps ==
    ASSUME TypeOK, RequestInv, NEW m \in Modules, NEW style \in Styles,
           Request(m, style)
    PROVE  /\ \A n \in Modules: loads'[n] = IF status'[n] = "absent" THEN 0 ELSE 1
           /\ \A n \in asked': status'[n] = "fetching"
           /\ WithAnswer(m, style) \in Seq(GraphJob)
           /\ AnswersOK(WithAnswer(m, style), status', asked')
<1> USE DEF TypeOK
<1>1. \A n \in Modules: loads'[n] = IF status'[n] = "absent" THEN 0 ELSE 1
    BY DEF RegistryOK, RequestInv, Request
<1>2. \A n \in asked': status'[n] = "fetching"
    BY DEF RegistryOK, RequestInv, Request
<1>3. AnswersOK(queue, status', asked')
    <2>1. \A n \in Modules: status[n] = "fetching" /\ n \notin asked =>
                status'[n] = "fetching" /\ n \notin asked'
        BY DEF Request, RegistryOK
    <2>2. AnswersOK(queue, status, asked)
        BY DEF RequestInv
    <2>3. QED
        BY <2>1, <2>2, AnswersMonotone
<1>4. CASE style = "now"
    <2>1. status'[m] = "fetching" /\ m \notin asked'
        BY <1>4 DEF Request, RegistryOK, RequestInv
    <2>2. \A i \in DOMAIN queue: IsAnswer(queue[i]) => queue[i].module # m
        BY DEF RequestInv, AnswersOK, Request
    <2>3. QED
        BY <1>1, <1>2, <1>3, <1>4, <2>1, <2>2, AnswersAppend, WithAnswerType
           DEF WithAnswer
<1>5. CASE style # "now"
    BY <1>1, <1>2, <1>3, <1>5 DEF WithAnswer
<1>6. QED
    BY <1>4, <1>5

(* A step that keeps the registry and appends nothing that answers.        *)
LEMMA QuietKeeps ==
    ASSUME RequestInv, UNCHANGED <<status, asked, loads>>,
           AnswersOK(queue', status, asked)
    PROVE  RequestInv'
BY DEF RequestInv

(* The settlement of a graph load appends nothing that answers.            *)
LEMMA GraphFailAnswers ==
    ASSUME NEW q \in Seq(GraphJob), NEW st, NEW as, AnswersOK(q, st, as),
           NEW o \in Imports, GraphFailsOrNot(q, o)
    PROVE  AnswersOK(queue', st, as)
BY JobTypes, JobKinds, AnswersAppendOther DEF GraphFailsOrNot, GraphFail, Settle

LEMMA FetchKeepsRequests ==
    ASSUME TypeOK, RequestInv, NEW o \in Imports, NEW m \in Modules, Fetch(o, m)
    PROVE  RequestInv'
<1> queue \in Seq(GraphJob) /\ AnswersOK(queue, status, asked)
    BY DEF TypeOK, RequestInv
<1>1. CASE FetchStarts(o, m)
    <2>1. PICK style \in Styles: Request(m, style) /\ queue' = WithAnswer(m, style)
        BY <1>1, GraphConstants DEF FetchStarts
    <2>2. QED
        BY <2>1, RequestKeeps DEF RequestInv
<1>2. CASE FetchFails(o, m)
    <2>1. Request(m, "none") /\ queue' = Append(queue, Failed(o, m))
        BY <1>2 DEF FetchFails
    <2>2. "none" \in Styles /\ WithAnswer(m, "none") = queue
        BY DEF Styles, WithAnswer
    <2>3. AnswersOK(queue, status', asked')
        BY <2>1, <2>2, RequestKeeps
    <2>4. AnswersOK(queue', status', asked')
        BY <2>1, <2>3, AnswersAppendOther, JobTypes, JobKinds
    <2>5. QED
        BY <2>1, <2>2, <2>4, RequestKeeps DEF RequestInv
<1>3. CASE FetchJoins(o, m)
    BY <1>3, QuietKeeps DEF FetchJoins
<1>4. CASE FetchKnown(o, m)
    <2>1. AnswersOK(queue', status, asked)
        BY <1>4, AnswersAppendOther, JobTypes, JobKinds DEF FetchKnown
    <2>2. QED
        BY <1>4, <2>1, QuietKeeps DEF FetchKnown
<1>5. QED
    BY <1>1, <1>2, <1>3, <1>4 DEF Fetch

(* The answer of m leaves the queue, and there is no other.                *)
LEMMA AnswerLeaves ==
    ASSUME NEW q \in Seq(GraphJob), q # <<>>, NEW st, NEW as, AnswersOK(q, st, as),
           NEW m \in Modules, IsAnswer(Head(q)), Head(q).module = m,
           NEW st2, \A n \in Modules \ {m}: st2[n] = st[n]
    PROVE  AnswersOK(Tail(q), st2, as)
<1> DEFINE r == Tail(q)
<1>1. /\ r \in Seq(GraphJob)
      /\ \A i \in DOMAIN r: i + 1 \in DOMAIN q /\ r[i] = q[i + 1] /\ i \in Nat /\ i > 0
      /\ 1 \in DOMAIN q /\ Head(q) = q[1]
    BY TailAt
<1>2. AnswersOK(r, st, as)
    BY AnswersTail
<1> HIDE DEF r
<1>3. \A i \in DOMAIN r: IsAnswer(r[i]) => r[i].module \in Modules \ {m}
    <2>1. ASSUME NEW i \in DOMAIN r, IsAnswer(r[i]), r[i].module = m
          PROVE  FALSE
        <3>1. /\ i + 1 \in DOMAIN q /\ IsAnswer(q[i + 1]) /\ q[i + 1].module = m
              /\ 1 \in DOMAIN q /\ IsAnswer(q[1]) /\ q[1].module = m
            BY <1>1, <2>1
        <3>2. 1 = i + 1
            BY <3>1 DEF AnswersOK
        <3>3. QED
            BY <1>1, <2>1, <3>2
    <2>2. \A i \in DOMAIN r: IsAnswer(r[i]) => r[i].module \in Modules
        BY <1>1, TokenTypes
    <2>3. QED
        BY <2>1, <2>2
<1>4. AnswersOK(r, st2, as)
    BY <1>2, <1>3 DEF AnswersOK
<1>5. QED
    BY <1>4 DEF r

LEMMA ConcatAt ==
    ASSUME NEW s \in Seq(GraphJob), NEW t \in Seq(GraphJob)
    PROVE  /\ Len(s) \in Nat /\ Len(t) \in Nat /\ DOMAIN s = 1..Len(s)
           /\ DOMAIN (s \o t) = 1..(Len(s) + Len(t))
           /\ \A i \in 1..Len(s): (s \o t)[i] = s[i]
           /\ \A i \in 1..Len(t): (s \o t)[Len(s) + i] = t[i]
<1>1. Len(s) \in Nat /\ Len(t) \in Nat /\ DOMAIN s = 1..Len(s)
    OBVIOUS
<1>2. DOMAIN (s \o t) = 1..(Len(s) + Len(t))
    OBVIOUS
<1>3. \A i \in 1..Len(s): (s \o t)[i] = s[i]
    OBVIOUS
<1>4. \A i \in 1..Len(t): (s \o t)[Len(s) + i] = t[i]
    OBVIOUS
<1>5. QED
    BY <1>1, <1>2, <1>3, <1>4

(* The queue when the fetch promise of m has told those who wait: the jobs *)
(* that were behind its answer, then theirs.                               *)
LEMMA WakeAt ==
    ASSUME TypeOK, queue # <<>>, NEW m \in Modules, NEW ok \in BOOLEAN, Wake(m, ok)
    PROVE  LET t == Tail(queue)
           IN /\ t \in Seq(GraphJob)
              /\ DOMAIN t = 1..Len(t) /\ Len(t) \in Nat
              /\ DOMAIN queue' = 1..(Len(t) + Len(waiting[m]))
              /\ Len(waiting[m]) \in Nat
              /\ \A i \in 1..Len(t): queue'[i] = t[i]
              /\ \A i \in 1..Len(waiting[m]):
                    queue'[Len(t) + i] = IF ok THEN Fetched(waiting[m][i], m)
                                         ELSE Failed(waiting[m][i], m)
<1> DEFINE t == Tail(queue)
           w == waiting[m]
           jobs == [i \in DOMAIN w |-> IF ok THEN Fetched(w[i], m) ELSE Failed(w[i], m)]
<1>1. t \in Seq(GraphJob) /\ w \in Seq(Imports)
    BY TailAt DEF TypeOK, RegistryOK
<1>2. \A i \in DOMAIN w: w[i] \in Imports
    BY <1>1
<1>3. jobs \in [1..Len(w) -> GraphJob]
    BY <1>1, <1>2, JobTypes
<1>4. jobs \in Seq(GraphJob) /\ Len(jobs) = Len(w)
    BY <1>1, <1>3
<1>5. queue' = t \o jobs
    BY DEF Wake
<1> HIDE DEF t, jobs
<1>6. /\ Len(t) \in Nat /\ Len(w) \in Nat /\ DOMAIN t = 1..Len(t)
      /\ DOMAIN queue' = 1..(Len(t) + Len(w))
      /\ \A i \in 1..Len(t): queue'[i] = t[i]
      /\ \A i \in 1..Len(w): queue'[Len(t) + i] = jobs[i]
    <2>1. /\ Len(t) \in Nat /\ Len(jobs) \in Nat /\ DOMAIN t = 1..Len(t)
          /\ DOMAIN (t \o jobs) = 1..(Len(t) + Len(jobs))
          /\ \A i \in 1..Len(t): (t \o jobs)[i] = t[i]
          /\ \A i \in 1..Len(jobs): (t \o jobs)[Len(t) + i] = jobs[i]
        BY <1>1, <1>4, ConcatAt
    <2> HIDE DEF w
    <2>2. QED
        BY <1>4, <1>5, <2>1
<1>7. \A i \in 1..Len(w): jobs[i] = IF ok THEN Fetched(w[i], m) ELSE Failed(w[i], m)
    BY <1>1 DEF jobs
<1>8. \A i \in 1..Len(w):
            queue'[Len(t) + i] = IF ok THEN Fetched(w[i], m) ELSE Failed(w[i], m)
    BY <1>6, <1>7
<1>9. QED
    BY <1>1, <1>6, <1>8 DEF t

-----------------------------------------------------------------------------
(* One fetch per specifier                                                 *)

LEMMA RequestStep ==
    ASSUME TypeOK, RequestInv, [Next]_vars
    PROVE  RequestInv'
<1> queue \in Seq(GraphJob) /\ AnswersOK(queue, status, asked)
    BY DEF TypeOK, RequestInv
<1>1. ASSUME NEW o \in Imports, NEW m \in Modules, OpStep(o, m)
      PROVE  RequestInv'
    <2>1. CASE Import(o, m) \/ ImportSpoilt(o, m)
        BY <2>1, FetchKeepsRequests DEF Import, ImportSpoilt
    <2>2. CASE ImportRefused(o, m)
        <3>1. CASE UNCHANGED <<status, asked, loads, queue>>
            BY <3>1 DEF RequestInv
        <3>2. CASE /\ queue' = Append(queue, LoadFailed(o))
                   /\ UNCHANGED <<status, asked, loads>>
            BY <3>2, AnswersAppendOther, JobTypes, JobKinds, QuietKeeps
        <3>3. CASE \E style \in LoaderStyles:
                        /\ Request(m, style)
                        /\ queue' = Append(WithAnswer(m, style), LoadFailed(o))
            <4>1. PICK style \in Styles:
                        /\ Request(m, style)
                        /\ queue' = Append(WithAnswer(m, style), LoadFailed(o))
                BY <3>3, GraphConstants
            <4>2. AnswersOK(queue', status', asked')
                BY <4>1, RequestKeeps, AnswersAppendOther, JobTypes, JobKinds
            <4>3. QED
                BY <4>1, <4>2, RequestKeeps DEF RequestInv
        <3>4. QED
            BY <2>2, <3>1, <3>2, <3>3 DEF ImportRefused
    <2>3. CASE TakeFetched(o, m)
        BY <2>3, AnswersTail, QuietKeeps DEF TakeFetched, NextJob
    <2>4. CASE EnqueueUnresolvable(o, m)
        BY <2>4, GraphFailAnswers, QuietKeeps DEF EnqueueUnresolvable, GraphFailsOrNot
    <2>5. ASSUME NEW d \in Modules, EnqueueSeen(o, m, d)
          PROVE  RequestInv'
        BY <2>5 DEF EnqueueSeen, RequestInv
    <2>6. ASSUME NEW d \in Modules, EnqueueNew(o, m, d) \/ EnqueueUncounted(o, m, d)
          PROVE  RequestInv'
        BY <2>6, FetchKeepsRequests DEF EnqueueNew, EnqueueUncounted
    <2>7. ASSUME NEW d \in Modules, EnqueueRefused(o, m, d)
          PROVE  RequestInv'
        <3>1. CASE GraphFailsOrNot(queue, o) /\ UNCHANGED <<status, asked, loads>>
            BY <3>1, GraphFailAnswers, QuietKeeps
        <3>2. CASE \E style \in LoaderStyles:
                        Request(d, style) /\ GraphFailsOrNot(WithAnswer(d, style), o)
            <4>1. PICK style \in Styles:
                        Request(d, style) /\ GraphFailsOrNot(WithAnswer(d, style), o)
                BY <3>2, GraphConstants
            <4>2. AnswersOK(queue', status', asked')
                BY <4>1, RequestKeeps, GraphFailAnswers
            <4>3. QED
                BY <4>1, <4>2, RequestKeeps DEF RequestInv
        <3>3. QED
            BY <2>7, <3>1, <3>2 DEF EnqueueRefused
    <2>8. CASE Finish(o, m)
        <3>1. AnswersOK(queue', status, asked)
            <4>1. queue' = queue \/ queue' = Append(queue, Loaded(o))
                BY <2>8 DEF Finish, Settle
            <4>2. QED
                BY <4>1, JobTypes, JobKinds, AnswersAppendOther
        <3>2. QED
            BY <2>8, <3>1, QuietKeeps DEF Finish
    <2>9. CASE FinishRefused(o, m)
        <3>1. AnswersOK(queue', status, asked)
            <4>1. queue' = queue \/ queue' = Append(queue, Loaded(o))
                BY <2>9 DEF FinishRefused, Settle
            <4>2. QED
                BY <4>1, JobTypes, JobKinds, AnswersAppendOther
        <3>2. QED
            BY <2>9, <3>1, QuietKeeps DEF FinishRefused
    <2>10. QED
        BY <1>1, <2>1, <2>2, <2>3, <2>4, <2>5, <2>6, <2>7, <2>8, <2>9 DEF OpStep
<1>2. ASSUME NEW o \in Imports, TakeFailed(o)
      PROVE  RequestInv'
    <2>1. queue # <<>> /\ GraphFailsOrNot(Tail(queue), o)
        BY <1>2 DEF TakeFailed, NextJob, GraphFailsOrNot
    <2>2. AnswersOK(queue', status, asked)
        BY <2>1, TailAt, AnswersTail, GraphFailAnswers
    <2>3. QED
        BY <1>2, <2>2, QuietKeeps DEF TakeFailed
<1>3. ASSUME NEW o \in Imports, TakeRoot(o)
      PROVE  RequestInv'
    BY <1>3, AnswersTail, QuietKeeps DEF TakeRoot, NextJob
<1>4. ASSUME NEW m \in Modules, LoaderSettles(m)
      PROVE  RequestInv'
    <2>1. /\ m \in asked /\ asked' = asked \ {m} /\ queue' = Append(queue, Answered(m))
          /\ UNCHANGED <<status, loads>>
        BY <1>4 DEF LoaderSettles
    <2>2. status[m] = "fetching" /\ \A i \in DOMAIN queue: IsAnswer(queue[i]) => queue[i].module # m
        BY <2>1 DEF RequestInv, AnswersOK
    <2>3. AnswersOK(queue, status, asked')
        BY <2>1, AnswersMonotone
    <2>4. AnswersOK(queue', status, asked')
        BY <2>1, <2>2, <2>3, AnswersAppend
    <2>5. QED
        BY <2>1, <2>4 DEF RequestInv
<1>5. ASSUME NEW m \in Modules, TakeAnswered(m)
      PROVE  RequestInv'
    <2>1. queue # <<>> /\ IsAnswer(Head(queue)) /\ Head(queue).module = m
        BY <1>5 DEF TakeAnswered, NextJob, IsAnswer
    <2>2. status[m] = "fetching" /\ m \notin asked
        BY <2>1, TailAt DEF AnswersOK
    <2>3. PICK ok \in BOOLEAN: Wake(m, ok)
        BY <1>5 DEF TakeAnswered, Loads, Adopts, FailsToLoad
    <2>4. /\ status'[m] # "absent" /\ \A n \in Modules \ {m}: status'[n] = status[n]
          /\ UNCHANGED <<asked, loads>>
        BY <1>5 DEF TakeAnswered, Loads, Adopts, FailsToLoad, TypeOK, RegistryOK
    <2>5. AnswersOK(Tail(queue), status', asked)
        BY <2>1, <2>4, AnswerLeaves
    <2>6. /\ DOMAIN Tail(queue) = 1..Len(Tail(queue))
          /\ \A i \in DOMAIN queue': IsAnswer(queue'[i]) =>
                i \in DOMAIN Tail(queue) /\ queue'[i] = Tail(queue)[i]
        <3>1. ASSUME NEW i \in DOMAIN queue', i \notin 1..Len(Tail(queue))
              PROVE  ~IsAnswer(queue'[i])
            <4>1. i - Len(Tail(queue)) \in 1..Len(waiting[m])
                BY <2>1, <2>3, <3>1, WakeAt
            <4>2. i = Len(Tail(queue)) + (i - Len(Tail(queue)))
                BY <2>1, <2>3, <3>1, WakeAt
            <4>3. QED
                BY <2>1, <2>3, <4>1, <4>2, WakeAt, JobKinds
        <3>2. QED
            BY <2>1, <2>3, <3>1, WakeAt
    <2>7. AnswersOK(queue', status', asked)
        BY <2>5, <2>6 DEF AnswersOK
    <2>8. \A n \in Modules: status[n] = "absent" <=> status'[n] = "absent"
        BY <2>2, <2>4
    <2>9. \A n \in Modules: loads'[n] = IF status'[n] = "absent" THEN 0 ELSE 1
        BY <2>4, <2>8 DEF RequestInv
    <2>10. \A n \in asked': status'[n] = "fetching"
        BY <2>2, <2>4 DEF RequestInv, TypeOK, RegistryOK
    <2>11. AnswersOK(queue', status', asked')
        BY <2>4, <2>7
    <2>12. QED
        BY <2>9, <2>10, <2>11 DEF RequestInv
<1>6. ASSUME NEW m \in Modules, NEW later \in Later, Evaluation(m, later)
      PROVE  RequestInv'
    <2>1. status[m] \in Unsettled /\ later \notin Absent /\ UNCHANGED <<queue, asked, loads>>
        BY <1>6, GraphConstants DEF Evaluation, Unsettled, Absent
    <2>2. \A n \in Modules:
                /\ status[n] = "fetching" => status'[n] = "fetching"
                /\ status[n] = "absent" <=> status'[n] = "absent"
        BY <1>6, <2>1 DEF Evaluation, Unsettled, Absent, TypeOK, RegistryOK
    <2>3. AnswersOK(queue, status', asked)
        BY <2>2, AnswersMonotone
    <2>4. \A n \in Modules: loads'[n] = IF status'[n] = "absent" THEN 0 ELSE 1
        BY <2>1, <2>2 DEF RequestInv
    <2>5. \A n \in asked': status'[n] = "fetching"
        BY <2>1, <2>2 DEF RequestInv, TypeOK, RegistryOK
    <2>6. AnswersOK(queue', status', asked')
        BY <2>1, <2>3
    <2>7. QED
        BY <2>4, <2>5, <2>6 DEF RequestInv
<1>7. CASE UNCHANGED vars
    BY <1>7 DEF vars, RequestInv
<1>8. QED
    BY <1>1, <1>2, <1>3, <1>4, <1>5, <1>6, <1>7 DEF Next

LEMMA RequestsInvariant == Spec => [](TypeOK /\ RequestInv)
<1>1. Init => TypeOK /\ RequestInv
    BY DEF Init, TypeOK, RegistryOK, OpsOK, Statuses, Settlement, RequestInv, AnswersOK
<1>2. (TypeOK /\ RequestInv) /\ [Next]_vars => (TypeOK /\ RequestInv)'
    BY TypeStep, RequestStep
<1>3. QED
    BY <1>1, <1>2, PTL DEF Spec

(* The loader is asked at most once for a module, by whichever import      *)
(* comes first, and never again, also when the fetch failed or an          *)
(* allocation was refused: an answer finds its module still fetching.      *)
THEOREM LoaderCalledOnce == Spec => []FetchedOnce
<1>1. TypeOK /\ RequestInv => FetchedOnce
    BY DEF TypeOK, RequestInv, FetchedOnce
<1>2. QED
    BY <1>1, RequestsInvariant, PTL

-----------------------------------------------------------------------------
(* Tokens: whoever waits or is told                                        *)

LEMMA TokensChange ==
    ASSUME NEW q \in Seq(GraphJob), NEW st, NEW want, NEW st2, NEW want2,
           TokensOK(q, st, want),
           \A o \in Imports, m \in Modules:
                m \in want[o] /\ st[m] \notin Absent /\ ~NotQueued(q, o, m) =>
                    st2[m] \notin Absent /\ m \in want2[o]
    PROVE  TokensOK(q, st2, want2)
<1>1. \A i \in DOMAIN q: IsToken(q[i]) => q[i].op \in Imports /\ q[i].module \in Modules
    BY TokenTypes
<1>2. \A i \in DOMAIN q: IsToken(q[i]) => ~NotQueued(q, q[i].op, q[i].module)
    BY DEF NotQueued
<1>3. QED
    BY <1>1, <1>2 DEF TokensOK

(* The head leaves: what it told is told no more.                          *)
LEMMA TokensTail ==
    ASSUME NEW q \in Seq(GraphJob), q # <<>>, NEW st, NEW want, TokensOK(q, st, want)
    PROVE  /\ TokensOK(Tail(q), st, want)
           /\ \A o, m: NotQueued(q, o, m) => NotQueued(Tail(q), o, m)
           /\ IsToken(Head(q)) => NotQueued(Tail(q), Head(q).op, Head(q).module)
<1> DEFINE r == Tail(q)
<1>1. /\ \A i \in DOMAIN r: i + 1 \in DOMAIN q /\ r[i] = q[i + 1] /\ i \in Nat /\ i > 0
      /\ 1 \in DOMAIN q /\ Head(q) = q[1]
    BY TailAt
<1> HIDE DEF r
<1>2. ASSUME NEW i \in DOMAIN r, IsToken(r[i])
      PROVE  /\ st[r[i].module] \notin Absent /\ r[i].module \in want[r[i].op]
             /\ \A j \in DOMAIN r:
                    IsToken(r[j]) /\ r[j].module = r[i].module /\ r[j].op = r[i].op
                        => j = i
    <2>1. /\ st[q[i + 1].module] \notin Absent /\ q[i + 1].module \in want[q[i + 1].op]
          /\ \A j \in DOMAIN q:
                IsToken(q[j]) /\ q[j].module = q[i + 1].module /\ q[j].op = q[i + 1].op
                    => j = i + 1
        BY <1>1, <1>2 DEF TokensOK
    <2>2. ASSUME NEW j \in DOMAIN r, IsToken(r[j]), r[j].module = r[i].module,
                 r[j].op = r[i].op
          PROVE  j = i
        <3>1. j + 1 = i + 1
            BY <1>1, <2>1, <2>2
        <3>2. QED
            BY <1>1, <3>1
    <2>3. QED
        BY <1>1, <2>1, <2>2
<1>3. TokensOK(r, st, want)
    BY <1>2 DEF TokensOK
<1>4. \A o, m: NotQueued(q, o, m) => NotQueued(r, o, m)
    BY <1>1 DEF NotQueued
<1>5. ASSUME IsToken(Head(q)), NEW i \in DOMAIN r, IsToken(r[i]),
             r[i].module = Head(q).module, r[i].op = Head(q).op
      PROVE  FALSE
    <2>1. /\ i + 1 \in DOMAIN q /\ IsToken(q[i + 1]) /\ IsToken(q[1])
          /\ q[i + 1].module = q[1].module /\ q[i + 1].op = q[1].op
        BY <1>1, <1>5
    <2>2. i + 1 = 1
        BY <1>1, <2>1 DEF TokensOK
    <2>3. QED
        BY <1>1, <1>5, <2>2
<1>6. IsToken(Head(q)) => NotQueued(r, Head(q).op, Head(q).module)
    BY <1>5 DEF NotQueued
<1>7. QED
    BY <1>3, <1>4, <1>6 DEF r

LEMMA TokensAppendOther ==
    ASSUME NEW q \in Seq(GraphJob), NEW x \in GraphJob, ~IsToken(x),
           NEW st, NEW want, TokensOK(q, st, want)
    PROVE  /\ TokensOK(Append(q, x), st, want)
           /\ \A o, m: NotQueued(q, o, m) => NotQueued(Append(q, x), o, m)
<1>1. \A i \in DOMAIN Append(q, x): IsToken(Append(q, x)[i]) =>
            i \in DOMAIN q /\ Append(q, x)[i] = q[i]
    BY AppendAt
<1>2. TokensOK(Append(q, x), st, want)
    BY <1>1 DEF TokensOK
<1>3. \A o, m: NotQueued(q, o, m) => NotQueued(Append(q, x), o, m)
    BY <1>1 DEF NotQueued
<1>4. QED
    BY <1>2, <1>3

LEMMA TokensAppend ==
    ASSUME NEW q \in Seq(GraphJob), NEW x \in GraphJob, IsToken(x),
           NEW st, NEW want, TokensOK(q, st, want),
           st[x.module] \notin Absent, x.module \in want[x.op],
           NotQueued(q, x.op, x.module)
    PROVE  /\ TokensOK(Append(q, x), st, want)
           /\ \A o, m: NotQueued(q, o, m) /\ (o # x.op \/ m # x.module) =>
                NotQueued(Append(q, x), o, m)
<1> DEFINE r == Append(q, x)
<1>1. /\ \A i \in DOMAIN r: \/ i \in DOMAIN q /\ r[i] = q[i]
                            \/ i = Len(q) + 1 /\ r[i] = x
    BY AppendAt
<1> HIDE DEF r
<1>2. TokensOK(r, st, want)
    BY <1>1 DEF TokensOK, NotQueued
<1>3. \A o, m: NotQueued(q, o, m) /\ (o # x.op \/ m # x.module) => NotQueued(r, o, m)
    BY <1>1 DEF NotQueued
<1>4. QED
    BY <1>2, <1>3 DEF r

(* o is told of m, which nobody in the queue tells it yet.                 *)
LEMMA TokensTold ==
    ASSUME NEW q \in Seq(GraphJob), NEW o \in Imports, NEW m \in Modules,
           NEW x \in {Fetched(o, m), Failed(o, m)},
           NEW st, NEW want, TokensOK(q, st, want),
           st[m] \notin Absent, m \in want[o], NotQueued(q, o, m)
    PROVE  /\ TokensOK(Append(q, x), st, want)
           /\ \A p, n: NotQueued(q, p, n) /\ (p # o \/ n # m) =>
                NotQueued(Append(q, x), p, n)
<1>1. x \in GraphJob /\ IsToken(x) /\ x.op = o /\ x.module = m
    BY JobTypes, JobKinds
<1>2. /\ st[x.module] \notin Absent /\ x.module \in want[x.op]
      /\ NotQueued(q, x.op, x.module)
    BY <1>1
<1>3. QED
    BY <1>1, <1>2, TokensAppend

(* A fetch on behalf of o, which wants m from now on.                      *)
LEMMA FetchKeepsTokens ==
    ASSUME TypeOK, RequestInv,
           TokensOK(queue, status, Wanted), WaitingOK(waiting, status, Wanted),
           NEW o \in Imports, NEW m \in Modules, Fetch(o, m), m \notin Wanted[o],
           NEW want, m \in want[o], \A p \in Imports: Wanted[p] \subseteq want[p]
    PROVE  /\ TokensOK(queue', status', want)
           /\ WaitingOK(waiting', status', want)
           /\ \A n \in Modules: status[n] \notin Absent => status'[n] = status[n]
           /\ \A p, n: NotQueued(queue, p, n) /\ (p # o \/ n # m) => NotQueued(queue', p, n)
<1> queue \in Seq(GraphJob) /\ status \in [Modules -> Statuses]
        /\ waiting \in [Modules -> Seq(Imports)]
    BY DEF TypeOK, RegistryOK
<1>1. NotQueued(queue, o, m)
    BY DEF NotQueued, TokensOK
<1>2. TokensOK(queue, status, want)
    BY TokensChange
<1>3. WaitingOK(waiting, status, want) /\ \A k \in DOMAIN waiting[m]: waiting[m][k] # o
    <2>1. \A n \in Modules: \A k \in DOMAIN waiting[n]: waiting[n][k] \in Imports
        OBVIOUS
    <2>2. QED
        BY <2>1 DEF WaitingOK
<1>4. ASSUME status'[m] = "fetching", waiting' = [waiting EXCEPT ![m] = Append(@, o)],
             \A n \in Modules \ {m}: status'[n] = status[n]
      PROVE  WaitingOK(waiting', status', want)
    <2>1. ASSUME NEW n \in Modules
          PROVE  /\ waiting'[n] # <<>> => status'[n] = "fetching"
                 /\ \A k \in DOMAIN waiting'[n]: n \in want[waiting'[n][k]]
                 /\ \A k, l \in DOMAIN waiting'[n]: waiting'[n][k] = waiting'[n][l] => k = l
        <3>1. CASE n = m
            <4>1. waiting'[m] = Append(waiting[m], o) /\ waiting[m] \in Seq(Imports)
                BY <1>4
            <4>2. \A k \in DOMAIN waiting'[m]:
                        \/ k \in DOMAIN waiting[m] /\ waiting'[m][k] = waiting[m][k]
                        \/ k = Len(waiting[m]) + 1 /\ waiting'[m][k] = o
                BY <4>1
            <4>3. QED
                BY <1>3, <1>4, <3>1, <4>2 DEF WaitingOK
        <3>2. CASE n # m
            BY <1>3, <1>4, <3>2 DEF WaitingOK
        <3>3. QED
            BY <3>1, <3>2
    <2>2. QED
        BY <2>1 DEF WaitingOK
<1>5. CASE FetchStarts(o, m)
    <2>1. PICK style \in Styles: Request(m, style) /\ queue' = WithAnswer(m, style)
                                    /\ style # "none"
        BY <1>5, GraphConstants DEF FetchStarts
    <2>2. /\ status'[m] = "fetching" /\ \A n \in Modules \ {m}: status'[n] = status[n]
          /\ status[m] = "absent"
        BY <2>1 DEF Request
    <2>3. TokensOK(queue, status', want)
        BY <1>2, <2>2, TokensChange DEF Absent
    <2>4. /\ TokensOK(queue', status', want)
          /\ \A p, n: NotQueued(queue, p, n) => NotQueued(queue', p, n)
        BY <2>1, <2>3, TokensAppendOther, JobTypes, JobKinds DEF WithAnswer
    <2>5. WaitingOK(waiting', status', want)
        BY <1>4, <1>5, <2>2 DEF FetchStarts
    <2>6. \A n \in Modules: status[n] \notin Absent => status'[n] = status[n]
        BY <2>2 DEF Absent
    <2>7. QED
        BY <2>4, <2>5, <2>6
<1>6. CASE FetchFails(o, m)
    <2>1. /\ Request(m, "none") /\ queue' = Append(queue, Failed(o, m)) /\ waiting' = waiting
        BY <1>6 DEF FetchFails
    <2>2. /\ status'[m] = "errored" /\ \A n \in Modules \ {m}: status'[n] = status[n]
          /\ status[m] = "absent"
        BY <2>1 DEF Request
    <2>3. TokensOK(queue, status', want)
        <3>1. \A n \in Modules: status[n] \notin Absent => status'[n] \notin Absent
            BY <2>2 DEF Absent
        <3>2. QED
            BY <1>2, <3>1, TokensChange
    <2>4. /\ TokensOK(queue', status', want)
          /\ \A p, n: NotQueued(queue, p, n) /\ (p # o \/ n # m) => NotQueued(queue', p, n)
        BY <1>1, <2>1, <2>2, <2>3, TokensTold DEF Absent
    <2>5. WaitingOK(waiting', status', want)
        BY <1>3, <2>1, <2>2 DEF WaitingOK
    <2>6. \A n \in Modules: status[n] \notin Absent => status'[n] = status[n]
        BY <2>2 DEF Absent
    <2>7. QED
        BY <2>4, <2>5, <2>6
<1>7. CASE FetchJoins(o, m)
    <2>1. /\ status' = status /\ queue' = queue /\ status[m] = "fetching"
          /\ waiting' = [waiting EXCEPT ![m] = Append(@, o)]
        BY <1>7 DEF FetchJoins
    <2>2. QED
        BY <1>2, <1>4, <2>1
<1>8. CASE FetchKnown(o, m)
    <2>1. /\ status' = status /\ status[m] \notin Absent /\ waiting' = waiting
        BY <1>8 DEF FetchKnown, Absent
    <2>2. /\ TokensOK(queue', status', want)
          /\ \A p, n: NotQueued(queue, p, n) /\ (p # o \/ n # m) => NotQueued(queue', p, n)
        <3>1. PICK x \in {Fetched(o, m), Failed(o, m)}: queue' = Append(queue, x)
            BY <1>8 DEF FetchKnown
        <3>2. /\ TokensOK(Append(queue, x), status, want)
              /\ \A p, n: NotQueued(queue, p, n) /\ (p # o \/ n # m) =>
                    NotQueued(Append(queue, x), p, n)
            BY <1>1, <1>2, <2>1, TokensTold
        <3>3. QED
            BY <2>1, <3>1, <3>2
    <2>3. QED
        BY <1>3, <2>1, <2>2
<1>9. QED
    BY <1>5, <1>6, <1>7, <1>8 DEF Fetch

-----------------------------------------------------------------------------
(* A graph load that fulfils is complete                                   *)

(* What is wanted does not change when nothing is seen or processed.       *)
LEMMA WantedAt ==
    /\ \A o \in Imports: Wanted[o] = seen[o] \ processed[o]
    /\ \A o \in Imports: Wanted'[o] = seen'[o] \ processed'[o]
    /\ UNCHANGED <<seen, processed>> => Wanted' = Wanted
BY DEF Wanted

(* A step that does not touch the graph loads, except to fail one.         *)
LEMMA LoadsKept ==
    ASSUME TypeOK, ProcessedInv, CountInv,
           UNCHANGED <<root, seen, remaining, processed>>,
           \A n \in Modules: status[n] \notin Absent =>
                status'[n] \notin Absent /\ depSpecs'[n] = depSpecs[n],
           \A o \in Imports: \/ graph'[o] = graph[o]
                             \/ graph[o] = "pending" /\ graph'[o] = "rejected"
    PROVE  ProcessedInv' /\ CountInv'
<1>1. ProcessedInv'
    <2>1. ASSUME NEW o \in Imports, NEW m \in processed'[o]
          PROVE  /\ m \in seen'[o]
                 /\ status'[m] \notin Absent
                 /\ \A i \in DOMAIN depSpecs'[m]: Covered(o, depSpecs[m][i])'
        <3>1. /\ m \in processed[o] /\ m \in seen[o] /\ status[m] \notin Absent
              /\ \A i \in DOMAIN depSpecs[m]: Covered(o, depSpecs[m][i])
            BY <2>1 DEF ProcessedInv
        <3>2. m \in Modules
            BY <3>1 DEF TypeOK, OpsOK
        <3>3. QED
            BY <3>1, <3>2 DEF Covered
    <2>2. QED
        BY <2>1 DEF ProcessedInv
<1>2. CountInv'
    BY WantedAt DEF CountInv
<1>3. QED
    BY <1>1, <1>2

(* A graph load fails.                                                     *)
LEMMA GraphFailKeeps ==
    ASSUME graph \in [Imports -> Settlement], NEW q \in Seq(GraphJob),
           NEW o \in Imports, GraphFail(q, o),
           NEW st, NEW want, TokensOK(q, st, want)
    PROVE  /\ TokensOK(queue', st, want)
           /\ \A p, n: NotQueued(q, p, n) => NotQueued(queue', p, n)
           /\ graph[o] = "pending" => graph'[o] = "rejected"
           /\ \A p \in Imports: \/ graph'[p] = graph[p]
                                \/ graph[p] = "pending" /\ graph'[p] = "rejected"
<1>1. queue' = q \/ queue' = Append(q, LoadFailed(o))
    BY DEF GraphFail, Settle
<1>2. /\ TokensOK(queue', st, want)
      /\ \A p, n: NotQueued(q, p, n) => NotQueued(queue', p, n)
    BY <1>1, TokensAppendOther, JobTypes, JobKinds
<1>3. /\ graph[o] = "pending" => graph'[o] = "rejected"
      /\ \A p \in Imports: \/ graph'[p] = graph[p]
                           \/ graph[p] = "pending" /\ graph'[p] = "rejected"
    BY DEF GraphFail, Settle
<1>4. QED
    BY <1>2, <1>3

(* graph_on_fetched in the loop: the load it works for is not new and not  *)
(* fulfilled, for it wants the module in the loop.                         *)
LEMMA InLoop ==
    ASSUME TypeOK, LoadInv, loop # NoLoop
    PROVE  /\ loop.op \in Imports /\ loop.module \in Modules /\ loop.next \in Nat
           /\ loop.module \in seen[loop.op] /\ loop.module \notin processed[loop.op]
           /\ graph[loop.op] \in {"pending", "rejected"}
<1>1. loop.op \in Imports /\ loop.module \in Modules /\ loop.next \in Nat
    BY DEF TypeOK, Loops
<1>2. loop.module \in Wanted[loop.op]
    BY DEF LoadInv, LoopInv
<1>3. graph[loop.op] \in Settlement
    BY <1>1 DEF TypeOK, OpsOK
<1>4. QED
    BY <1>1, <1>2, <1>3, WantedAt DEF LoadInv, CountInv, Settlement

LEMMA ImportKeeps ==
    ASSUME TypeOK, RequestInv, LoadInv, NEW o \in Imports, NEW m \in Modules,
           Import(o, m)
    PROVE  LoadInv'
<1>1. /\ seen[o] = {} /\ processed[o] = {} /\ Wanted[o] = {}
    BY WantedAt DEF Import, LoadInv, CountInv
<1>2. Wanted'[o] = {m} /\ \A p \in Imports \ {o}: Wanted'[p] = Wanted[p]
    BY <1>1, WantedAt DEF Import, TypeOK, OpsOK
<1>3. /\ TokensOK(queue', status', Wanted')
      /\ WaitingOK(waiting', status', Wanted')
      /\ \A n \in Modules: status[n] \notin Absent => status'[n] = status[n]
      /\ \A p, n: NotQueued(queue, p, n) /\ p # o => NotQueued(queue', p, n)
    <2>1. Fetch(o, m) /\ m \notin Wanted[o] /\ m \in Wanted'[o]
        BY <1>1, <1>2 DEF Import
    <2>2. \A p \in Imports: Wanted[p] \subseteq Wanted'[p]
        BY <1>1, <1>2
    <2>3. QED
        BY <2>1, <2>2, FetchKeepsTokens DEF LoadInv
<1>4. LoopInv'
    <2>1. CASE loop = NoLoop
        BY <2>1 DEF Import, LoopInv
    <2>2. CASE loop # NoLoop
        <3>1. loop.op \in Imports \ {o} /\ loop.module \in Modules
            BY <2>2, InLoop DEF Import
        <3>2. /\ seen'[loop.op] = seen[loop.op] /\ graph'[loop.op] = graph[loop.op]
              /\ UNCHANGED <<depSpecs, loop>>
            BY <3>1 DEF Import, TypeOK, OpsOK
        <3>3. /\ loop.next # 0 /\ status'[loop.module] \notin Absent
              /\ loop.module \in Wanted'[loop.op]
              /\ NotQueued(queue', loop.op, loop.module)
            BY <1>2, <1>3, <2>2, <3>1 DEF LoadInv, LoopInv
        <3>4. \A i \in DOMAIN depSpecs[loop.module]:
                    i < loop.next => Covered(loop.op, depSpecs[loop.module][i])
            BY <2>2 DEF LoadInv, LoopInv
        <3>5. QED
            BY <3>2, <3>3, <3>4 DEF LoopInv, Covered
    <2>3. QED
        BY <2>1, <2>2
<1>5. ProcessedInv'
    <2>1. ASSUME NEW p \in Imports, NEW n \in processed'[p]
          PROVE  /\ n \in seen'[p]
                 /\ status'[n] \notin Absent
                 /\ \A i \in DOMAIN depSpecs'[n]: Covered(p, depSpecs[n][i])'
        <3>1. p # o /\ n \in processed[p] /\ n \in Modules
            BY <1>1, <2>1 DEF Import, TypeOK, OpsOK
        <3>2. /\ seen'[p] = seen[p] /\ graph'[p] = graph[p] /\ depSpecs' = depSpecs
            BY <3>1 DEF Import, TypeOK, OpsOK
        <3>3. QED
            BY <1>3, <3>1, <3>2 DEF LoadInv, ProcessedInv, Covered
    <2>2. QED
        BY <2>1 DEF ProcessedInv
<1>6. CountInv'
    <2>1. Cardinality({m}) = 1
        BY FS_Singleton
    <2>2. ASSUME NEW p \in Imports
          PROVE  /\ remaining'[p] = Cardinality(Wanted'[p])
                 /\ graph'[p] = "none" => seen'[p] = {} /\ processed'[p] = {}
                 /\ graph'[p] # "none" => root'[p] \in seen'[p]
                 /\ graph'[p] = "pending" => Wanted'[p] # {}
                 /\ graph'[p] = "fulfilled" => Wanted'[p] = {}
        <3>1. CASE p = o
            BY <1>2, <2>1, <3>1 DEF Import, TypeOK, OpsOK
        <3>2. CASE p # o
            BY <1>2, <3>2 DEF Import, TypeOK, OpsOK, LoadInv, CountInv
        <3>3. QED
            BY <3>1, <3>2
    <2>3. QED
        BY <2>2 DEF CountInv
<1>7. QED
    BY <1>3, <1>4, <1>5, <1>6 DEF LoadInv

(* The next dependency: whatever is behind the loop remains covered.       *)
LEMMA LoopAdvances ==
    ASSUME TypeOK, LoadInv, NEW o, NEW m, NEW d, AtDep(o, m, d), NextDep,
           UNCHANGED depSpecs, status'[m] \notin Absent, m \in Wanted'[o],
           NotQueued(queue', o, m), \A e: Covered(o, e) => Covered(o, e)',
           Covered(o, d)'
    PROVE  LoopInv'
<1>1. /\ loop # NoLoop /\ loop.op = o /\ loop.module = m
      /\ loop.next \in DOMAIN depSpecs[m] /\ depSpecs[m][loop.next] = d
    BY DEF AtDep
<1>2. o \in Imports /\ m \in Modules /\ loop.next \in Nat /\ loop.next # 0
    BY <1>1, InLoop DEF LoadInv, LoopInv
<1>3. /\ loop'.op = o /\ loop'.module = m /\ loop'.next = loop.next + 1
    BY <1>1 DEF NextDep, TypeOK
<1>4. loop'.next # 0
    BY <1>2, <1>3
<1>5. DOMAIN depSpecs[m] \subseteq Nat
    BY <1>2 DEF TypeOK, RegistryOK
<1>6. ASSUME NEW i \in DOMAIN depSpecs[m], i < loop'.next
      PROVE  Covered(o, depSpecs[m][i])'
    <2>1. i < loop.next \/ i = loop.next
        BY <1>2, <1>3, <1>5, <1>6
    <2>2. CASE i < loop.next
        <3>1. Covered(o, depSpecs[m][i])
            BY <1>1, <2>2 DEF LoadInv, LoopInv
        <3>2. QED
            BY <3>1 DEF Covered
    <2>3. CASE i = loop.next
        BY <1>1, <2>3 DEF Covered
    <2>4. QED
        BY <2>1, <2>2, <2>3
<1>7. QED
    BY <1>3, <1>4, <1>6 DEF LoopInv, Covered

LEMMA EnqueueNewKeeps ==
    ASSUME TypeOK, RequestInv, LoadInv, NEW o \in Imports, NEW m \in Modules,
           NEW d \in Modules, EnqueueNew(o, m, d)
    PROVE  LoadInv'
<1>1. /\ loop # NoLoop /\ loop.op = o /\ loop.module = m
      /\ loop.next \in DOMAIN depSpecs[m] /\ depSpecs[m][loop.next] = d
      /\ d \notin seen[o] /\ m # d /\ UNCHANGED <<depSpecs, root, graph, processed>>
      /\ graph[o] \in {"pending", "rejected"}
    BY InLoop DEF EnqueueNew, AtDep
<1>2. /\ seen'[o] = seen[o] \cup {d} /\ \A p \in Imports \ {o}: seen'[p] = seen[p]
    BY DEF EnqueueNew, TypeOK, OpsOK
<1>3. d \notin processed[o]
    BY <1>1 DEF LoadInv, ProcessedInv
<1>4. /\ Wanted'[o] = Wanted[o] \cup {d} /\ d \notin Wanted[o]
      /\ \A p \in Imports \ {o}: Wanted'[p] = Wanted[p]
    <2>1. /\ Wanted[o] = seen[o] \ processed[o]
          /\ Wanted'[o] = (seen[o] \cup {d}) \ processed[o]
        BY <1>1, <1>2, WantedAt
    <2>2. ASSUME NEW p \in Imports \ {o}
          PROVE  Wanted'[p] = Wanted[p]
        <3>1. seen'[p] = seen[p] /\ processed'[p] = processed[p]
            BY <1>1, <1>2
        <3>2. Wanted'[p] = seen'[p] \ processed'[p] /\ Wanted[p] = seen[p] \ processed[p]
            BY WantedAt
        <3>3. QED
            BY <3>1, <3>2
    <2>3. QED
        BY <1>1, <1>3, <2>1, <2>2
<1>5. /\ TokensOK(queue', status', Wanted')
      /\ WaitingOK(waiting', status', Wanted')
      /\ \A n \in Modules: status[n] \notin Absent => status'[n] = status[n]
      /\ NotQueued(queue, o, m) => NotQueued(queue', o, m)
    <2>1. Fetch(o, d) /\ d \in Wanted'[o]
        BY <1>4 DEF EnqueueNew
    <2>2. \A p \in Imports: Wanted[p] \subseteq Wanted'[p]
        BY <1>4
    <2>3. QED
        BY <1>1, <1>4, <2>1, <2>2, FetchKeepsTokens DEF LoadInv
<1>6. LoopInv'
    <2>1. \A e: Covered(o, e) => Covered(o, e)'
        BY <1>1, <1>2 DEF Covered
    <2>2. Covered(o, d)'
        BY <1>1, <1>2 DEF Covered
    <2>3. /\ status'[m] \notin Absent /\ m \in Wanted'[o] /\ NotQueued(queue', o, m)
        BY <1>1, <1>4, <1>5 DEF LoadInv, LoopInv
    <2>4. QED
        BY <1>1, <2>1, <2>2, <2>3, LoopAdvances DEF EnqueueNew
<1>7. ProcessedInv'
    <2>1. ASSUME NEW p \in Imports, NEW n \in processed'[p]
          PROVE  /\ n \in seen'[p]
                 /\ status'[n] \notin Absent
                 /\ \A i \in DOMAIN depSpecs'[n]: Covered(p, depSpecs[n][i])'
        <3>1. n \in processed[p] /\ n \in Modules /\ seen[p] \subseteq seen'[p]
            BY <1>1, <1>2, <2>1 DEF TypeOK, OpsOK
        <3>2. QED
            BY <1>1, <1>5, <3>1 DEF LoadInv, ProcessedInv, Covered
    <2>2. QED
        BY <2>1 DEF ProcessedInv
<1>8. CountInv'
    <2>1. IsFiniteSet(Wanted[o])
        BY GraphConstants, FS_Subset, WantedAt DEF TypeOK, OpsOK
    <2>2. Cardinality(Wanted[o] \cup {d}) = Cardinality(Wanted[o]) + 1
        BY <1>4, <2>1, FS_AddElement
    <2>3. remaining'[o] = remaining[o] + 1
        <3>1. remaining[o] \in Nat
            BY <2>1, FS_CardinalityType DEF LoadInv, CountInv
        <3>2. remaining[o] # NaN
            BY <3>1, GraphConstants
        <3>3. QED
            BY <3>2 DEF EnqueueNew, Plus, TypeOK, OpsOK
    <2>4. ASSUME NEW p \in Imports
          PROVE  /\ remaining'[p] = Cardinality(Wanted'[p])
                 /\ graph'[p] = "none" => seen'[p] = {} /\ processed'[p] = {}
                 /\ graph'[p] # "none" => root'[p] \in seen'[p]
                 /\ graph'[p] = "pending" => Wanted'[p] # {}
                 /\ graph'[p] = "fulfilled" => Wanted'[p] = {}
        <3>1. CASE p = o
            BY <1>1, <1>2, <1>4, <2>2, <2>3, <3>1 DEF LoadInv, CountInv
        <3>2. CASE p # o
            BY <1>1, <1>2, <1>4, <3>2 DEF EnqueueNew, TypeOK, OpsOK, LoadInv, CountInv
        <3>3. QED
            BY <3>1, <3>2
    <2>5. QED
        BY <2>4 DEF CountInv
<1>9. QED
    BY <1>5, <1>6, <1>7, <1>8 DEF LoadInv

LEMMA EnqueueSeenKeeps ==
    ASSUME TypeOK, LoadInv, NEW o \in Imports, NEW m \in Modules,
           NEW d \in Modules, EnqueueSeen(o, m, d)
    PROVE  LoadInv'
<1>1. /\ loop # NoLoop /\ loop.op = o /\ loop.module = m
      /\ loop.next \in DOMAIN depSpecs[m] /\ depSpecs[m][loop.next] = d /\ d \in seen[o]
    BY DEF EnqueueSeen, AtDep
<1>2. UNCHANGED <<status, depSpecs, waiting, queue, root, seen, remaining, graph, processed>>
    BY DEF EnqueueSeen
<1>3. LoopInv'
    <2>1. /\ status'[m] \notin Absent /\ m \in Wanted'[o] /\ NotQueued(queue', o, m)
        BY <1>1, <1>2, WantedAt DEF LoadInv, LoopInv
    <2>2. /\ \A e: Covered(o, e) => Covered(o, e)'
          /\ Covered(o, d)'
        BY <1>1, <1>2 DEF Covered
    <2>3. QED
        BY <1>1, <1>2, <2>1, <2>2, LoopAdvances DEF EnqueueSeen
<1>4. ProcessedInv' /\ CountInv'
    BY <1>2, LoadsKept DEF LoadInv
<1>5. QED
    BY <1>2, <1>3, <1>4, WantedAt DEF LoadInv

LEMMA EnqueueUnresolvableKeeps ==
    ASSUME TypeOK, LoadInv, NEW o \in Imports, NEW m \in Modules,
           EnqueueUnresolvable(o, m), UNCHANGED refusals
    PROVE  LoadInv'
<1>1. /\ loop # NoLoop /\ loop.op = o /\ loop.module = m
      /\ AtDep(o, m, Unresolvable) /\ GraphFail(queue, o) /\ NextDep
      /\ UNCHANGED <<status, depSpecs, waiting, root, seen, remaining, processed>>
    BY DEF EnqueueUnresolvable, AtDep, Refuse, TypeOK
<1>2. /\ TokensOK(queue', status, Wanted)
      /\ \A p, n: NotQueued(queue, p, n) => NotQueued(queue', p, n)
      /\ graph[o] = "pending" => graph'[o] = "rejected"
      /\ \A p \in Imports: \/ graph'[p] = graph[p]
                           \/ graph[p] = "pending" /\ graph'[p] = "rejected"
    BY <1>1, GraphFailKeeps DEF LoadInv, TypeOK, OpsOK
<1>3. graph'[o] = "rejected"
    BY <1>1, <1>2, InLoop
<1>4. LoopInv'
    <2>1. /\ status'[m] \notin Absent /\ m \in Wanted'[o] /\ NotQueued(queue', o, m)
        BY <1>1, <1>2, WantedAt DEF LoadInv, LoopInv
    <2>2. \A e: Covered(o, e)'
        BY <1>3 DEF Covered
    <2>3. QED
        BY <1>1, <2>1, <2>2, LoopAdvances
<1>5. ProcessedInv' /\ CountInv'
    BY <1>1, <1>2, LoadsKept DEF LoadInv
<1>6. QED
    BY <1>1, <1>2, <1>4, <1>5, WantedAt DEF LoadInv

(* The module in the loop is done: nobody tells the load of it again, and  *)
(* the counter loses the one it stood for.                                 *)
LEMMA FinishKeeps ==
    ASSUME TypeOK, LoadInv, NEW o \in Imports, NEW m \in Modules, Finish(o, m)
    PROVE  LoadInv'
<1>1. /\ loop # NoLoop /\ loop.op = o /\ loop.module = m /\ loop' = NoLoop
      /\ loop.next \notin DOMAIN depSpecs[m] /\ loop.next \in Nat /\ loop.next # 0
      /\ UNCHANGED <<status, depSpecs, waiting, root, seen>>
      /\ m \in seen[o] /\ m \notin processed[o] /\ status[m] \notin Absent
      /\ graph[o] \in {"pending", "rejected"} /\ NotQueued(queue, o, m)
    BY InLoop DEF Finish, AtEnd, LoadInv, LoopInv
<1>2. /\ processed'[o] = processed[o] \cup {m}
      /\ \A p \in Imports \ {o}: processed'[p] = processed[p] /\ graph'[p] = graph[p]
                                    /\ remaining'[p] = remaining[p]
    BY DEF Finish, AtEnd, Settle, TypeOK, OpsOK
<1>3. \/ remaining[o] = 1 /\ graph[o] = "pending" /\ graph'[o] = "fulfilled"
      \/ remaining[o] = 1 /\ graph[o] = "rejected" /\ graph'[o] = "rejected"
      \/ remaining[o] # 1 /\ graph'[o] = graph[o]
    BY <1>1 DEF Finish, Settle, TypeOK, OpsOK
<1>4. queue' = queue \/ queue' = Append(queue, Loaded(o))
    BY DEF Finish, Settle
<1>5. Wanted'[o] = Wanted[o] \ {m} /\ m \in Wanted[o]
    <2>1. /\ Wanted[o] = seen[o] \ processed[o]
          /\ Wanted'[o] = seen[o] \ (processed[o] \cup {m})
        BY <1>1, <1>2, WantedAt
    <2>2. QED
        BY <1>1, <2>1
<1>6. ASSUME NEW p \in Imports \ {o}
      PROVE  Wanted'[p] = Wanted[p]
    <2>1. Wanted'[p] = seen'[p] \ processed'[p] /\ Wanted[p] = seen[p] \ processed[p]
        BY WantedAt
    <2>2. QED
        BY <1>1, <1>2, <2>1
<1>7. TokensOK(queue', status', Wanted')
    <2>1. ASSUME NEW p \in Imports, NEW n \in Wanted[p], ~NotQueued(queue, p, n)
          PROVE  n \in Wanted'[p]
        <3>1. p # o \/ n # m
            BY <1>1, <2>1
        <3>2. CASE p = o
            BY <1>5, <3>1, <3>2
        <3>3. CASE p # o
            BY <1>6, <3>3
        <3>4. QED
            BY <3>2, <3>3
    <2>2. TokensOK(queue, status, Wanted')
        <3>1. \A p \in Imports, n \in Modules:
                    n \in Wanted[p] /\ status[n] \notin Absent /\ ~NotQueued(queue, p, n)
                        => status[n] \notin Absent /\ n \in Wanted'[p]
            BY <2>1
        <3>2. TokensOK(queue, status, Wanted) /\ queue \in Seq(GraphJob)
            BY DEF LoadInv, TypeOK
        <3>3. QED
            BY <3>1, <3>2, TokensChange
    <2>3. TokensOK(Append(queue, Loaded(o)), status, Wanted')
        BY <2>2, TokensAppendOther, JobTypes, JobKinds DEF TypeOK
    <2>4. TokensOK(queue', status, Wanted')
        BY <1>4, <2>2, <2>3
    <2>5. QED
        BY <1>1, <2>4
<1>8. WaitingOK(waiting', status', Wanted')
    <2>1. ASSUME NEW n \in Modules, NEW k \in DOMAIN waiting[n]
          PROVE  n \in Wanted'[waiting[n][k]]
        <3>1. n \in Wanted[waiting[n][k]] /\ waiting[n][k] \in Imports
            BY DEF LoadInv, WaitingOK, TypeOK, RegistryOK
        <3>2. n # m
            BY <1>1, <2>1 DEF LoadInv, WaitingOK, Absent
        <3>3. QED
            BY <1>5, <1>6, <3>1, <3>2
    <2>2. QED
        BY <1>1, <2>1 DEF LoadInv, WaitingOK
<1>9. LoopInv'
    BY <1>1 DEF LoopInv
<1>10. ProcessedInv'
    <2>1. \A i \in DOMAIN depSpecs[m]: i < loop.next
        <3>1. depSpecs[m] \in Seq(Modules \cup {Unresolvable})
            BY DEF TypeOK, RegistryOK
        <3>2. Len(depSpecs[m]) \in Nat /\ DOMAIN depSpecs[m] = 1..Len(depSpecs[m])
            BY <3>1
        <3>3. QED
            BY <1>1, <3>2
    <2>2. \A p \in Imports: graph[p] = "rejected" => graph'[p] = "rejected"
        BY <1>2, <1>3
    <2>3. ASSUME NEW p \in Imports, NEW n \in processed'[p]
          PROVE  /\ n \in seen'[p]
                 /\ status'[n] \notin Absent
                 /\ \A i \in DOMAIN depSpecs'[n]: Covered(p, depSpecs[n][i])'
        <3>1. CASE p = o /\ n = m
            <4>1. \A i \in DOMAIN depSpecs[m]: Covered(o, depSpecs[m][i])
                BY <1>1, <2>1 DEF LoadInv, LoopInv
            <4>2. QED
                BY <1>1, <2>2, <3>1, <4>1 DEF Covered
        <3>2. CASE n \in processed[p]
            BY <1>1, <2>2, <3>2 DEF LoadInv, ProcessedInv, Covered
        <3>3. QED
            BY <1>2, <2>3, <3>1, <3>2
    <2>4. QED
        BY <2>3 DEF ProcessedInv
<1>11. CountInv'
    <2>1. IsFiniteSet(Wanted[o])
        BY GraphConstants, FS_Subset, WantedAt DEF TypeOK, OpsOK
    <2>2. /\ Cardinality(Wanted'[o]) = Cardinality(Wanted[o]) - 1
          /\ Cardinality(Wanted[o]) \in Nat /\ IsFiniteSet(Wanted'[o])
        BY <1>5, <2>1, FS_RemoveElement, FS_CardinalityType
    <2>3. remaining[o] = Cardinality(Wanted[o])
        BY DEF LoadInv, CountInv
    <2>4. remaining'[o] = remaining[o] - 1
        BY <2>2, <2>3, GraphConstants DEF Finish, Plus, TypeOK, OpsOK
    <2>5. remaining[o] = 1 <=> Wanted'[o] = {}
        BY <2>2, <2>3, FS_EmptySet
    <2>6. root'[o] \in seen'[o]
        BY <1>1 DEF LoadInv, CountInv
    <2>7. ASSUME NEW p \in Imports
          PROVE  /\ remaining'[p] = Cardinality(Wanted'[p])
                 /\ graph'[p] = "none" => seen'[p] = {} /\ processed'[p] = {}
                 /\ graph'[p] # "none" => root'[p] \in seen'[p]
                 /\ graph'[p] = "pending" => Wanted'[p] # {}
                 /\ graph'[p] = "fulfilled" => Wanted'[p] = {}
        <3>1. CASE p = o
            BY <1>1, <1>3, <2>2, <2>3, <2>4, <2>5, <2>6, <3>1
        <3>2. CASE p # o
            BY <1>1, <1>2, <1>6, <3>2 DEF LoadInv, CountInv
        <3>3. QED
            BY <3>1, <3>2
    <2>8. QED
        BY <2>7 DEF CountInv
<1>12. QED
    BY <1>7, <1>8, <1>9, <1>10, <1>11 DEF LoadInv

(* A job that tells an import of a fetch leaves the queue for the loop.    *)
LEMMA TakeFetchedKeeps ==
    ASSUME TypeOK, LoadInv, NEW o \in Imports, NEW m \in Modules, TakeFetched(o, m)
    PROVE  LoadInv'
<1>1. /\ queue # <<>> /\ queue \in Seq(GraphJob) /\ queue' = Tail(queue)
      /\ Head(queue) = Fetched(o, m)
      /\ loop' = [op |-> o, module |-> m, next |-> 1]
      /\ UNCHANGED <<status, depSpecs, waiting, root, seen, remaining, graph, processed>>
    BY DEF TakeFetched, NextJob, TypeOK
<1>2. /\ TokensOK(queue', status, Wanted) /\ NotQueued(queue', o, m)
    BY <1>1, TokensTail, JobKinds DEF LoadInv
<1>3. /\ status[m] \notin Absent /\ m \in Wanted[o]
    <2>1. 1 \in DOMAIN queue /\ queue[1] = Fetched(o, m)
        BY <1>1, TailAt
    <2>2. QED
        BY <2>1, JobKinds DEF LoadInv, TokensOK
<1>4. Wanted' = Wanted
    BY <1>1, WantedAt
<1>5. LoopInv'
    <2>1. \A i \in DOMAIN depSpecs[m]: ~(i < 1)
        BY DEF TypeOK, RegistryOK
    <2>2. QED
        BY <1>1, <1>2, <1>3, <1>4, <2>1 DEF LoopInv
<1>6. ProcessedInv' /\ CountInv'
    BY <1>1, LoadsKept DEF LoadInv
<1>7. QED
    BY <1>1, <1>2, <1>4, <1>5, <1>6 DEF LoadInv

LEMMA TakeFailedKeeps ==
    ASSUME TypeOK, LoadInv, NEW o \in Imports, TakeFailed(o), UNCHANGED refusals
    PROVE  LoadInv'
<1>1. /\ queue # <<>> /\ queue \in Seq(GraphJob) /\ GraphFail(Tail(queue), o)
      /\ loop = NoLoop
      /\ UNCHANGED <<status, depSpecs, waiting, loop, root, seen, remaining, processed>>
    BY DEF TakeFailed, NextJob, Refuse, TypeOK
<1>2. TokensOK(Tail(queue), status, Wanted) /\ Tail(queue) \in Seq(GraphJob)
    BY <1>1, TokensTail, TailAt DEF LoadInv
<1>3. /\ TokensOK(queue', status, Wanted)
      /\ \A p \in Imports: \/ graph'[p] = graph[p]
                           \/ graph[p] = "pending" /\ graph'[p] = "rejected"
    BY <1>1, <1>2, GraphFailKeeps DEF TypeOK, OpsOK
<1>4. ProcessedInv' /\ CountInv'
    BY <1>1, <1>3, LoadsKept DEF LoadInv
<1>5. LoopInv'
    BY <1>1 DEF LoopInv
<1>6. QED
    BY <1>1, <1>3, <1>4, <1>5, WantedAt DEF LoadInv

(* Steps of the host, of the loader and of the import itself.              *)
LEMMA OthersKeep ==
    ASSUME TypeOK, LoadInv,
           \/ \E o \in Imports: TakeRoot(o)
           \/ \E m \in Modules: LoaderSettles(m)
           \/ \E m \in Modules, later \in Later: Evaluation(m, later)
    PROVE  LoadInv'
<1>1. /\ queue \in Seq(GraphJob)
      /\ UNCHANGED <<depSpecs, waiting, loop, root, seen, remaining, graph, processed>>
    BY DEF TakeRoot, NextJob, LoaderSettles, Evaluation, TypeOK
<1>2. \A n \in Modules: /\ status[n] \notin Absent => status'[n] \notin Absent
                        /\ status[n] = "fetching" => status'[n] = "fetching"
    <2>1. CASE UNCHANGED status
        BY <2>1
    <2>2. CASE \E m \in Modules, later \in Later: Evaluation(m, later)
        BY <2>2, GraphConstants
           DEF Evaluation, Unsettled, Absent, TypeOK, RegistryOK
    <2>3. QED
        BY <2>1, <2>2 DEF TakeRoot, LoaderSettles
<1>3. /\ TokensOK(queue', status, Wanted)
      /\ \A p, n: NotQueued(queue, p, n) => NotQueued(queue', p, n)
    <2>1. CASE \E o \in Imports: TakeRoot(o)
        BY <1>1, <2>1, TokensTail DEF TakeRoot, NextJob, LoadInv
    <2>2. CASE \E m \in Modules: LoaderSettles(m)
        BY <1>1, <2>2, TokensAppendOther, JobTypes, JobKinds DEF LoaderSettles, LoadInv
    <2>3. CASE \E m \in Modules, later \in Later: Evaluation(m, later)
        BY <2>3 DEF Evaluation, LoadInv
    <2>4. QED
        BY <2>1, <2>2, <2>3
<1>4. TokensOK(queue', status', Wanted')
    <2>1. queue' \in Seq(GraphJob)
        BY <1>1, TailAt, AppendAt, JobTypes DEF TakeRoot, NextJob, LoaderSettles, Evaluation
    <2>2. Wanted' = Wanted
        BY <1>1, WantedAt
    <2>3. QED
        BY <1>2, <1>3, <2>1, <2>2, TokensChange
<1>5. WaitingOK(waiting', status', Wanted')
    BY <1>1, <1>2, WantedAt DEF LoadInv, WaitingOK
<1>6. ProcessedInv' /\ CountInv'
    BY <1>1, <1>2, LoadsKept DEF LoadInv
<1>7. LoopInv'
    <2>1. CASE loop = NoLoop
        BY <1>1, <2>1 DEF LoopInv
    <2>2. CASE loop # NoLoop
        <3>1. loop.module \in Modules /\ Wanted' = Wanted
            BY <1>1, <2>2, InLoop, WantedAt
        <3>2. QED
            BY <1>1, <1>2, <1>3, <2>2, <3>1 DEF LoadInv, LoopInv, Covered
    <2>3. QED
        BY <2>1, <2>2
<1>8. QED
    BY <1>4, <1>5, <1>6, <1>7 DEF LoadInv

(* The fetch promise of m settles: whoever waited for it is told, once.    *)
LEMMA TakeAnsweredKeeps ==
    ASSUME TypeOK, RequestInv, LoadInv, NEW m \in Modules, TakeAnswered(m)
    PROVE  LoadInv'
<1> DEFINE t == Tail(queue)
           w == waiting[m]
<1>1. /\ queue # <<>> /\ queue \in Seq(GraphJob) /\ loop = NoLoop
      /\ IsAnswer(Head(queue)) /\ Head(queue).module = m
      /\ UNCHANGED <<loop, root, seen, remaining, graph, processed>>
    BY DEF TakeAnswered, NextJob, IsAnswer, TypeOK
<1>2. status[m] = "fetching"
    BY <1>1, TailAt DEF RequestInv, AnswersOK
<1>3. PICK ok \in BOOLEAN: Wake(m, ok)
    BY DEF TakeAnswered, Loads, Adopts, FailsToLoad
<1>4. /\ status'[m] \notin Absent
      /\ \A n \in Modules \ {m}: status'[n] = status[n] /\ depSpecs'[n] = depSpecs[n]
    BY DEF TakeAnswered, Loads, Adopts, FailsToLoad, TypeOK, RegistryOK, Absent
<1>5. /\ DOMAIN t = 1..Len(t) /\ Len(t) \in Nat /\ Len(w) \in Nat
      /\ DOMAIN queue' = 1..(Len(t) + Len(w))
      /\ \A i \in 1..Len(t): queue'[i] = t[i]
      /\ \A i \in 1..Len(w):
            queue'[Len(t) + i] = IF ok THEN Fetched(w[i], m) ELSE Failed(w[i], m)
    BY <1>1, <1>3, WakeAt
<1>6. w \in Seq(Imports)
    BY DEF TypeOK, RegistryOK
<1>7. /\ \A k \in 1..Len(w): m \in Wanted[w[k]]
      /\ \A k, l \in 1..Len(w): w[k] = w[l] => k = l
    BY <1>6 DEF LoadInv, WaitingOK
<1>8. /\ TokensOK(t, status, Wanted)
      /\ \A i \in DOMAIN t: IsToken(t[i]) => t[i].module \in Modules /\ t[i].module # m
    <2>1. TokensOK(t, status, Wanted) /\ t \in Seq(GraphJob)
        BY <1>1, TokensTail, TailAt DEF LoadInv
    <2>2. QED
        BY <1>2, <2>1, TokenTypes DEF TokensOK, Absent
<1> HIDE DEF t, w
<1>9. \A i \in DOMAIN queue':
            \/ i \in DOMAIN t /\ queue'[i] = t[i]
            \/ \E k \in 1..Len(w): /\ i = Len(t) + k
                                   /\ queue'[i].module = m /\ queue'[i].op = w[k]
    <2>1. ASSUME NEW i \in DOMAIN queue', i \notin 1..Len(t)
          PROVE  \E k \in 1..Len(w): /\ i = Len(t) + k
                                     /\ queue'[i].module = m /\ queue'[i].op = w[k]
        <3>1. PICK k \in 1..Len(w): i = Len(t) + k
            <4>1. i - Len(t) \in 1..Len(w) /\ i = Len(t) + (i - Len(t))
                BY <1>5, <2>1
            <4>2. QED
                BY <4>1
        <3>2. queue'[i] = Fetched(w[k], m) \/ queue'[i] = Failed(w[k], m)
            BY <1>5, <3>1
        <3>3. queue'[i].module = m /\ queue'[i].op = w[k]
            BY <3>2, JobKinds
        <3>4. QED
            BY <3>1, <3>3
    <2>2. QED
        BY <1>5, <2>1
<1>10. TokensOK(queue', status', Wanted)
    <2>1. ASSUME NEW i \in DOMAIN queue', IsToken(queue'[i])
          PROVE  /\ status'[queue'[i].module] \notin Absent
                 /\ queue'[i].module \in Wanted[queue'[i].op]
                 /\ \A j \in DOMAIN queue':
                        /\ IsToken(queue'[j])
                        /\ queue'[j].module = queue'[i].module
                        /\ queue'[j].op = queue'[i].op
                        => j = i
        <3>1. CASE i \in DOMAIN t /\ queue'[i] = t[i]
            <4>1. t[i].module \in Modules \ {m} /\ IsToken(t[i])
                BY <1>8, <2>1, <3>1
            <4>2. \A j \in DOMAIN queue':
                        queue'[j].module = queue'[i].module =>
                            j \in DOMAIN t /\ queue'[j] = t[j]
                BY <1>9, <3>1, <4>1
            <4>3. status'[t[i].module] = status[t[i].module]
                BY <1>4, <4>1
            <4>4. QED
                BY <1>8, <3>1, <4>1, <4>2, <4>3 DEF TokensOK
        <3>2. CASE \E k \in 1..Len(w): /\ i = Len(t) + k
                                       /\ queue'[i].module = m /\ queue'[i].op = w[k]
            <4>1. PICK k \in 1..Len(w): /\ i = Len(t) + k
                                       /\ queue'[i].module = m /\ queue'[i].op = w[k]
                BY <3>2
            <4>2. ASSUME NEW j \in DOMAIN queue', IsToken(queue'[j]),
                         queue'[j].module = m, queue'[j].op = w[k]
                  PROVE  j = i
                <5>1. ~(j \in DOMAIN t /\ queue'[j] = t[j])
                    BY <1>8, <4>2
                <5>2. PICK l \in 1..Len(w): j = Len(t) + l /\ queue'[j].op = w[l]
                    BY <1>9, <5>1
                <5>3. QED
                    BY <1>7, <4>1, <4>2, <5>2
            <4>3. QED
                BY <1>4, <1>7, <4>1, <4>2
        <3>3. QED
            BY <1>9, <3>1, <3>2
    <2>2. QED
        BY <2>1 DEF TokensOK
<1>11. Wanted' = Wanted
    BY <1>1, WantedAt
<1>12. WaitingOK(waiting', status', Wanted')
    <2>1. waiting' = [waiting EXCEPT ![m] = <<>>]
        BY <1>3 DEF Wake
    <2>2. waiting'[m] = <<>> /\ \A n \in Modules \ {m}: waiting'[n] = waiting[n]
        BY <2>1 DEF TypeOK, RegistryOK
    <2>3. QED
        BY <1>4, <1>11, <2>2 DEF LoadInv, WaitingOK
<1>13. ProcessedInv' /\ CountInv'
    <2>1. \A n \in Modules: status[n] \notin Absent =>
                status'[n] \notin Absent /\ depSpecs'[n] = depSpecs[n]
        BY <1>2, <1>4 DEF Absent
    <2>2. QED
        BY <1>1, <2>1, LoadsKept DEF LoadInv
<1>14. LoopInv'
    BY <1>1 DEF LoopInv
<1>15. QED
    BY <1>10, <1>11, <1>12, <1>13, <1>14 DEF LoadInv

(* A refusal is never taken back, and none has happened yet.               *)
LEMMA NoRefusal ==
    ASSUME TypeOK, [Next]_vars, refusals' = 0
    PROVE  refusals = 0 /\ ~Refuse
<1>1. ~Refuse
    BY DEF Refuse, TypeOK
<1>2. UNCHANGED refusals
    BY <1>1 DEF Next, OpStep, vars, Import, ImportRefused, ImportSpoilt, TakeFetched,
        EnqueueUnresolvable, EnqueueSeen, EnqueueNew, EnqueueRefused,
        EnqueueUncounted, Finish, FinishRefused, TakeFailed, TakeRoot,
        LoaderSettles, TakeAnswered, Evaluation
<1>3. QED
    BY <1>1, <1>2

LEMMA GraphStep ==
    ASSUME TypeOK, RequestInv, GraphInv, [Next]_vars
    PROVE  GraphInv'
<1> SUFFICES ASSUME refusals' = 0
             PROVE  LoadInv'
    BY DEF GraphInv
<1>1. LoadInv /\ ~Refuse /\ UNCHANGED refusals
    BY NoRefusal DEF GraphInv
<1>2. ASSUME NEW o \in Imports, NEW m \in Modules, OpStep(o, m)
      PROVE  LoadInv'
    <2>1. CASE Import(o, m)
        BY <1>1, <2>1, ImportKeeps
    <2>2. CASE ImportRefused(o, m) \/ ImportSpoilt(o, m) \/ FinishRefused(o, m)
        BY <1>1, <2>2 DEF ImportRefused, ImportSpoilt, FinishRefused
    <2>3. CASE TakeFetched(o, m)
        BY <1>1, <2>3, TakeFetchedKeeps
    <2>4. CASE EnqueueUnresolvable(o, m)
        BY <1>1, <2>4, EnqueueUnresolvableKeeps
    <2>5. ASSUME NEW d \in Modules, EnqueueSeen(o, m, d)
          PROVE  LoadInv'
        BY <1>1, <2>5, EnqueueSeenKeeps
    <2>6. ASSUME NEW d \in Modules, EnqueueNew(o, m, d)
          PROVE  LoadInv'
        BY <1>1, <2>6, EnqueueNewKeeps
    <2>7. ASSUME NEW d \in Modules, EnqueueRefused(o, m, d) \/ EnqueueUncounted(o, m, d)
          PROVE  FALSE
        BY <1>1, <2>7 DEF EnqueueRefused, EnqueueUncounted
    <2>8. CASE Finish(o, m)
        BY <1>1, <2>8, FinishKeeps
    <2>9. QED
        BY <1>2, <2>1, <2>2, <2>3, <2>4, <2>5, <2>6, <2>7, <2>8 DEF OpStep
<1>3. ASSUME NEW o \in Imports, TakeFailed(o)
      PROVE  LoadInv'
    BY <1>1, <1>3, TakeFailedKeeps
<1>4. ASSUME NEW m \in Modules, TakeAnswered(m)
      PROVE  LoadInv'
    BY <1>1, <1>4, TakeAnsweredKeeps
<1>5. CASE \/ \E o \in Imports: TakeRoot(o)
           \/ \E m \in Modules: LoaderSettles(m)
           \/ \E m \in Modules, later \in Later: Evaluation(m, later)
    BY <1>1, <1>5, OthersKeep
<1>6. CASE UNCHANGED vars
    <2>1. ProcessedInv' /\ CountInv'
        BY <1>1, <1>6, LoadsKept DEF vars, LoadInv
    <2>2. Wanted' = Wanted
        BY <1>6, WantedAt DEF vars
    <2>3. LoopInv'
        BY <1>1, <1>6, <2>2 DEF vars, LoadInv, LoopInv, NotQueued, Covered
    <2>4. QED
        BY <1>1, <1>6, <2>1, <2>2, <2>3 DEF vars, LoadInv
<1>7. QED
    BY <1>2, <1>3, <1>4, <1>5, <1>6 DEF Next

LEMMA LoadsInvariant == Spec => [](TypeOK /\ RequestInv /\ GraphInv)
<1>1. Init => LoadInv
    <2>1. Init => \A o \in Imports: Wanted[o] = {}
        BY DEF Init, Wanted
    <2>2. Cardinality({}) = 0
        BY FS_EmptySet
    <2>3. Init => CountInv
        BY <2>1, <2>2 DEF Init, CountInv
    <2>4. Init => TokensOK(queue, status, Wanted) /\ WaitingOK(waiting, status, Wanted)
        BY DEF Init, TokensOK, WaitingOK
    <2>5. Init => LoopInv /\ ProcessedInv
        BY DEF Init, LoopInv, ProcessedInv
    <2>6. QED
        BY <2>3, <2>4, <2>5 DEF LoadInv
<1>2. Init => GraphInv
    BY <1>1 DEF GraphInv
<1>3. TypeOK /\ RequestInv /\ GraphInv /\ [Next]_vars => GraphInv'
    BY GraphStep
<1>4. QED
    BY <1>2, <1>3, RequestsInvariant, PTL DEF Spec

(* Without refused allocations a graph load fulfils only when everything   *)
(* reachable from its root was fetched and enqueued, for every registry    *)
(* and every interleaving of the imports that share it.                    *)
THEOREM GraphLoadsComplete == Spec => []GraphComplete
<1>1. TypeOK /\ GraphInv => GraphComplete
    <2> SUFFICES ASSUME TypeOK, LoadInv, NEW o \in Imports, graph[o] = "fulfilled"
                 PROVE  /\ root[o] \in seen[o]
                        /\ seen[o] = processed[o]
                        /\ \A m \in seen[o]:
                            /\ status[m] \notin Absent
                            /\ \A i \in DOMAIN depSpecs[m]: depSpecs[m][i] \in seen[o]
        BY DEF GraphInv, GraphComplete, Absent
    <2>1. root[o] \in seen[o]
        BY DEF LoadInv, CountInv
    <2>2. seen[o] \subseteq processed[o]
        BY WantedAt DEF LoadInv, CountInv
    <2>3. processed[o] \subseteq seen[o]
        BY DEF LoadInv, ProcessedInv
    <2>4. \A m \in seen[o]:
                /\ status[m] \notin Absent
                /\ \A i \in DOMAIN depSpecs[m]: depSpecs[m][i] \in seen[o]
        BY <2>2 DEF LoadInv, ProcessedInv, Covered
    <2>5. QED
        BY <2>1, <2>2, <2>3, <2>4
<1>2. QED
    BY <1>1, LoadsInvariant, PTL

-----------------------------------------------------------------------------
(* No import is stranded                                                   *)

(* What is in a queue stays in it behind an append, and behind the removal *)
(* of another head.                                                        *)
LEMMA AppendDelivers ==
    ASSUME NEW q \in Seq(GraphJob), NEW x \in GraphJob
    PROVE  /\ \A o, m: NotQueued(Append(q, x), o, m) => NotQueued(q, o, m)
           /\ \A m: AnswerQueued(q, m) => AnswerQueued(Append(q, x), m)
           /\ \A m: x = Answered(m) => AnswerQueued(Append(q, x), m)
           /\ \A o, m: NotQueued(Append(q, x), o, m) =>
                    ~(IsToken(x) /\ x.op = o /\ x.module = m)
<1> DEFINE r == Append(q, x)
<1>1. /\ \A i \in DOMAIN q: i \in DOMAIN r /\ r[i] = q[i]
      /\ Len(q) + 1 \in DOMAIN r /\ r[Len(q) + 1] = x
    BY AppendAt
<1> HIDE DEF r
<1>2. \A o, m: NotQueued(r, o, m) => NotQueued(q, o, m)
    BY <1>1 DEF NotQueued
<1>3. \A m: AnswerQueued(q, m) => AnswerQueued(r, m)
    BY <1>1 DEF AnswerQueued
<1>4. \A m: x = Answered(m) => AnswerQueued(r, m)
    BY <1>1 DEF AnswerQueued
<1>5. \A o, m: NotQueued(r, o, m) => ~(IsToken(x) /\ x.op = o /\ x.module = m)
    BY <1>1 DEF NotQueued
<1>6. QED
    BY <1>2, <1>3, <1>4, <1>5 DEF r

LEMMA TailDelivers ==
    ASSUME NEW q \in Seq(GraphJob), q # <<>>
    PROVE  /\ \A o, m: NotQueued(Tail(q), o, m) /\ ~NotQueued(q, o, m) =>
                    IsToken(Head(q)) /\ Head(q).op = o /\ Head(q).module = m
           /\ \A m: AnswerQueued(q, m) =>
                    AnswerQueued(Tail(q), m) \/ Head(q) = Answered(m)
<1> DEFINE r == Tail(q)
<1>1. \A i \in DOMAIN q: i = 1 \/ (i - 1 \in DOMAIN r /\ r[i - 1] = q[i])
    OBVIOUS
<1>2. Head(q) = q[1]
    BY TailAt
<1> HIDE DEF r
<1>3. \A o, m: NotQueued(r, o, m) /\ ~NotQueued(q, o, m) =>
            IsToken(Head(q)) /\ Head(q).op = o /\ Head(q).module = m
    <2>1. ASSUME NEW o, NEW m, NotQueued(r, o, m), ~NotQueued(q, o, m)
          PROVE  IsToken(Head(q)) /\ Head(q).op = o /\ Head(q).module = m
        <3>1. PICK i \in DOMAIN q: IsToken(q[i]) /\ q[i].op = o /\ q[i].module = m
            BY <2>1 DEF NotQueued
        <3>2. i = 1
            BY <1>1, <2>1, <3>1 DEF NotQueued
        <3>3. QED
            BY <1>2, <3>1, <3>2
    <2>2. QED
        BY <2>1
<1>4. \A m: AnswerQueued(q, m) => AnswerQueued(r, m) \/ Head(q) = Answered(m)
    BY <1>1, <1>2 DEF AnswerQueued
<1>5. QED
    BY <1>3, <1>4 DEF r

(* A fetch is answered, and keeps what is on its way.                      *)
LEMMA FetchDelivers ==
    ASSUME TypeOK, ArrivesInv, NEW o \in Imports, NEW m \in Modules, Fetch(o, m)
    PROVE  /\ Waits(waiting', o, m) \/ ~NotQueued(queue', o, m)
           /\ \A p \in Imports, n \in Modules:
                    /\ Waits(waiting, p, n) => Waits(waiting', p, n)
                    /\ NotQueued(queue', p, n) => NotQueued(queue, p, n)
           /\ \A n \in Modules:
                    status'[n] = "fetching" => n \in asked' \/ AnswerQueued(queue', n)
<1> queue \in Seq(GraphJob) /\ status \in [Modules -> Statuses]
        /\ waiting \in [Modules -> Seq(Imports)]
    BY DEF TypeOK, RegistryOK
<1>1. ASSUME waiting' = [waiting EXCEPT ![m] = Append(@, o)]
      PROVE  /\ Waits(waiting', o, m)
             /\ \A p \in Imports, n \in Modules: Waits(waiting, p, n) => Waits(waiting', p, n)
    <2>1. /\ waiting'[m] = Append(waiting[m], o) /\ waiting[m] \in Seq(Imports)
          /\ \A n \in Modules \ {m}: waiting'[n] = waiting[n]
        BY <1>1
    <2>2. /\ Len(waiting[m]) + 1 \in DOMAIN waiting'[m]
          /\ waiting'[m][Len(waiting[m]) + 1] = o
          /\ \A k \in DOMAIN waiting[m]:
                k \in DOMAIN waiting'[m] /\ waiting'[m][k] = waiting[m][k]
        BY <2>1
    <2>3. QED
        BY <2>1, <2>2 DEF Waits
<1>2. CASE FetchStarts(o, m)
    <2>1. PICK style \in {"later", "now"}:
                Request(m, style) /\ queue' = WithAnswer(m, style)
        BY <1>2, GraphConstants DEF FetchStarts, Styles
    <2>2. /\ \A p, n: NotQueued(queue', p, n) => NotQueued(queue, p, n)
          /\ \A n: AnswerQueued(queue, n) => AnswerQueued(queue', n)
          /\ style = "now" => AnswerQueued(queue', m)
        BY <2>1, AppendDelivers, JobTypes DEF WithAnswer
    <2>3. \A n \in Modules:
                status'[n] = "fetching" => n \in asked' \/ AnswerQueued(queue', n)
        BY <2>1, <2>2 DEF Request, ArrivesInv
    <2>4. waiting' = [waiting EXCEPT ![m] = Append(@, o)]
        BY <1>2 DEF FetchStarts
    <2>5. QED
        BY <1>1, <2>2, <2>3, <2>4
<1>3. CASE FetchFails(o, m) \/ FetchKnown(o, m)
    <2>1. PICK x \in {Fetched(o, m), Failed(o, m)}: queue' = Append(queue, x)
        BY <1>3 DEF FetchFails, FetchKnown
    <2>2. x \in GraphJob /\ IsToken(x) /\ x.op = o /\ x.module = m
        BY JobTypes, JobKinds
    <2>3. /\ \A p, n: NotQueued(queue', p, n) => NotQueued(queue, p, n)
          /\ \A n: AnswerQueued(queue, n) => AnswerQueued(queue', n)
          /\ ~NotQueued(queue', o, m)
        BY <2>1, <2>2, AppendDelivers
    <2>4. \A n \in Modules:
                status'[n] = "fetching" => status[n] = "fetching"
        BY <1>3 DEF FetchFails, FetchKnown, Request
    <2>5. waiting' = waiting /\ asked' = asked
        BY <1>3 DEF FetchFails, FetchKnown, Request
    <2>6. QED
        BY <2>3, <2>4, <2>5 DEF ArrivesInv
<1>4. CASE FetchJoins(o, m)
    <2>1. /\ UNCHANGED <<status, asked, queue>>
          /\ waiting' = [waiting EXCEPT ![m] = Append(@, o)]
        BY <1>4 DEF FetchJoins
    <2>2. QED
        BY <1>1, <2>1 DEF ArrivesInv
<1>5. QED
    BY <1>2, <1>3, <1>4 DEF Fetch

(* A step that starts no fetch and loses nothing that is on its way.       *)
LEMMA ArrivesKept ==
    ASSUME ArrivesInv,
           \A p \in Imports: graph'[p] = "pending" =>
                /\ graph[p] = "pending"
                /\ \A n \in Wanted'[p]:
                        n \in Wanted[p] /\ (OnItsWay(p, n) => OnItsWay(p, n)'),
           \A n \in Modules: status'[n] = "fetching" =>
                /\ status[n] = "fetching"
                /\ n \in asked \/ AnswerQueued(queue, n) =>
                        n \in asked' \/ AnswerQueued(queue', n)
    PROVE  ArrivesInv'
BY DEF ArrivesInv

(* A step that starts a fetch of m for o.                                  *)
LEMMA FetchArrives ==
    ASSUME TypeOK, ArrivesInv, NEW o \in Imports, NEW m \in Modules, Fetch(o, m),
           \A p \in Imports, n \in Modules:
                graph'[p] = "pending" /\ n \in Wanted'[p] =>
                    \/ p = o /\ n = m
                    \/ graph[p] = "pending" /\ n \in Wanted[p],
           \A p, n: (loop # NoLoop /\ loop.module = n /\ loop.op = p) =>
                    loop' # NoLoop /\ loop'.module = n /\ loop'.op = p,
           \A p \in Imports: Wanted'[p] \subseteq Modules
    PROVE  ArrivesInv'
<1>1. ASSUME NEW p \in Imports, graph'[p] = "pending", NEW n \in Wanted'[p]
      PROVE  OnItsWay(p, n)'
    <2>1. n \in Modules
        BY <1>1
    <2>2. CASE p = o /\ n = m
        BY <2>1, <2>2, FetchDelivers DEF OnItsWay
    <2>3. CASE graph[p] = "pending" /\ n \in Wanted[p]
        <3>1. OnItsWay(p, n)
            BY <2>3 DEF ArrivesInv
        <3>2. QED
            BY <2>1, <3>1, FetchDelivers DEF OnItsWay
    <2>4. QED
        BY <1>1, <2>1, <2>2, <2>3
<1>2. QED
    BY <1>1, FetchDelivers DEF ArrivesInv

(* The loop goes on with the same module, for the same import.             *)
LEMMA LoopGoesOn ==
    ASSUME TypeOK, loop # NoLoop, NextDep
    PROVE  loop' # NoLoop /\ loop'.module = loop.module /\ loop'.op = loop.op
<1>1. loop \in [op: Imports, module: Modules, next: Nat]
    BY DEF TypeOK, Loops
<1>2. loop' = [loop EXCEPT !.next = @ + 1]
    BY DEF NextDep
<1>3. loop'.module = loop.module /\ loop'.op = loop.op
    BY <1>1, <1>2
<1>4. loop' # NoLoop
    BY <1>1, <1>2, GraphConstants DEF Loops
<1>5. QED
    BY <1>3, <1>4

LEMMA QuietArrives ==
    ASSUME TypeOK, ArrivesInv, NEW o \in Imports, NEW m \in Modules,
           \/ \E d \in Modules: EnqueueSeen(o, m, d)
           \/ EnqueueUnresolvable(o, m) /\ UNCHANGED refusals
           \/ Finish(o, m)
    PROVE  ArrivesInv'
<1>1. /\ UNCHANGED <<status, asked, waiting, seen>>
      /\ queue' = queue \/ \E x \in GraphJob: queue' = Append(queue, x)
      /\ \A p \in Imports: graph'[p] = "pending" => graph[p] = "pending"
    <2>1. \A p \in Imports: graph'[p] = "pending" => graph[p] = "pending"
        BY DEF EnqueueSeen, EnqueueUnresolvable, Refuse, Finish, GraphFail, Settle, TypeOK, OpsOK
    <2>2. queue' = queue \/ \E x \in GraphJob: queue' = Append(queue, x)
        BY JobTypes DEF EnqueueSeen, EnqueueUnresolvable, Refuse, Finish, GraphFail,
            Settle, TypeOK
    <2>3. QED
        BY <2>1, <2>2 DEF EnqueueSeen, EnqueueUnresolvable, Finish
<1>2. /\ \A p, n: NotQueued(queue', p, n) => NotQueued(queue, p, n)
      /\ \A n: AnswerQueued(queue, n) => AnswerQueued(queue', n)
    BY <1>1, AppendDelivers DEF TypeOK
<1>3. ASSUME NEW p \in Imports, NEW n \in Wanted'[p]
      PROVE  n \in Wanted[p] /\ (OnItsWay(p, n) => OnItsWay(p, n)')
    <2>1. CASE NextDep /\ processed' = processed /\ loop # NoLoop
        <3>1. Wanted' = Wanted
            BY <1>1, <2>1, WantedAt
        <3>2. loop' # NoLoop /\ loop'.module = loop.module /\ loop'.op = loop.op
            BY <2>1, LoopGoesOn
        <3>3. QED
            BY <1>1, <1>2, <1>3, <3>1, <3>2 DEF OnItsWay, Waits
    <2>2. CASE Finish(o, m)
        <3>1. /\ loop # NoLoop => loop.op = o /\ loop.module = m
              /\ m \in processed'[o]
              /\ processed[p] \subseteq processed'[p]
            BY <2>2 DEF Finish, AtEnd, TypeOK, OpsOK
        <3>2. n \in seen[p] /\ n \notin processed'[p]
            BY <1>1, <1>3, WantedAt
        <3>3. n \in Wanted[p]
            BY <3>1, <3>2, WantedAt
        <3>4. ~(loop # NoLoop /\ loop.module = n /\ loop.op = p)
            BY <3>1, <3>2
        <3>5. QED
            BY <1>1, <1>2, <3>3, <3>4 DEF OnItsWay, Waits
    <2>3. QED
        BY <2>1, <2>2 DEF EnqueueSeen, EnqueueUnresolvable, Refuse, AtDep, TypeOK
<1>4. QED
    BY <1>1, <1>2, <1>3, ArrivesKept

LEMMA TakeArrives ==
    ASSUME TypeOK, RequestInv, ArrivesInv,
           \/ \E o \in Imports, m \in Modules: TakeFetched(o, m)
           \/ \E o \in Imports: TakeFailed(o) /\ UNCHANGED refusals
           \/ \E o \in Imports: TakeRoot(o)
    PROVE  ArrivesInv'
<1>1. /\ queue # <<>> /\ queue \in Seq(GraphJob) /\ loop = NoLoop
      /\ UNCHANGED <<status, asked, waiting, seen, processed>>
      /\ Head(queue).kind # "answered"
    BY DEF TakeFetched, TakeFailed, TakeRoot, NextJob, Fetched, TypeOK
<1>2. \A n: AnswerQueued(queue, n) => AnswerQueued(queue', n)
    <2>1. \A n: Head(queue) # Answered(n)
        BY <1>1 DEF Answered
    <2>2. \A n: AnswerQueued(queue, n) => AnswerQueued(Tail(queue), n)
        BY <1>1, <2>1, TailDelivers
    <2>3. queue' = Tail(queue) \/ \E x \in GraphJob: queue' = Append(Tail(queue), x)
        BY JobTypes DEF TakeFetched, TakeFailed, TakeRoot, GraphFail, Settle, Refuse, TypeOK
    <2>4. Tail(queue) \in Seq(GraphJob)
        BY <1>1, TailAt
    <2>5. QED
        BY <2>2, <2>3, <2>4, AppendDelivers
<1>3. ASSUME NEW p \in Imports, graph'[p] = "pending", NEW n \in Wanted[p],
             OnItsWay(p, n), graph[p] = "pending"
      PROVE  OnItsWay(p, n)'
    <2>1. CASE Waits(waiting, p, n)
        BY <1>1, <2>1 DEF OnItsWay, Waits
    <2>2. CASE ~NotQueued(Tail(queue), p, n)
        <3>1. Tail(queue) \in Seq(GraphJob)
            BY <1>1, TailAt
        <3>2. queue' = Tail(queue) \/ \E x \in GraphJob: queue' = Append(Tail(queue), x)
            BY JobTypes DEF TakeFetched, TakeFailed, TakeRoot, GraphFail, Settle, Refuse, TypeOK
        <3>3. ~NotQueued(queue', p, n)
            BY <2>2, <3>1, <3>2, AppendDelivers
        <3>4. QED
            BY <3>3 DEF OnItsWay
    <2>3. CASE /\ ~NotQueued(queue, p, n)
               /\ IsToken(Head(queue)) /\ Head(queue).op = p /\ Head(queue).module = n
        <3>1. CASE \E o \in Imports, m \in Modules: TakeFetched(o, m)
            <4>1. PICK o \in Imports, m \in Modules: TakeFetched(o, m)
                BY <3>1
            <4>2. o = p /\ m = n
                BY <2>3, <4>1, JobKinds DEF TakeFetched
            <4>3. loop' = [op |-> p, module |-> n, next |-> 1]
                BY <4>1, <4>2 DEF TakeFetched
            <4>4. loop' # NoLoop
                BY <4>1, <4>2, <4>3, GraphConstants DEF Loops
            <4>5. QED
                BY <4>3, <4>4 DEF OnItsWay
        <3>2. CASE \E o \in Imports: TakeFailed(o) /\ UNCHANGED refusals
            <4>1. GraphFail(Tail(queue), p)
                BY <2>3, <3>2 DEF TakeFailed, Refuse, TypeOK
            <4>2. graph'[p] = "rejected"
                BY <1>3, <4>1 DEF GraphFail, Settle, TypeOK, OpsOK
            <4>3. QED
                BY <1>3, <4>2
        <3>3. CASE \E o \in Imports: TakeRoot(o)
            BY <2>3, <3>3 DEF TakeRoot, NextJob, IsToken
        <3>4. QED
            BY <3>1, <3>2, <3>3
    <2>4. QED
        BY <1>1, <1>3, <2>1, <2>2, <2>3, TailDelivers DEF OnItsWay
<1>4. \A p \in Imports: graph'[p] = "pending" => graph[p] = "pending"
    BY DEF TakeFetched, TakeFailed, TakeRoot, GraphFail, Settle, Refuse, TypeOK, OpsOK
<1>5. Wanted' = Wanted
    BY <1>1, WantedAt
<1>6. QED
    BY <1>1, <1>2, <1>3, <1>4, <1>5, ArrivesKept

LEMMA HostArrives ==
    ASSUME TypeOK, ArrivesInv,
           \/ \E m \in Modules: LoaderSettles(m)
           \/ \E m \in Modules, later \in Later: Evaluation(m, later)
    PROVE  ArrivesInv'
<1>1. CASE \E m \in Modules: LoaderSettles(m)
    <2>1. PICK m \in Modules: LoaderSettles(m)
        BY <1>1
    <2>2. /\ queue' = Append(queue, Answered(m)) /\ asked' = asked \ {m}
          /\ UNCHANGED <<status, waiting, loop, seen, processed, graph>>
        BY <2>1 DEF LoaderSettles
    <2>3. /\ \A p, n: NotQueued(queue', p, n) => NotQueued(queue, p, n)
          /\ \A n: AnswerQueued(queue, n) => AnswerQueued(queue', n)
          /\ AnswerQueued(queue', m)
        BY <2>2, AppendDelivers, JobTypes DEF TypeOK
    <2>4. \A p, n: OnItsWay(p, n) => OnItsWay(p, n)'
        BY <2>2, <2>3 DEF OnItsWay, Waits
    <2>5. Wanted' = Wanted
        BY <2>2, WantedAt
    <2>6. QED
        BY <2>2, <2>3, <2>4, <2>5, ArrivesKept
<1>2. CASE \E m \in Modules, later \in Later: Evaluation(m, later)
    <2>1. UNCHANGED <<asked, waiting, queue, loop, seen, processed, graph>>
        BY <1>2 DEF Evaluation
    <2>2. \A n \in Modules: status'[n] = "fetching" => status[n] = "fetching"
        BY <1>2, GraphConstants DEF Evaluation, Unsettled, TypeOK, RegistryOK
    <2>3. \A p, n: OnItsWay(p, n) => OnItsWay(p, n)'
        BY <2>1 DEF OnItsWay, Waits
    <2>4. Wanted' = Wanted
        BY <2>1, WantedAt
    <2>5. QED
        BY <2>1, <2>2, <2>3, <2>4, ArrivesKept
<1>3. QED
    BY <1>1, <1>2

LEMMA TakeAnsweredArrives ==
    ASSUME TypeOK, RequestInv, LoadInv, ArrivesInv, NEW m \in Modules, TakeAnswered(m)
    PROVE  ArrivesInv'
<1> DEFINE t == Tail(queue)
           w == waiting[m]
<1>1. /\ queue # <<>> /\ queue \in Seq(GraphJob) /\ loop = NoLoop
      /\ IsAnswer(Head(queue)) /\ Head(queue).module = m
      /\ UNCHANGED <<loop, asked, seen, processed, graph>>
    BY DEF TakeAnswered, NextJob, IsAnswer, TypeOK
<1>2. PICK ok \in BOOLEAN: Wake(m, ok)
    BY DEF TakeAnswered, Loads, Adopts, FailsToLoad
<1>3. /\ status'[m] # "fetching" /\ \A n \in Modules \ {m}: status'[n] = status[n]
      /\ \A n \in Modules \ {m}: waiting'[n] = waiting[n]
    BY <1>2 DEF TakeAnswered, Loads, Adopts, FailsToLoad, Wake, TypeOK, RegistryOK
<1>4. /\ t \in Seq(GraphJob) /\ DOMAIN t = 1..Len(t) /\ Len(t) \in Nat /\ Len(w) \in Nat
      /\ DOMAIN queue' = 1..(Len(t) + Len(w))
      /\ \A i \in 1..Len(t): queue'[i] = t[i]
      /\ \A i \in 1..Len(w):
            queue'[Len(t) + i] = IF ok THEN Fetched(w[i], m) ELSE Failed(w[i], m)
    BY <1>1, <1>2, WakeAt
<1>5. /\ \A p, n: ~NotQueued(queue, p, n) => ~NotQueued(t, p, n)
      /\ \A n: AnswerQueued(queue, n) /\ n # m => AnswerQueued(t, n)
    <2>1. ~IsToken(Head(queue)) /\ \A n: n # m => Head(queue) # Answered(n)
        BY <1>1, JobKinds DEF IsToken, IsAnswer
    <2>2. QED
        BY <1>1, <2>1, TailDelivers
<1>6. w \in Seq(Imports) /\ DOMAIN w = 1..Len(w)
    BY DEF TypeOK, RegistryOK
<1> HIDE DEF t, w
<1>7. /\ \A p, n: ~NotQueued(t, p, n) => ~NotQueued(queue', p, n)
      /\ \A n: AnswerQueued(t, n) => AnswerQueued(queue', n)
    <2>1. \A i \in DOMAIN t: i \in DOMAIN queue' /\ queue'[i] = t[i]
        BY <1>4
    <2>2. QED
        BY <2>1 DEF NotQueued, AnswerQueued
<1>8. \A k \in 1..Len(w): ~NotQueued(queue', w[k], m)
    <2>1. ASSUME NEW k \in 1..Len(w)
          PROVE  ~NotQueued(queue', w[k], m)
        <3>1. Len(t) + k \in DOMAIN queue'
            BY <1>4
        <3>2. \/ queue'[Len(t) + k] = Fetched(w[k], m)
              \/ queue'[Len(t) + k] = Failed(w[k], m)
            BY <1>4
        <3>3. /\ IsToken(queue'[Len(t) + k]) /\ queue'[Len(t) + k].module = m
              /\ queue'[Len(t) + k].op = w[k]
            BY <3>2, JobKinds
        <3>4. QED
            BY <3>1, <3>3 DEF NotQueued
    <2>2. QED
        BY <2>1
<1>9. ASSUME NEW p \in Imports, NEW n \in Modules, OnItsWay(p, n)
      PROVE  OnItsWay(p, n)'
    <2>1. CASE Waits(waiting, p, n) /\ n = m
        <3>1. PICK k \in DOMAIN w: w[k] = p
            BY <2>1 DEF Waits, w
        <3>2. ~NotQueued(queue', p, m)
            BY <1>6, <1>8, <3>1
        <3>3. QED
            BY <2>1, <3>2 DEF OnItsWay
    <2>2. CASE Waits(waiting, p, n) /\ n # m
        BY <1>3, <2>2 DEF OnItsWay, Waits
    <2>3. CASE ~NotQueued(queue, p, n)
        BY <1>5, <1>7, <2>3 DEF OnItsWay
    <2>4. QED
        BY <1>1, <1>9, <2>1, <2>2, <2>3 DEF OnItsWay
<1>10. Wanted' = Wanted /\ \A p \in Imports: Wanted[p] \subseteq Modules
    BY <1>1, WantedAt DEF TypeOK, OpsOK
<1>11. \A n \in Modules: status'[n] = "fetching" =>
            /\ status[n] = "fetching"
            /\ n \in asked \/ AnswerQueued(queue, n) =>
                    n \in asked' \/ AnswerQueued(queue', n)
    BY <1>1, <1>3, <1>5, <1>7
<1>12. QED
    BY <1>1, <1>9, <1>10, <1>11, ArrivesKept

LEMMA DeliveryStep ==
    ASSUME TypeOK, RequestInv, GraphInv, DeliveryInv, [Next]_vars
    PROVE  DeliveryInv'
<1> SUFFICES ASSUME refusals' = 0
             PROVE  ArrivesInv'
    BY DEF DeliveryInv
<1>1. LoadInv /\ ArrivesInv /\ ~Refuse /\ UNCHANGED refusals
    BY NoRefusal DEF GraphInv, DeliveryInv
<1>2. ASSUME NEW o \in Imports, NEW m \in Modules, OpStep(o, m)
      PROVE  ArrivesInv'
    <2>1. CASE Import(o, m)
        <3>1. seen'[o] = {m} /\ \A p \in Imports \ {o}: seen'[p] = seen[p] /\ graph'[p] = graph[p]
            BY <2>1 DEF Import, TypeOK, OpsOK
        <3>2. \A p \in Imports: Wanted'[p] \subseteq seen'[p] /\ seen'[p] \subseteq Modules
            BY <3>1, WantedAt DEF TypeOK, OpsOK
        <3>3. \A p \in Imports \ {o}: Wanted'[p] = Wanted[p]
            BY <2>1, <3>1, WantedAt DEF Import
        <3>4. Fetch(o, m) /\ UNCHANGED loop
            BY <2>1 DEF Import
        <3>5. \A p \in Imports, n \in Modules:
                graph'[p] = "pending" /\ n \in Wanted'[p] =>
                    (p = o /\ n = m) \/ (graph[p] = "pending" /\ n \in Wanted[p])
            BY <3>1, <3>2, <3>3
        <3>6. \A p \in Imports: Wanted'[p] \subseteq Modules
            BY <3>2
        <3>7. QED
            BY <1>1, <3>4, <3>5, <3>6, FetchArrives
    <2>2. CASE ImportRefused(o, m) \/ ImportSpoilt(o, m) \/ FinishRefused(o, m)
        BY <1>1, <2>2 DEF ImportRefused, ImportSpoilt, FinishRefused
    <2>3. CASE TakeFetched(o, m)
        BY <1>1, <2>3, TakeArrives
    <2>4. CASE EnqueueUnresolvable(o, m) \/ Finish(o, m) \/ \E d \in Modules: EnqueueSeen(o, m, d)
        BY <1>1, <2>4, QuietArrives
    <2>5. ASSUME NEW d \in Modules, EnqueueNew(o, m, d)
          PROVE  ArrivesInv'
        <3>1. /\ seen'[o] = seen[o] \cup {d} /\ processed' = processed /\ graph' = graph
              /\ \A p \in Imports \ {o}: seen'[p] = seen[p]
              /\ Fetch(o, d) /\ NextDep /\ loop # NoLoop
            BY <2>5 DEF EnqueueNew, AtDep, TypeOK, OpsOK
        <3>2. \A p \in Imports, n \in Modules:
                graph'[p] = "pending" /\ n \in Wanted'[p] =>
                    (p = o /\ n = d) \/ (graph[p] = "pending" /\ n \in Wanted[p])
            BY <3>1, WantedAt
        <3>3. \A p \in Imports: Wanted'[p] \subseteq Modules
            BY <3>1, WantedAt DEF TypeOK, OpsOK
        <3>4. loop' # NoLoop /\ loop'.module = loop.module /\ loop'.op = loop.op
            BY <3>1, LoopGoesOn
        <3>5. QED
            BY <1>1, <3>1, <3>2, <3>3, <3>4, FetchArrives
    <2>6. ASSUME NEW d \in Modules, EnqueueRefused(o, m, d) \/ EnqueueUncounted(o, m, d)
          PROVE  FALSE
        BY <1>1, <2>6 DEF EnqueueRefused, EnqueueUncounted
    <2>7. QED
        BY <1>2, <2>1, <2>2, <2>3, <2>4, <2>5, <2>6 DEF OpStep
<1>3. CASE \E o \in Imports: TakeFailed(o) \/ TakeRoot(o)
    BY <1>1, <1>3, TakeArrives
<1>4. ASSUME NEW m \in Modules, TakeAnswered(m)
      PROVE  ArrivesInv'
    BY <1>1, <1>4, TakeAnsweredArrives
<1>5. CASE \/ \E m \in Modules: LoaderSettles(m)
           \/ \E m \in Modules, later \in Later: Evaluation(m, later)
    BY <1>1, <1>5, HostArrives
<1>6. CASE UNCHANGED vars
    <2>1. Wanted' = Wanted
        BY <1>6, WantedAt DEF vars
    <2>2. \A p, n: OnItsWay(p, n) => OnItsWay(p, n)'
        BY <1>6 DEF vars, OnItsWay, Waits, NotQueued
    <2>3. QED
        BY <1>1, <1>6, <2>1, <2>2, ArrivesKept DEF vars
<1>7. QED
    BY <1>2, <1>3, <1>4, <1>5, <1>6 DEF Next

(* Without refused allocations, once the host has answered every request   *)
(* and drained the queue no graph load is pending: the fetches that joined *)
(* another's, failed, or met a cycle were all told and counted.            *)
THEOREM NoGraphLoadStranded == Spec => []NoImportStranded
<1>1. Init => DeliveryInv
    BY DEF Init, DeliveryInv, ArrivesInv
<1>2. TypeOK /\ RequestInv /\ GraphInv /\ DeliveryInv /\ [Next]_vars => DeliveryInv'
    BY DeliveryStep
<1>3. TypeOK /\ GraphInv /\ DeliveryInv => NoImportStranded
    <2> SUFFICES ASSUME TypeOK, LoadInv, ArrivesInv, Quiet,
                        NEW o \in Imports, graph[o] = "pending"
                 PROVE  FALSE
        BY DEF GraphInv, DeliveryInv, NoImportStranded
    <2>1. PICK m \in Wanted[o]: OnItsWay(o, m)
        BY DEF LoadInv, CountInv, ArrivesInv
    <2>2. m \in Modules
        BY <2>1, WantedAt DEF TypeOK, OpsOK
    <2>3. DOMAIN queue = {}
        BY DEF Quiet
    <2>4. Waits(waiting, o, m)
        BY <2>1, <2>3 DEF OnItsWay, NotQueued, Quiet
    <2>5. waiting[m] # <<>>
        BY <2>4 DEF Waits
    <2>6. status[m] = "fetching"
        BY <2>2, <2>5 DEF LoadInv, WaitingOK
    <2>7. QED
        BY <2>2, <2>3, <2>6 DEF ArrivesInv, AnswerQueued, Quiet
<1>4. QED
    BY <1>1, <1>2, <1>3, LoadsInvariant, PTL DEF Spec

=============================================================================
