-------------------------- MODULE ModuleEvalProofs --------------------------
(***************************************************************************)
(* What holds of linking and evaluation for any set of modules, any graphs *)
(* over them and any number of imports: each action of ModuleEval keeps    *)
(* EvalInv (ModuleEvalPlaces), and what follows from it.                   *)
(***************************************************************************)
EXTENDS ModuleEvalPlaces

-----------------------------------------------------------------------------
(* Allocations.                                                            *)

(* However many a step is refused, they are counted.                       *)
LEMMA RefusedCount ==
    ASSUME TypeInv, NEW n \in Nat, Refused(n)
    PROVE  refusals' \in Nat
BY DEF TypeInv, TypeOK, Refused

(* Above the frames below, eval_step is at a dependency or left behind.    *)
LEMMA Entered ==
    ASSUME TypeInv, NEW m, NEW i \in Nat \ {0}, NEW below, NEW n \in Nat,
           EnterStep(m, i, below, n)
    PROVE  /\ refusals' \in Nat
           /\ \/ \E k \in Nat \ {0} : stack' = <<Step(m, k)>> \o below /\ lost' = lost
              \/ stack' = below /\ lost' = lost \cup {m}
<1>1. CASE stack' = <<Step(m, i)>> \o below /\ Keeps(n)
    BY <1>1, RefusedCount DEF Keeps
<1>2. CASE stack' = <<Step(m, 1)>> \o below /\ Keeps(n + 1)
    BY <1>2, RefusedCount DEF Keeps
<1>3. CASE stack' = below /\ Loses(m, n + 1)
    BY <1>3, RefusedCount DEF Loses
<1>4. QED
    BY <1>1, <1>2, <1>3 DEF EnterStep

(* Whoever waits for a chain that is done is told, or the lookup of its    *)
(* promise is refused.                                                     *)
LEMMA TellsHow ==
    ASSUME TypeInv, NEW q, NEW m, NEW st, NEW why, NEW n \in Nat, Tells(q, m, st, why, n)
    PROVE  refusals' \in Nat /\ (Joins(q, m, st, why) \/ Strands(q, m))
<1>1. Refused(n) \/ Refused(n + 1)
    BY DEF Tells, Keeps, Loses
<1>2. Joins(q, m, st, why) \/ Strands(q, m)
    BY DEF Tells, Keeps, Loses, Joins, Strands
<1>3. QED
    BY <1>1, <1>2, RefusedCount

-----------------------------------------------------------------------------
(* The host and the bodies.                                                *)

(* Import: an idle import has no place and gets none.                      *)
LEMMA ImportKeeps ==
    ASSUME EvalInv, NEW o \in Imports, NEW r \in Modules, Import(o, r)
    PROVE  EvalInv'
<1>1. UNCHANGED <<modVars, queue, ret, refusals, crashed, lost, histVars>> /\ op[o].st = "idle"
    BY DEF Import, memVars
<1>2. /\ StackMoves({}, {}) /\ Range(stack) \subseteq Range(stack')
      /\ Range(stack') \subseteq Range(stack) \cup {Drain}
  <2>1. CASE stack = <<>>
      BY <2>1, FirstDrain DEF Import
  <2>2. CASE stack # <<>>
      BY <2>2, Same DEF Import
  <2>3. QED
      BY <2>1, <2>2
<1>3. PICK p \in [root : {r}, by : Modules \cup {Host}, st : {"loading", "rejected"},
                  why : Reasons \cup {"none"}] : op' = [op EXCEPT ![o] = p]
  <2>1. stack # <<>> => Top.m \in Modules
      BY TopFrame DEF Import, At, EvalInv
  <2>2. ErroredIn(r) # {} => reason[CHOOSE m \in ErroredIn(r) : TRUE] \in Reasons \cup {"none"}
    <3>1. ErroredIn(r) # {} => (CHOOSE m \in ErroredIn(r) : TRUE) \in Modules
        BY DEF ErroredIn, GraphOf
    <3>2. QED
        BY <3>1, Wellknown
  <2>. DEFINE p == [root |-> r, by |-> IF stack = <<>> THEN Host ELSE Top.m,
                    st |-> IF ErroredIn(r) = {} THEN "loading" ELSE "rejected",
                    why |-> IF ErroredIn(r) = {} THEN "none"
                            ELSE reason[CHOOSE m \in ErroredIn(r) : TRUE]]
  <2>3. p \in [root : {r}, by : Modules \cup {Host}, st : {"loading", "rejected"},
               why : Reasons \cup {"none"}]
      BY <2>1, <2>2
  <2>4. op' = [op EXCEPT ![o] = p]
      BY DEF Import
  <2>5. QED
      BY <2>3, <2>4
<1>4. /\ \A q \in Imports \ {o} : op'[q] = op[q]
      /\ op'[o].root = r /\ op'[o].st \in {"loading", "rejected"}
      /\ op' \in [Imports -> Operations]
    BY <1>3 DEF EvalInv, TypeInv, TypeOK, Operations
<1>5. RootsStay /\ OutcomesStay
    BY <1>1, <1>4 DEF RootsStay, OutcomesStay, modVars
<1>6. TypeInv'
    BY <1>1, <1>2, <1>4 DEF EvalInv, TypeInv, TypeOK, modVars, histVars, StackMoves, Operations
<1>7. LinkInv'
    BY <1>1, <1>2, LinksStay DEF Links, Drain, Startable, modVars
<1>8. PlaceInv' /\ NoneDropped'
  <2>1. ParkMoves({}, {}) /\ FiberMoves({}, {}) /\ PlaceInv /\ NoneDropped
      BY <1>1, ParksStay, FibersStay DEF modVars, EvalInv
  <2>2. \A c \in Chains : Live(c) <=> Live(c)'
      BY <1>1, <1>4 DEF Live, modVars
  <2>3. QED
      BY <1>1, <1>2, <2>1, <2>2, PlaceMoves, DropMoves
<1>9. ChainInv' /\ ByModules'
  <2>1. \A f \in Range(stack') : f \in Range(stack) \/ FrameOK(f)'
      BY <1>2 DEF FrameOK, Drain
  <2>2. BodyStays
      BY <1>1 DEF BodyStays, At, Import, modVars
  <2>3. QED
      BY <1>1, <1>2, <1>5, <2>1, <2>2, Routine DEF modVars, histVars
<1>10. ByImports' /\ ImportTruthful'
  <2>1. \A f \in Range(stack') : f.at = "root" => f \in Range(stack)
      BY <1>2 DEF Drain
  <2>2. joined \subseteq Imports /\ joined' = joined /\ queue' = queue /\ starter' = starter
      BY <1>1 DEF EvalInv, TypeInv, histVars
  <2>3. QED
      BY <1>1, <1>4, <1>5, <2>1, <2>2, ImportsStay
<1>11. QED
    BY <1>6, <1>7, <1>8, <1>9, <1>10 DEF EvalInv

(* GraphLoads: the loaded import gets the one place that it may have, a    *)
(* job.                                                                    *)
LEMMA GraphLoadsKeeps ==
    ASSUME EvalInv, NEW o \in Imports, GraphLoads(o)
    PROVE  EvalInv'
<1>1. UNCHANGED <<modVars, stack, ret, refusals, crashed, lost, histVars>> /\ op[o].st = "loading"
    BY DEF GraphLoads, memVars
<1>. DEFINE j == Job("fetched", o, "none")
<1>2. j \in Jobs /\ j.x = o /\ j.do = "fetched"
    BY DEF Job, Jobs, RootJobs
<1>3. PICK st \in {"loaded", "rejected"} :
          /\ op'[o].st = st /\ op'[o].root = op[o].root
          /\ \A p \in Imports \ {o} : op'[p] = op[p]
          /\ op' \in [Imports -> Operations]
          /\ queue' = IF st = "loaded" THEN Append(queue, j) ELSE queue
  <2>1. CASE op' = [op EXCEPT ![o].st = "loaded"] /\ queue' = Append(queue, j)
    <3>1. /\ op'[o].st = "loaded" /\ op'[o].root = op[o].root
          /\ \A p \in Imports \ {o} : op'[p] = op[p]
          /\ op' \in [Imports -> Operations]
      <4>1. op \in [Imports -> Operations]
          BY DEF EvalInv, TypeInv, TypeOK, Operations
      <4>2. op'[o] = [op[o] EXCEPT !.st = "loaded"] /\ \A p \in Imports \ {o} : op'[p] = op[p]
          BY <2>1, <4>1
      <4>3. /\ op'[o] \in Operations /\ op'[o].st = "loaded" /\ op'[o].root = op[o].root
          BY <4>1, <4>2 DEF Operations
      <4>4. QED
          BY <2>1, <4>1, <4>2, <4>3
    <3>2. QED
        BY <2>1, <3>1
  <2>2. ASSUME NEW m \in ErroredIn(op[o].root),
               op' = [op EXCEPT ![o].st = "rejected", ![o].why = reason[m]], queue' = queue
        PROVE  /\ op'[o].st = "rejected" /\ op'[o].root = op[o].root
               /\ \A p \in Imports \ {o} : op'[p] = op[p]
               /\ op' \in [Imports -> Operations]
    <3>1. reason[m] \in Reasons \cup {"none"}
        BY Wellknown DEF ErroredIn, GraphOf
    <3>2. QED
        BY <1>1, <2>2, <3>1, OpSet
  <2>3. QED
      BY <2>1, <2>2 DEF GraphLoads
<1>. HIDE DEF j
<1>4. RootsStay /\ OutcomesStay
    BY <1>1, <1>3 DEF RootsStay, OutcomesStay, modVars
<1>5. /\ queue' \in Seq(Jobs) /\ Range(queue) \subseteq Range(queue')
      /\ Range(queue') \subseteq Range(queue) \cup {j}
  <2>1. Append(queue, j) \in Seq(Jobs) /\ Range(Append(queue, j)) = Range(queue) \cup {j}
      BY <1>2, Wellknown, ListAppend
  <2>2. QED
      BY <1>3, <2>1, Wellknown
<1>6. TypeInv'
    BY <1>1, <1>3, <1>5, Wellknown DEF EvalInv, TypeInv, TypeOK, Operations, modVars, histVars
<1>7. StackMoves({}, {}) /\ FiberMoves({}, {}) /\ PlaceInv /\ NoneDropped
    BY <1>1, Same, FibersStay DEF modVars, EvalInv
<1>8. LinkInv'
    BY <1>1, <1>7, LinksStay DEF Startable, modVars
<1>9. o \in Chains /\ ~InPlace(o) /\ o \notin Modules
    BY <1>1, EvalConstants DEF EvalInv, PlaceInv, Live, Chains
<1>10. PlaceInv' /\ NoneDropped'
  <2>1. PICK to : /\ ParkMoves({}, to) /\ to \subseteq {o}
                  /\ to # {} <=> op'[o].st = "loaded"
    <3>1. CASE queue' = Append(queue, j) /\ op'[o].st = "loaded"
      <4>1. ParkMoves({}, {o})
          BY <1>1, <1>2, <1>9, <3>1, JobJoins DEF modVars, InPlace
      <4>2. QED
          BY <3>1, <4>1
    <3>2. CASE queue' = queue
        BY <1>1, <1>3, <3>2, ParksStay DEF modVars
    <3>3. QED
        BY <1>3, <3>1, <3>2
  <2>2. \A c \in Chains \ {o} : Live(c) <=> Live(c)'
      BY <1>1, <1>3 DEF Live, modVars, Chains
  <2>3. Live(o)' <=> o \in to
      BY <2>1, <1>9 DEF Live
  <2>4. QED
      BY <1>1, <1>7, <1>9, <2>1, <2>2, <2>3, PlaceMoves, DropMoves DEF InPlace
<1>11. ChainInv' /\ ByModules'
  <2>1. JobOK(j)'
      BY <1>2 DEF JobOK
  <2>2. \A k \in Range(queue') : k \in Range(queue) \/ JobOK(k)'
      BY <1>5, <2>1
  <2>3. BodyStays
      BY <1>1 DEF BodyStays, modVars
  <2>4. QED
      BY <1>1, <1>4, <1>5, <2>2, <2>3, Routine DEF modVars, histVars
<1>12. ByImports' /\ ImportTruthful'
  <2>1. joined \subseteq Imports /\ joined' = joined /\ stack' = stack /\ starter' = starter
      BY <1>1 DEF EvalInv, TypeInv, histVars
  <2>2. \A k \in Range(queue') : k \in Range(queue) \/ k.x = o
      BY <1>2, <1>5
  <2>3. QED
      BY <1>1, <1>3, <1>4, <2>1, <2>2, ImportsStay
<1>13. QED
    BY <1>6, <1>8, <1>10, <1>11, <1>12 DEF EvalInv

(* HostDrains: the stack was empty and nothing is on it but a drain.       *)
LEMMA HostDrainsKeeps ==
    ASSUME EvalInv, HostDrains
    PROVE  EvalInv'
<1>1. UNCHANGED <<modVars, op, queue, ret, refusals, crashed, lost, histVars>>
    BY DEF HostDrains, memVars
<1>2. StackMoves({}, {}) /\ Range(stack) = {} /\ Range(stack') = {Drain}
    BY FirstDrain DEF HostDrains
<1>3. RootsStay /\ OutcomesStay
    BY <1>1 DEF RootsStay, OutcomesStay, modVars
<1>4. TypeInv'
    BY <1>1, <1>2 DEF EvalInv, TypeInv, TypeOK, modVars, histVars, StackMoves
<1>5. LinkInv'
    BY <1>1, <1>2, LinksStay DEF Links, Drain, Startable, modVars
<1>6. PlaceInv' /\ NoneDropped'
  <2>1. ParkMoves({}, {}) /\ FiberMoves({}, {}) /\ PlaceInv /\ NoneDropped
      BY <1>1, ParksStay, FibersStay DEF modVars, EvalInv
  <2>2. \A c \in Chains : Live(c) <=> Live(c)'
      BY <1>1 DEF Live, modVars
  <2>3. QED
      BY <1>1, <1>2, <2>1, <2>2, PlaceMoves, DropMoves
<1>7. ChainInv' /\ ByModules'
  <2>1. \A f \in Range(stack') : FrameOK(f)'
      BY <1>2 DEF FrameOK, Drain
  <2>2. BodyStays
      BY DEF BodyStays, At, HostDrains
  <2>3. QED
      BY <1>1, <1>2, <1>3, <2>1, <2>2, Routine DEF modVars, histVars
<1>8. ByImports' /\ ImportTruthful'
  <2>1. \A f \in Range(stack') : f.at # "root"
      BY <1>2 DEF Drain
  <2>2. joined \subseteq Imports /\ joined' = joined /\ queue' = queue /\ starter' = starter
      BY <1>1 DEF EvalInv, TypeInv, histVars
  <2>3. QED
      BY <1>1, <1>3, <2>1, <2>2, ImportsStay
<1>9. QED
    BY <1>4, <1>5, <1>6, <1>7, <1>8 DEF EvalInv

(* The end of a suspended body is a job if the chain has subscribed to it, *)
(* and stays a settled promise if it has not.                              *)
LEMMA FiberEndsKeeps ==
    ASSUME EvalInv, NEW m \in Modules, FiberEnds(m)
    PROVE  EvalInv'
<1>1. /\ UNCHANGED <<specs, status, deps, ep, epWait, bpWait, awaits, reason, index>>
      /\ UNCHANGED <<op, stack, ret, refusals, crashed, lost, runs, starter, joined>>
      /\ bp[m] = "pending"
    BY DEF FiberEnds, histVars, memVars
<1>2. PICK st \in Ends :
          /\ bp' = [bp EXCEPT ![m] = st]
          /\ queue' = IF ~bpWait[m] THEN queue
                      ELSE Append(queue, IF st = "fulfilled" THEN Job("bodyDone", m, "none")
                                         ELSE Job("evalFail", m, m))
    BY DEF FiberEnds, Ends
<1>. DEFINE j == IF st = "fulfilled" THEN Job("bodyDone", m, "none") ELSE Job("evalFail", m, m)
<1>3. /\ j \in Jobs /\ j.x = m /\ j.do # "fetched"
      /\ j.do = "bodyDone" <=> st = "fulfilled"
      /\ j.do \in {"evalFail", "bodyDone"}
  <2>1. CASE st = "fulfilled"
      BY <2>1 DEF Job, Jobs, ModJobs
  <2>2. CASE st = "rejected"
      BY <2>2 DEF Job, Jobs, ModJobs, Reasons
  <2>3. QED
      BY <2>1, <2>2 DEF Ends
<1>4. queue' = IF ~bpWait[m] THEN queue ELSE Append(queue, j)
    BY <1>2
<1>. HIDE DEF j
<1>5. /\ bp' \in [Modules -> {"none", "pending", "fulfilled", "rejected"}] /\ bp'[m] = st
      /\ \A d \in Modules \ {m} : bp'[d] = bp[d]
    BY <1>2 DEF EvalInv, TypeInv, TypeOK, Ends
<1>6. m \in Chains /\ OnePlace(m)
    BY DEF EvalInv, PlaceInv, Chains
<1>7. ASSUME bpWait[m]
      PROVE  /\ Fiber(m) /\ ~Parked(queue, epWait, m) /\ ~OnStack(stack, m) /\ Live(m)
             /\ ParkMoves({}, {m}) /\ queue' \in Seq(Jobs)
             /\ Range(queue') = Range(queue) \cup {j}
             /\ FiberMoves({m}, {})
  <2>1. Fiber(m) /\ ~Parked(queue, epWait, m) /\ ~OnStack(stack, m)
      BY <1>1, <1>6, <1>7 DEF Fiber, OnePlace
  <2>2. /\ ParkMoves({}, {m}) /\ queue' \in Seq(Jobs)
        /\ Range(queue') = Range(queue) \cup {j}
      BY <1>1, <1>3, <1>4, <1>7, <2>1, JobJoins
  <2>3. FiberMoves({m}, {})
      BY <1>1, <1>5, <1>7 DEF FiberMoves, Fiber, Ends
  <2>4. Live(m)
      BY <1>6, <2>1 DEF EvalInv, PlaceInv, InPlace
  <2>5. QED
      BY <2>1, <2>2, <2>3, <2>4
<1>8. /\ queue' \in Seq(Jobs) /\ Range(queue) \subseteq Range(queue')
      /\ Range(queue') \subseteq Range(queue) \cup {j}
    BY <1>4, <1>7, Wellknown
<1>9. TypeInv'
    BY <1>1, <1>5, <1>8, Wellknown DEF EvalInv, TypeInv, TypeOK
<1>10. StackMoves({}, {}) /\ PlaceInv /\ NoneDropped
    BY <1>1, Same DEF EvalInv
<1>11. LinkInv'
    BY <1>1, <1>10, LinksStay DEF Startable
<1>12. \A c \in Chains : Live(c) <=> Live(c)'
    BY <1>1 DEF Live
<1>13. PlaceInv' /\ NoneDropped'
  <2>1. CASE bpWait[m]
    <3>1. Live(m)' /\ ~OnStack(stack, m) /\ Fiber(m)
        BY <1>6, <1>7, <1>12, <2>1
    <3>2. ParkMoves({}, {m}) /\ FiberMoves({m}, {})
        BY <1>7, <2>1
    <3>3. QED
        BY <1>1, <1>10, <1>12, <3>1, <3>2, PlaceMoves, DropMoves
  <2>2. CASE ~bpWait[m]
    <3>1. ParkMoves({}, {})
        BY <1>1, <1>4, <2>2, ParksStay
    <3>2. FiberMoves({}, {})
        BY <1>1, <1>5, <2>2 DEF FiberMoves, Fiber
    <3>3. QED
        BY <1>1, <1>10, <1>12, <3>1, <3>2, PlaceMoves, DropMoves
  <2>3. QED
      BY <2>1, <2>2
<1>14. RootsStay /\ OutcomesStay
    BY <1>1 DEF RootsStay, OutcomesStay
<1>15. ChainInv'
  <2>1. \A f \in Range(stack') : FrameOK(f)'
    <3>1. BodyStays
        BY DEF BodyStays, At, FiberEnds
    <3>2. QED
        BY <1>1, <3>1, FramesStayOK
  <2>2. \A d \in Modules : \A w \in Range(epWait'[d]) : WaiterOK(d, w)'
      BY <1>1, <1>14, WaitersStayOK
  <2>3. \A k \in Range(queue) : JobOK(k)'
    <3>1. \A d \in Modules : bp[d] = "fulfilled" => bp'[d] = "fulfilled"
        BY <1>1, <1>5
    <3>2. QED
        BY <1>1, <1>14, <3>1, JobsStayOK
  <2>4. JobOK(j)'
      BY <1>3, <1>5 DEF JobOK
  <2>5. ASSUME NEW d \in Modules PROVE ModuleOK(d)'
    <3>1. ModuleOK(d)
        BY DEF EvalInv, ChainInv
    <3>2. QED
        BY <1>1, <1>5, <3>1 DEF ModuleOK, Startable
  <2>6. QED
      BY <1>8, <2>1, <2>2, <2>3, <2>4, <2>5 DEF ChainInv
<1>16. ByModules'
  <2>1. ASSUME NEW a \in Modules, NEW d \in Modules, starter'[d] = a PROVE Accounted(a, d)'
    <3>1. Accounted(a, d)
        BY <1>1, <2>1 DEF EvalInv, ByModules
    <3>2. QED
        BY <1>1, <1>8, <1>14, <3>1, AccountStays
  <2>2. QED
      BY <2>1 DEF ByModules
<1>17. ByImports' /\ ImportTruthful'
  <2>1. joined \subseteq Imports /\ op' = op
      BY <1>1 DEF EvalInv, TypeInv
  <2>2. \A k \in Range(queue') : k.do = "fetched" => k \in Range(queue)
      BY <1>3, <1>8
  <2>3. QED
      BY <1>1, <1>14, <2>1, <2>2, ImportsStay
<1>18. QED
    BY <1>9, <1>11, <1>13, <1>15, <1>16, <1>17 DEF EvalInv

-----------------------------------------------------------------------------
(* Jobs.                                                                   *)

(* DrainEnds: the frame of the drain runs no chain.                        *)
LEMMA DrainEndsKeeps ==
    ASSUME EvalInv, DrainEnds
    PROVE  EvalInv'
<1>1. /\ UNCHANGED <<modVars, op, queue, ret, refusals, crashed, lost, histVars>>
      /\ stack # <<>> /\ Top.at = "drain" /\ stack' = Tail(stack)
    BY DEF DrainEnds, At, memVars
<1>2. ChainsOf(Top) = {} /\ ~Links(Top)
    BY <1>1 DEF ChainsOf, Runs, Links
<1>3. StackMoves({}, {}) /\ Range(stack) = {Top} \cup Range(stack')
    BY <1>1, <1>2, Pop
<1>4. RootsStay /\ OutcomesStay
    BY <1>1 DEF RootsStay, OutcomesStay, modVars
<1>5. TypeInv'
    BY <1>1, <1>3 DEF EvalInv, TypeInv, TypeOK, modVars, histVars, StackMoves
<1>6. LinkInv'
    BY <1>1, <1>3, LinksStay DEF Startable, modVars
<1>7. PlaceInv' /\ NoneDropped'
  <2>1. ParkMoves({}, {}) /\ FiberMoves({}, {}) /\ PlaceInv /\ NoneDropped
      BY <1>1, ParksStay, FibersStay DEF modVars, EvalInv
  <2>2. \A c \in Chains : Live(c) <=> Live(c)'
      BY <1>1 DEF Live, modVars
  <2>3. QED
      BY <1>1, <1>3, <2>1, <2>2, PlaceMoves, DropMoves
<1>8. ChainInv' /\ ByModules'
  <2>1. BodyStays
      BY <1>1 DEF BodyStays, At
  <2>2. QED
      BY <1>1, <1>3, <1>4, <2>1, Routine DEF modVars, histVars
<1>9. ByImports' /\ ImportTruthful'
  <2>1. joined \subseteq Imports /\ joined' = joined /\ queue' = queue /\ starter' = starter
      BY <1>1 DEF EvalInv, TypeInv, histVars
  <2>2. QED
      BY <1>1, <1>3, <1>4, <2>1, ImportsStay
<1>10. QED
    BY <1>5, <1>6, <1>7, <1>8, <1>9 DEF EvalInv

(* TakeFetched: the import moves from the queue to the stack.              *)
LEMMA TakeFetchedKeeps ==
    ASSUME EvalInv, TakeFetched
    PROVE  EvalInv'
<1>. PICK j, f : j = Head(queue) /\ f = [at |-> "root", o |-> j.x, phase |-> "inst"]
    OBVIOUS
<1>1. /\ UNCHANGED <<modVars, op, refusals, crashed, lost, histVars>> /\ queue # <<>> /\ ret' = "ok"
      /\ queue' = Tail(queue) /\ j.do = "fetched"
      /\ stack # <<>> /\ Top.at = "drain" /\ stack' = <<f>> \o stack
    BY DEF TakeFetched, TakeJob, At, Push, memVars
<1>2. j.x \in Imports /\ j.x \in Chains /\ j \in Range(queue)
    BY <1>1, HeadJob, HeadAlone DEF EvalInv
<1>3. f \in Frames /\ ~Links(f) /\ f.at = "root" /\ f.o = j.x
    BY <1>2, FrameTypes DEF Links
<1>4. ~Links(Top) /\ ChainsOf(f) = {j.x} /\ \A c \in Chains : Runs(f, c) <=> c = j.x
    BY <1>1, <1>2 DEF Links, ChainsOf, Runs
<1>5. /\ ~OnStack(stack, j.x) /\ ~Fiber(j.x) /\ Live(j.x)
      /\ \A k \in Range(Tail(queue)) : k.x # j.x
    BY <1>1, <1>2, HeadAlone
<1>6. StackMoves({}, {j.x}) /\ Range(stack') = {f} \cup Range(stack)
    BY <1>1, <1>3, <1>4, <1>5, PushOn
<1>7. /\ ParkMoves({j.x}, {}) /\ queue' \in Seq(Jobs)
      /\ Range(queue) = {j} \cup Range(queue')
    BY <1>1, JobLeaves DEF modVars
<1>8. RootsStay /\ OutcomesStay
    BY <1>1 DEF RootsStay, OutcomesStay, modVars
<1>9. TypeInv'
    BY <1>1, <1>6, <1>7, Wellknown
    DEF EvalInv, TypeInv, TypeOK, modVars, histVars, StackMoves
<1>10. LinkInv'
    BY <1>1, <1>3, <1>6, LinksStay DEF Startable, modVars
<1>11. PlaceInv' /\ NoneDropped'
  <2>1. FiberMoves({}, {}) /\ PlaceInv /\ NoneDropped
      BY <1>1, FibersStay DEF modVars, EvalInv
  <2>2. \A c \in Chains : Live(c) <=> Live(c)'
      BY <1>1 DEF Live, modVars
  <2>3. QED
      BY <1>1, <1>2, <1>5, <1>6, <1>7, <2>1, <2>2, PlaceMoves, DropMoves
<1>12. ChainInv' /\ ByModules'
  <2>1. FrameOK(f)'
      BY <1>3 DEF FrameOK
  <2>2. \A k \in Range(queue) : k.do = "evalFail" => k \in Range(queue')
      BY <1>1, <1>7
  <2>3. BodyStays
      BY <1>1 DEF BodyStays, At
  <2>4. QED
      BY <1>1, <1>6, <1>7, <1>8, <2>1, <2>2, <2>3, Routine DEF modVars, histVars
<1>13. ByImports' /\ ImportTruthful'
  <2>1. joined \subseteq Imports /\ joined' = joined /\ starter' = starter /\ op' = op
      BY <1>1 DEF EvalInv, TypeInv, histVars
  <2>2. \A d \in Modules : starter[d] # f.o
      BY <1>1, <1>2, <1>3 DEF EvalInv, ByImports
  <2>3. QED
      BY <1>2, <1>3, <1>6, <1>7, <1>8, <2>1, <2>2, ImportsStay
<1>14. QED
    BY <1>9, <1>10, <1>11, <1>12, <1>13 DEF EvalInv

(* TakeDepDone: the chain moves from the queue to the stack.               *)
LEMMA TakeDepDoneKeeps ==
    ASSUME EvalInv, TakeDepDone
    PROVE  EvalInv'
<1>. PICK j, m : j = Head(queue) /\ m = j.x
    OBVIOUS
<1>1. /\ UNCHANGED <<specs, status, deps, ep, epWait, bp, bpWait, awaits, reason>>
      /\ UNCHANGED <<op, ret, crashed, histVars>> /\ queue # <<>>
      /\ queue' = Tail(queue) /\ j.do = "depDone" /\ stack # <<>> /\ Top.at = "drain"
    BY DEF TakeDepDone, TakeJob, At
<1>2. m \in Modules /\ m \in Chains /\ j \in Range(queue) /\ m = j.x
    BY <1>1, HeadJob, HeadAlone DEF EvalInv
<1>3. /\ refusals' \in Nat /\ index' \in [Modules -> Nat]
      /\ \/ \E k \in Nat \ {0} : stack' = <<Step(m, k)>> \o stack /\ lost' = lost
         \/ stack' = stack /\ lost' = lost \cup {m}
  <2>1. index \in [Modules -> Nat] /\ index[m] \in Nat /\ TypeInv
      BY <1>2 DEF EvalInv, TypeInv, TypeOK
  <2>2. Advanced(index[m]) \in Nat /\ NaN \in Nat
      BY <2>1 DEF Advanced, NaN
  <2>3. \A k \in Nat : FirstDep(k) \in Nat \ {0}
      BY DEF FirstDep, NaN
  <2>4. CASE /\ index' = [index EXCEPT ![m] = Advanced(@)]
             /\ EnterStep(m, FirstDep(Advanced(index[m])), stack, 0)
    <3>1. FirstDep(Advanced(index[m])) \in Nat \ {0}
        BY <2>2, <2>3
    <3>2. QED
        BY <2>1, <2>2, <2>4, <3>1, Entered
  <2>5. CASE index' = [index EXCEPT ![m] = NaN] /\ EnterStep(m, 1, stack, 1)
    <3>1. index' \in [Modules -> Nat]
        BY <2>1, <2>2, <2>5
    <3>2. EnterStep(m, 1, stack, 1) /\ 1 \in Nat \ {0}
        BY <2>5
    <3>3. QED
        BY <2>1, <3>1, <3>2, Entered
  <2>6. CASE UNCHANGED index /\ EnterStep(m, FirstDep(index[m]), stack, 1)
    <3>1. FirstDep(index[m]) \in Nat \ {0}
        BY <2>1, <2>3
    <3>2. QED
        BY <2>1, <2>6, <3>1, Entered
  <2>7. QED
      BY <2>4, <2>5, <2>6 DEF TakeDepDone
<1>4. \A k \in Nat \ {0} : /\ Step(m, k) \in Frames /\ ~Links(Step(m, k))
                            /\ Step(m, k).at = "step" /\ Step(m, k).m = m /\ ~Step(m, k).called
                            /\ \A c \in Chains : Runs(Step(m, k), c) <=> c = m
    BY <1>2, FrameTypes DEF Links, Step, Runs
<1>5. /\ ~OnStack(stack, m) /\ ~Fiber(m) /\ Live(m)
      /\ \A k \in Range(Tail(queue)) : k.x # m
    BY <1>1, <1>2, HeadAlone
<1>6. runs[m] = 0
    BY <1>1, <1>2 DEF EvalInv, ChainInv, JobOK
<1>7. lost \subseteq lost' /\ lost' \subseteq Modules
    BY <1>2, <1>3 DEF EvalInv, TypeInv, TypeOK
<1>8. /\ ParkMoves({m}, {}) /\ queue' \in Seq(Jobs)
      /\ Range(queue) = {j} \cup Range(queue')
    BY <1>1, JobLeaves
<1>9. PICK to : /\ StackMoves({}, to) /\ to \subseteq {m} /\ m \in to \cup lost'
                /\ Range(stack) \subseteq Range(stack')
                /\ \A f \in Range(stack') :
                      f \in Range(stack) \/ \E k \in Nat \ {0} : f = Step(m, k)
  <2>1. ASSUME NEW k \in Nat \ {0}, stack' = <<Step(m, k)>> \o stack
        PROVE  StackMoves({}, {m}) /\ Range(stack') = {Step(m, k)} \cup Range(stack)
    <3>1. ChainsOf(Step(m, k)) = {m} /\ ~Links(Top) /\ Step(m, k) \in Frames
          /\ \A c \in Chains : Runs(Step(m, k), c) => ~OnStack(stack, c)
        BY <1>1, <1>2, <1>4, <1>5 DEF ChainsOf, Links
    <3>2. QED
        BY <1>1, <2>1, <3>1, PushOn
  <2>2. CASE stack' = stack /\ lost' = lost \cup {m}
    <3>1. StackMoves({}, {})
        BY <2>2, Same
    <3>2. QED
        BY <2>2, <3>1
  <2>3. QED
      BY <1>3, <2>1, <2>2
<1>10. RootsStay /\ OutcomesStay
    BY <1>1 DEF RootsStay, OutcomesStay
<1>11. TypeInv'
    BY <1>1, <1>3, <1>7, <1>8, <1>9, Wellknown
    DEF EvalInv, TypeInv, TypeOK, histVars, StackMoves
<1>12. LinkInv'
    BY <1>1, <1>4, <1>9, LinksStay DEF Startable
<1>13. PlaceInv' /\ NoneDropped'
  <2>1. FiberMoves({}, {}) /\ PlaceInv /\ NoneDropped
      BY <1>1, FibersStay DEF EvalInv
  <2>2. \A c \in Chains : Live(c) <=> Live(c)'
      BY <1>1 DEF Live
  <2>3. QED
      BY <1>2, <1>5, <1>7, <1>8, <1>9, <2>1, <2>2, PlaceMoves, DropMoves
<1>14. ChainInv' /\ ByModules'
  <2>1. \A f \in Range(stack') : f \in Range(stack) \/ FrameOK(f)'
      BY <1>1, <1>4, <1>6, <1>9 DEF FrameOK, histVars
  <2>2. \A k \in Range(queue) : k.do = "evalFail" => k \in Range(queue')
      BY <1>1, <1>8
  <2>3. BodyStays
      BY <1>1 DEF BodyStays
  <2>4. QED
      BY <1>1, <1>8, <1>9, <1>10, <2>1, <2>2, <2>3, Routine DEF histVars
<1>15. ByImports' /\ ImportTruthful'
  <2>1. joined \subseteq Imports /\ joined' = joined /\ starter' = starter /\ op' = op
      BY <1>1 DEF EvalInv, TypeInv, histVars
  <2>2. \A g \in Range(stack') : g.at = "root" => g \in Range(stack)
      BY <1>4, <1>9
  <2>3. QED
      BY <1>8, <1>10, <2>1, <2>2, ImportsStay
<1>16. QED
    BY <1>11, <1>12, <1>13, <1>14, <1>15 DEF EvalInv

(* TakeRootSettled: the import leaves the queue and is settled.            *)
LEMMA TakeRootSettledKeeps ==
    ASSUME EvalInv, TakeRootSettled
    PROVE  EvalInv'
<1>. PICK j, o, st : /\ j = Head(queue) /\ o = j.x
                     /\ st = IF j.do = "rootDone" THEN "fulfilled" ELSE "rejected"
    OBVIOUS
<1>1. /\ UNCHANGED <<modVars, stack, ret, refusals, crashed, lost, histVars>> /\ queue # <<>>
      /\ queue' = Tail(queue) /\ j.do \in {"rootDone", "rootFail"}
      /\ op' = [op EXCEPT ![o].st = st, ![o].why = j.why]
    BY DEF TakeRootSettled, TakeJob, At, memVars
<1>2. /\ o \in Imports /\ o \in Chains /\ j \in Range(queue) /\ o \notin Modules
      /\ j.why \in Reasons \cup {"none"}
    BY <1>1, HeadJob, HeadAlone, EvalConstants DEF EvalInv
<1>3. ~OnStack(stack, o) /\ ~Fiber(o) /\ op[o].st = "loaded"
    BY <1>1, <1>2, HeadAlone DEF Live
<1>4. /\ op' \in [Imports -> Operations]
      /\ \A p \in Imports : op'[p].st # "idle" => op'[p].root \in Modules
      /\ op'[o].root = op[o].root /\ op'[o].st = st
      /\ \A p \in Imports \ {o} : op'[p] = op[p]
      /\ RootsStay
  <2>1. st \in {"loaded", "fulfilled", "rejected"} /\ op[o].st # "idle"
      BY <1>3
  <2>2. QED
      BY <1>1, <1>2, <2>1, OpSet
<1>5. OutcomesStay
    BY <1>1 DEF OutcomesStay, modVars
<1>6. /\ ParkMoves({o}, {}) /\ queue' \in Seq(Jobs)
      /\ Range(queue) = {j} \cup Range(queue')
    BY <1>1, JobLeaves DEF modVars
<1>7. StackMoves({}, {}) /\ FiberMoves({}, {}) /\ PlaceInv /\ NoneDropped
    BY <1>1, Same, FibersStay DEF modVars, EvalInv
<1>8. TypeInv'
  <2>1. queue' \in Seq(ModJobs \cup RootJobs)
      BY <1>6, Wellknown
  <2>2. QED
      BY <1>1, <1>4, <2>1 DEF EvalInv, TypeInv, TypeOK, modVars, histVars, Operations
<1>9. LinkInv'
    BY <1>1, <1>7, LinksStay DEF Startable, modVars
<1>10. PlaceInv' /\ NoneDropped'
  <2>1. \A c \in Chains \ {o} : Live(c) <=> Live(c)'
      BY <1>1, <1>4 DEF Live, modVars
  <2>2. ~Live(o)'
      BY <1>2, <1>4 DEF Live
  <2>3. QED
      BY <1>1, <1>3, <1>6, <1>7, <2>1, <2>2, PlaceMoves, DropMoves
<1>11. ChainInv' /\ ByModules'
  <2>1. \A k \in Range(queue) : k.do = "evalFail" => k \in Range(queue')
      BY <1>1, <1>6
  <2>2. BodyStays
      BY <1>1 DEF BodyStays, modVars
  <2>3. QED
      BY <1>1, <1>4, <1>6, <2>1, <2>2, Routine DEF modVars, histVars
<1>12. ByImports' /\ ImportTruthful'
  <2>1. joined \subseteq Imports /\ joined' = joined /\ stack' = stack /\ starter' = starter
      BY <1>1 DEF EvalInv, TypeInv, histVars
  <2>2. j.do = "rootDone" => status[op[o].root] = "evaluated"
      BY <1>2 DEF EvalInv, ChainInv, JobOK
  <2>3. st = "rejected" \/ (st = "fulfilled" /\ status[op[o].root] = "evaluated")
      BY <2>2
  <2>4. QED
      BY <1>3, <1>4, <1>5, <1>6, <2>1, <2>3, ImportsStay
<1>13. QED
    BY <1>8, <1>9, <1>10, <1>11, <1>12 DEF EvalInv

(* The four parts of the invariant that a settlement touches.              *)
LEMMA SettleTypes ==
    ASSUME EvalInv, NEW q \in Seq(Jobs), NEW m \in Modules, NEW st \in Ends,
           NEW why \in Reasons \cup {"none"}, Settles(q, m, st, why)
    PROVE  /\ ep' \in [Modules -> {"none", "pending", "fulfilled", "rejected"}]
           /\ epWait' \in [Modules -> Seq(Waiters)]
           /\ queue' \in Seq(ModJobs \cup RootJobs)
           /\ reason' \in [Modules -> Reasons \cup {"none"}]
           /\ lost' \subseteq Modules
<1>1. queue' \in Seq(Jobs) /\ epWait' \in [Modules -> Seq(Waiters)]
    BY SettleLists
<1>2. ep' \in [Modules -> {"none", "pending", "fulfilled", "rejected"}]
    BY DEF Settles, Joins, Strands, EvalInv, TypeInv, TypeOK, Ends
<1>3. reason' \in [Modules -> Reasons \cup {"none"}]
    BY Wellknown DEF Settles
<1>4. lost' \subseteq Modules
    BY DEF Settles, Joins, Strands, EvalInv, TypeInv, TypeOK
<1>5. QED
    BY <1>1, <1>2, <1>3, <1>4, Wellknown

(* The settled chain loses its place; whoever waited for it moves to the   *)
(* queue.                                                                  *)
LEMMA SettlePlaces ==
    ASSUME EvalInv, NEW q \in Seq(Jobs), NEW m \in Modules, NEW st \in Ends,
           NEW why \in Reasons \cup {"none"}, Settles(q, m, st, why),
           NEW po, NEW so, po \subseteq {m}, so \subseteq {m},
           \A c \in Chains :
              /\ OnceParked(q, epWait, c)
              /\ Parked(q, epWait, c) <=> Parked(queue, epWait, c) /\ c \notin po,
           StackMoves(so, {}), UNCHANGED bpWait,
           /\ OnStack(stack, m) => m \in so
           /\ Parked(queue, epWait, m) => m \in po
           /\ ~Fiber(m)
    PROVE  PlaceInv' /\ NoneDropped'
<1>1. ASSUME NEW c \in Chains
      PROVE  /\ OnceParked(queue', epWait', c)
             /\ Parked(queue', epWait', c) <=> Parked(q, epWait, c)
  <2>1. OnceParked(q, epWait, c)
      OBVIOUS
  <2>2. OnceParked(q, epWait, c) => OnceParked(queue', epWait', c)
      BY SettleLists
  <2>3. Parked(queue', epWait', c) <=> Parked(q, epWait, c)
      BY SettleLists
  <2>4. QED
      BY <2>1, <2>2, <2>3
<1>2. ParkMoves(po, {})
    BY <1>1 DEF ParkMoves
<1>3. FiberMoves({}, {}) /\ PlaceInv /\ NoneDropped
    BY FibersStay DEF Settles, EvalInv
<1>4. ASSUME NEW c \in Chains \ {m} PROVE Live(c) <=> Live(c)'
  <2>1. CASE c \in Modules
    <3>1. c \notin Imports /\ ModuleOK(c)
        BY <2>1, EvalConstants DEF EvalInv, ChainInv
    <3>2. \/ status'[c] = status[c]
          \/ ep[c] = "none" /\ status[c] # "evaluating"
        BY <1>4, <2>1, <3>1 DEF Settles, ModuleOK, Startable
    <3>3. ep'[c] = ep[c]
        BY <1>4, <2>1 DEF Settles, Joins, Strands, EvalInv, TypeInv, TypeOK
    <3>4. QED
        BY <2>1, <3>1, <3>2, <3>3 DEF Live
  <2>2. CASE c \notin Modules
      BY <1>4, <2>2 DEF Live, Settles
  <2>3. QED
      BY <2>1, <2>2
<1>5. ~Live(m)' /\ lost \subseteq lost'
    BY DEF Settles, Joins, Strands, Live
<1>6. PlaceInv'
    BY <1>2, <1>3, <1>4, PlaceMoves
<1>7. NoneDropped'
    BY <1>2, <1>3, <1>4, <1>5, DropMoves
<1>8. QED
    BY <1>6, <1>7

(* What the places say of the chains in them stays true.                   *)
LEMMA SettleChains ==
    ASSUME EvalInv, NEW q \in Seq(Jobs), NEW m \in Modules, NEW st \in Ends,
           NEW why \in Reasons \cup {"none"}, Settles(q, m, st, why), Live(m),
           Range(q) \subseteq Range(queue), UNCHANGED bpWait, starter'[m] = starter[m],
           st = "fulfilled" => bp[m] = "fulfilled", BodyStays,
           \A f \in Range(stack') : f \in Range(stack) \/ FrameOK(f)',
           \A d \in Modules \ {m} :
              (status'[d] = status[d] /\ starter'[d] = starter[d]) \/ ModuleOK(d)'
    PROVE  ChainInv'
<1>1. /\ \A j \in Range(queue') : JobOK(j)'
      /\ \A d \in Modules : \A w \in Range(epWait'[d]) : WaiterOK(d, w)'
      /\ \A d \in Modules \ {m} : ep'[d] = ep[d]
    BY SettleOthers
<1>2. \A f \in Range(stack') : FrameOK(f)'
    BY FramesStayOK DEF Settles
<1>3. ModuleOK(m)'
    BY SettleModule
<1>4. ASSUME NEW d \in Modules \ {m} PROVE ModuleOK(d)'
  <2>1. ModuleOK(d) /\ ep'[d] = ep[d] /\ UNCHANGED <<bp, bpWait, runs>>
      BY <1>1 DEF EvalInv, ChainInv, Settles
  <2>2. QED
      BY <2>1 DEF ModuleOK, Startable
<1>5. QED
    BY <1>1, <1>2, <1>3, <1>4 DEF ChainInv

(* Everyone who began an evaluation can still account for it.              *)
LEMMA SettleByModules ==
    ASSUME EvalInv, NEW q \in Seq(Jobs), NEW m \in Modules, NEW st \in Ends,
           NEW why \in Reasons \cup {"none"}, Settles(q, m, st, why), Live(m),
           Range(q) \subseteq Range(queue),
           \A j \in Range(queue) : j.x # m => j \in Range(q),
           \A f \in Range(stack) : f.at = "step" /\ f.m # m => f \in Range(stack'),
           \A d \in Modules : starter'[d] = starter[d] \/ starter'[d] = m,
           \A d \in Modules : starter'[d] = m => Accounted(m, d)'
    PROVE  ByModules'
<1>1. ASSUME NEW a \in Modules \ {m}, NEW d \in Modules, starter'[d] = a
      PROVE  Accounted(a, d)'
  <2>1. Accounted(a, d)
      BY <1>1 DEF EvalInv, ByModules
  <2>2. QED
      BY <2>1, SettleAccounts
<1>2. QED
    BY <1>1 DEF ByModules

(* Imports are still told the truth.                                       *)
LEMMA SettleImports ==
    ASSUME EvalInv, NEW q \in Seq(Jobs), NEW m \in Modules, NEW st \in Ends,
           NEW why \in Reasons \cup {"none"}, Settles(q, m, st, why), Live(m),
           Range(q) \subseteq Range(queue), UNCHANGED joined,
           \A d \in Modules : starter'[d] = starter[d] \/ starter'[d] = m,
           \A f \in Range(stack') : f.at = "root" => f \in Range(stack)
    PROVE  ByImports' /\ ImportTruthful'
<1>1. OutcomesStay /\ \A j \in Range(queue') : j.do = "fetched" => j \in Range(queue)
    BY SettleOthers
<1>2. joined \subseteq Imports /\ op' = op
    BY DEF EvalInv, TypeInv, Settles
<1>3. \A d \in Modules : \A o \in Imports : starter'[d] = o => starter[d] = o
    BY EvalConstants
<1>4. QED
    BY <1>1, <1>2, <1>3, ImportsStay

(* TakeEvalSettled: the chain leaves the queue and is settled.             *)
LEMMA TakeEvalSettledKeeps ==
    ASSUME EvalInv, TakeEvalSettled
    PROVE  EvalInv'
<1>. PICK j, m, st, why, q :
        /\ j = Head(queue) /\ m = j.x /\ q = Tail(queue)
        /\ st = IF j.do = "bodyDone" THEN "fulfilled" ELSE "rejected"
        /\ why = IF j.do = "bodyDone" THEN "none" ELSE j.why
    OBVIOUS
<1>1. /\ UNCHANGED <<specs, deps, bp, bpWait, awaits, index, op, stack, ret,
                     crashed, histVars>>
      /\ queue # <<>> /\ j.do \in {"evalFail", "bodyDone"} /\ Top.at = "drain"
      /\ status' = [status EXCEPT ![m] = IF st = "fulfilled" THEN "evaluated" ELSE "errored"]
      /\ reason' = IF st = "fulfilled" THEN reason ELSE [reason EXCEPT ![m] = why]
    BY DEF TakeEvalSettled, TakeJob, At, FailState, BodyDone, SettleEval
<1>2. /\ m \in Modules /\ m \in Chains /\ j \in Range(queue) /\ st \in Ends
      /\ why \in Reasons \cup {"none"} /\ q \in Seq(Jobs)
      /\ Range(queue) = {j} \cup Range(q)
    BY <1>1, HeadJob DEF EvalInv, Chains, Ends
<1>3. /\ ~OnStack(stack, m) /\ ~Fiber(m) /\ Live(m) /\ ~Parked(q, epWait, m)
      /\ \A c \in Chains :
            /\ OnceParked(q, epWait, c)
            /\ Parked(q, epWait, c) <=> Parked(queue, epWait, c) /\ c \notin {m}
    BY <1>1, <1>2, HeadAlone
<1>4. status \in [Modules -> Statuses]
    BY DEF EvalInv, TypeInv, TypeOK
<1>5. Settles(q, m, st, why) /\ refusals' \in Nat
  <2>1. Tells(q, m, st, why, 0)
      BY <1>1 DEF TakeEvalSettled, TakeJob, FailState, BodyDone, SettleEval
  <2>2. (Joins(q, m, st, why) \/ Strands(q, m)) /\ refusals' \in Nat
      BY <2>1, TellsHow DEF EvalInv
  <2>3. QED
      BY <1>1, <1>2, <1>4, <2>2 DEF Settles, histVars
<1>6. StackMoves({}, {})
    BY <1>1, Same
<1>7. TypeInv'
  <2>1. status' \in [Modules -> Statuses]
      BY <1>1, <1>2, <1>4 DEF Statuses
  <2>2. /\ ep' \in [Modules -> {"none", "pending", "fulfilled", "rejected"}]
        /\ epWait' \in [Modules -> Seq(Waiters)]
        /\ queue' \in Seq(ModJobs \cup RootJobs)
        /\ reason' \in [Modules -> Reasons \cup {"none"}]
        /\ lost' \subseteq Modules
      BY <1>2, <1>5, SettleTypes
  <2>3. QED
      BY <1>1, <1>5, <2>1, <2>2 DEF EvalInv, TypeInv, TypeOK, histVars
<1>8. LinkInv'
  <2>1. \A d \in Modules : Startable(d) => Startable(d)'
      BY <1>1, <1>3, <1>4 DEF Startable, Live
  <2>2. QED
      BY <1>1, <1>6, <2>1, LinksStay
<1>9. PlaceInv' /\ NoneDropped'
    BY <1>1, <1>2, <1>3, <1>5, <1>6, SettlePlaces
<1>10. ChainInv'
  <2>1. st = "fulfilled" => bp[m] = "fulfilled"
      BY <1>1, <1>2 DEF EvalInv, ChainInv, JobOK
  <2>2. \A d \in Modules \ {m} : status'[d] = status[d]
      BY <1>1, <1>4
  <2>3. BodyStays
      BY <1>1 DEF BodyStays
  <2>4. QED
      BY <1>1, <1>2, <1>3, <1>5, <2>1, <2>2, <2>3, SettleChains DEF histVars
<1>11. ByModules'
  <2>1. OutcomesStay /\ \A d \in Modules \ {m} : reason'[d] = reason[d]
      BY <1>2, <1>3, <1>5, SettleOthers
  <2>2. ASSUME NEW d \in Modules, starter[d] = m PROVE Accounted(m, d)'
    <3>1. Accounted(m, d)
        BY <2>2, <1>2 DEF EvalInv, ByModules
    <3>2. ~CalledFor(m, d)
        BY <1>3 DEF CalledFor, OnStack, Runs
    <3>3. ~Holds(epWait[d], m)
        BY <1>3 DEF Parked, Waits
    <3>4. ~Failed(m, d)
        BY <1>2, <1>3 DEF Failed, Live
    <3>5. CASE status[d] = "evaluated"
        BY <2>1, <3>5 DEF Accounted, OutcomesStay
    <3>6. CASE Fails(m, d)
      <4>1. \A k \in Range(q) : k.x # m
          BY <1>1, HeadAlone
      <4>2. j.do = "evalFail" /\ runs[m] = 0 /\ status[d] = "errored" /\ j.why = reason[d]
          BY <1>2, <3>6, <4>1 DEF Fails
      <4>3. status'[m] = "errored" /\ reason'[m] = j.why /\ runs'[m] = 0
          BY <1>1, <1>2, <1>4, <4>2, Wellknown DEF histVars
      <4>4. status'[d] = "errored" /\ reason'[d] = reason[d]
          BY <2>1, <4>2 DEF OutcomesStay
      <4>5. QED
          BY <4>2, <4>3, <4>4 DEF Accounted, Failed
    <3>7. QED
        BY <3>1, <3>2, <3>3, <3>4, <3>5, <3>6 DEF Accounted, WaitsFor
  <2>3. /\ Range(q) \subseteq Range(queue) /\ \A k \in Range(queue) : k.x # m => k \in Range(q)
        /\ stack' = stack /\ starter' = starter
      BY <1>1, <1>2 DEF histVars
  <2>4. QED
      BY <1>2, <1>3, <1>5, <2>2, <2>3, SettleByModules
<1>12. ByImports' /\ ImportTruthful'
    BY <1>1, <1>2, <1>3, <1>5, SettleImports DEF histVars
<1>13. QED
    BY <1>7, <1>8, <1>9, <1>10, <1>11, <1>12 DEF EvalInv

-----------------------------------------------------------------------------
(* Instantiation and linking.                                              *)

(* A module that links, and where in its list it is.                       *)
LEMMA LinkFrame ==
    ASSUME EvalInv, At("inst") \/ At("link")
    PROVE  /\ stack # <<>> /\ Top \in Range(stack) /\ Links(Top) /\ ChainsOf(Top) = {}
           /\ Top.m \in Modules /\ Startable(Top.m) /\ Top.i \in Nat \ {0}
           /\ [Top EXCEPT !.i = @ + 1] \in Frames
           /\ Links([Top EXCEPT !.i = @ + 1]) /\ [Top EXCEPT !.i = @ + 1].m = Top.m
           /\ \A c : ~Runs([Top EXCEPT !.i = @ + 1], c) /\ ~Runs(Top, c)
<1>1. /\ Top \in [at : {"inst", "link"}, m : Modules, i : Nat \ {0}]
      /\ stack # <<>> /\ Top \in Range(stack)
    BY TopFrame DEF At, EvalInv
<1>. PICK g : g = [Top EXCEPT !.i = @ + 1]
    OBVIOUS
<1>2. /\ g \in [at : {"inst", "link"}, m : Modules, i : Nat \ {0}]
      /\ g.m = Top.m /\ g \in Frames
    BY <1>1 DEF Frames
<1>3. Links(Top) /\ Links(g) /\ \A c : ~Runs(g, c) /\ ~Runs(Top, c)
    BY <1>1, <1>2 DEF Links, Runs
<1>4. Startable(Top.m)
    BY <1>1, <1>3 DEF EvalInv, LinkInv
<1>5. QED
    BY <1>1, <1>2, <1>3, <1>4 DEF ChainsOf

(* A step of instantiation or linking leaves the chains alone.             *)
LEMMA LinkingKeeps ==
    ASSUME EvalInv, TypeInv', StackMoves({}, {}), BodyStays,
           UNCHANGED <<specs, ep, epWait, bp, bpWait, reason, op, queue, runs,
                       starter, joined, lost>>,
           \A m \in Modules : status'[m] = status[m] \/ (Startable(m) /\ Startable(m)'),
           \A m \in Modules : deps'[m] = deps[m] \/ Startable(m),
           \A f \in Range(stack') :
              \/ f \in Range(stack)
              \/ Links(f) /\ f.m \in Modules /\ Startable(f.m)'
              \/ f.at = "root" /\ f.o \in Imports /\ \A d \in Modules : starter[d] # f.o,
           \A f \in Range(stack) : f.at = "step" => f \in Range(stack')
    PROVE  EvalInv'
<1>1. RootsStay /\ OutcomesStay
    BY DEF RootsStay, OutcomesStay, Startable
<1>2. LinkInv'
  <2>1. \A m \in Modules : Startable(m) => Startable(m)'
      BY DEF Startable
  <2>2. \A f \in Range(stack') :
            f \in Range(stack) \/ ~Links(f) \/ (f.m \in Modules /\ Startable(f.m)')
      BY DEF Links
  <2>3. QED
      BY <2>1, <2>2, LinksStay
<1>3. PlaceInv' /\ NoneDropped'
  <2>1. ParkMoves({}, {}) /\ FiberMoves({}, {}) /\ PlaceInv /\ NoneDropped
      BY ParksStay, FibersStay DEF EvalInv
  <2>2. \A c \in Chains : Live(c) <=> Live(c)'
      BY DEF Live, Startable
  <2>3. QED
      BY <2>1, <2>2, PlaceMoves, DropMoves
<1>4. ChainInv' /\ ByModules'
  <2>1. \A f \in Range(stack') : f \in Range(stack) \/ FrameOK(f)'
      BY DEF FrameOK, Links
  <2>2. QED
      BY <1>1, <2>1, Routine
<1>5. ByImports' /\ ImportTruthful'
  <2>1. joined \subseteq Imports
      BY DEF EvalInv, TypeInv
  <2>2. \A f \in Range(stack') : f.at = "root" =>
            \/ f \in Range(stack)
            \/ f.o \in Imports /\ \A d \in Modules : starter[d] # f.o
      BY DEF Links
  <2>3. QED
      BY <1>1, <2>1, <2>2, ImportsStay
<1>6. QED
    BY <1>2, <1>3, <1>4, <1>5 DEF EvalInv

(* The lists of dependencies stay in step with the specifiers.             *)
DepsTyped == /\ deps \in [Modules -> Seq(Modules \cup {NoModule})]
             /\ \A m \in Modules : deps[m] # <<>> => Len(deps[m]) = Len(specs[m])

(* A new array of dependencies has one slot for each specifier.            *)
LEMMA DepsMade ==
    ASSUME EvalInv, NEW d \in Modules, UNCHANGED specs,
           deps' = [deps EXCEPT ![d] = [i \in DOMAIN specs[d] |-> NoModule]]
    PROVE  DepsTyped' /\ \A m \in Modules : deps'[m] = deps[m] \/ m = d
<1>. PICK new : new = [i \in DOMAIN specs[d] |-> NoModule]
    OBVIOUS
<1>1. specs[d] \in Seq(Modules) /\ Len(specs[d]) \in Nat /\ DOMAIN specs[d] = 1..Len(specs[d])
    BY Wellknown, LenProperties
<1>2. new \in [1..Len(specs[d]) -> Modules \cup {NoModule}]
    BY <1>1
<1>3. new \in Seq(Modules \cup {NoModule}) /\ Len(new) = Len(specs[d])
    BY <1>1, <1>2, SeqDef, LenProperties
<1>4. DepsTyped
    BY DEF DepsTyped, EvalInv, TypeInv, TypeOK
<1>5. \A m \in Modules : deps'[m] = IF m = d THEN new ELSE deps[m]
    BY <1>4 DEF DepsTyped
<1>6. QED
    BY <1>3, <1>4, <1>5 DEF DepsTyped

(* Filling a slot keeps the length of the array.                           *)
LEMMA DepSet ==
    ASSUME EvalInv, NEW m \in Modules, NEW i \in Nat, NEW d \in Modules, UNCHANGED specs,
           deps' = [deps EXCEPT ![m][i] = d]
    PROVE  DepsTyped' /\ \A n \in Modules : deps'[n] = deps[n] \/ n = m
<1>1. DepsTyped
    BY DEF DepsTyped, EvalInv, TypeInv, TypeOK
<1>. PICK old, new : old = deps[m] /\ new = [deps[m] EXCEPT ![i] = d]
    OBVIOUS
<1>2. old \in Seq(Modules \cup {NoModule}) /\ new = [old EXCEPT ![i] = d]
    BY <1>1 DEF DepsTyped
<1>3. \A n \in Modules : deps'[n] = IF n = m THEN new ELSE deps[n]
    BY <1>1 DEF DepsTyped
<1>4. /\ new \in Seq(Modules \cup {NoModule}) /\ Len(new) = Len(old)
      /\ new # <<>> => old # <<>>
  <2>1. CASE i \in 1..Len(old)
      BY <1>2, <2>1, ExceptSeq, EmptySeq
  <2>2. CASE i \notin 1..Len(old)
    <3>1. DOMAIN old = 1..Len(old)
        BY <1>2, LenProperties
    <3>2. new = old
      <4>1. old = [k \in DOMAIN old |-> old[k]]
          BY <1>2
      <4>2. new = [k \in DOMAIN old |-> old[k]]
          BY <1>2, <2>2, <3>1
      <4>3. QED
          BY <4>1, <4>2
    <3>3. QED
        BY <1>2, <3>2
  <2>3. QED
      BY <2>1, <2>2
<1>5. QED
    BY <1>1, <1>3, <1>4 DEF DepsTyped

(* InstStep: only modules that have not begun are instantiated.            *)
LEMMA InstStepKeeps ==
    ASSUME EvalInv, InstStep
    PROVE  EvalInv'
<1>. PICK m, i, g : m = Top.m /\ i = Top.i /\ g = [Top EXCEPT !.i = @ + 1]
    OBVIOUS
<1>1. /\ UNCHANGED <<specs, status, ep, epWait, bp, bpWait, awaits, reason, index,
                     op, queue, crashed, lost, histVars>>
      /\ At("inst") /\ refusals' \in Nat
  <2>1. Keeps(0) \/ Keeps(1)
      BY DEF InstStep
  <2>2. refusals' \in Nat /\ lost' = lost
      BY <2>1, RefusedCount DEF Keeps, EvalInv
  <2>3. QED
      BY <2>2 DEF InstStep
<1>2. /\ stack # <<>> /\ Top \in Range(stack) /\ Links(Top) /\ ChainsOf(Top) = {}
      /\ m \in Modules /\ Startable(m) /\ i \in Nat \ {0} /\ g \in Frames
      /\ Links(g) /\ g.m = m /\ \A c : ~Runs(g, c) /\ ~Runs(Top, c)
    BY <1>1, LinkFrame
<1>3. Top.at = "inst" /\ DepsTyped
    BY <1>1 DEF At, DepsTyped, EvalInv, TypeInv, TypeOK
<1>4. /\ DepsTyped' /\ ret' \in {"ok"} \cup Reasons /\ StackMoves({}, {})
      /\ \A n \in Modules : deps'[n] = deps[n] \/ Startable(n)
      /\ \A f \in Range(stack') :
            f \in Range(stack) \/ (Links(f) /\ f.m \in Modules /\ Startable(f.m))
      /\ \A f \in Range(stack) : f.at = "step" => f \in Range(stack')
  <2>1. CASE /\ ret = "ok" /\ i \in DOMAIN specs[m] /\ status[specs[m][i]] # "errored"
             /\ UNCHANGED ret
    <3>. PICK d : d = specs[m][i]
        OBVIOUS
    <3>1. d \in Modules
        BY <1>2, <2>1, Wellknown, LenProperties, ElementOfSeq
    <3>2. CASE NeedsDeps(d)
      <4>. PICK f : f = [at |-> "inst", m |-> d, i |-> 1]
          OBVIOUS
      <4>1. /\ deps' = [deps EXCEPT ![d] = [k \in DOMAIN specs[d] |-> NoModule]]
            /\ stack' = <<f>> \o stack
          BY <2>1, <3>2 DEF InstStep, EnterInst, Push
      <4>2. f \in Frames /\ Links(f) /\ f.m = d /\ ChainsOf(f) = {} /\ \A c : ~Runs(f, c)
        <5>1. f.at \in {"inst", "link"} /\ f.m = d
            OBVIOUS
        <5>2. f \in Frames
            BY <3>1 DEF Frames
        <5>3. QED
            BY <5>1, <5>2 DEF Links, ChainsOf, Runs
      <4>3. StackMoves({}, {}) /\ Range(stack') = {f} \cup Range(stack)
          BY <1>2, <4>1, <4>2, PushOn DEF Links
      <4>4. DepsTyped' /\ \A n \in Modules : deps'[n] = deps[n] \/ n = d
          BY <1>1, <3>1, <4>1, DepsMade
      <4>5. Startable(d)
          BY <3>2 DEF NeedsDeps, Startable
      <4>6. ret' \in {"ok"} \cup Reasons
          BY <2>1
      <4>7. QED
          BY <3>1, <4>2, <4>3, <4>4, <4>5, <4>6
    <3>3. CASE ~NeedsDeps(d)
      <4>1. deps' = [deps EXCEPT ![m][i] = d] /\ stack' = <<g>> \o Tail(stack)
          BY <2>1, <3>3 DEF InstStep, Instead
      <4>2. /\ StackMoves({}, {}) /\ Range(stack') = {g} \cup Range(Tail(stack))
            /\ Range(stack) = {Top} \cup Range(Tail(stack))
          BY <1>2, <4>1, Swap
      <4>3. DepsTyped' /\ \A n \in Modules : deps'[n] = deps[n] \/ n = m
          BY <1>1, <1>2, <3>1, <4>1, DepSet
      <4>4. ret' \in {"ok"} \cup Reasons
          BY <2>1
      <4>5. QED
          BY <1>2, <1>3, <4>2, <4>3, <4>4
    <3>4. QED
        BY <3>2, <3>3
  <2>2. CASE stack' = Tail(stack) /\ UNCHANGED deps /\ ret' \in {ret, "notLoaded", "oom"}
    <3>1. StackMoves({}, {}) /\ Range(stack) = {Top} \cup Range(stack')
        BY <1>2, <2>2, Pop
    <3>2. DepsTyped' /\ ret' \in {"ok"} \cup Reasons
        BY <1>1, <1>3, <2>2 DEF DepsTyped, EvalInv, TypeInv, TypeOK, Reasons
    <3>3. QED
        BY <1>3, <2>2, <3>1, <3>2
  <2>3. QED
      BY <2>1, <2>2 DEF InstStep
<1>5. TypeInv'
    BY <1>1, <1>4 DEF EvalInv, TypeInv, TypeOK, DepsTyped, histVars, StackMoves
<1>6. \A n \in Modules : Startable(n)' <=> Startable(n)
    BY <1>1 DEF Startable
<1>7. BodyStays
    BY <1>1 DEF BodyStays, At
<1>8. QED
    BY <1>1, <1>4, <1>5, <1>6, <1>7, LinkingKeeps DEF histVars

(* LinkStep: only modules that have not begun are linked.                  *)
LEMMA LinkStepKeeps ==
    ASSUME EvalInv, LinkStep
    PROVE  EvalInv'
<1>. PICK m, i, g : m = Top.m /\ i = Top.i /\ g = [Top EXCEPT !.i = @ + 1]
    OBVIOUS
<1>1. /\ UNCHANGED <<specs, deps, ep, epWait, bp, bpWait, awaits, reason, index,
                     op, queue, refusals, crashed, lost, histVars>>
      /\ At("link")
    BY DEF LinkStep, memVars
<1>2. /\ stack # <<>> /\ Top \in Range(stack) /\ Links(Top) /\ ChainsOf(Top) = {}
      /\ m \in Modules /\ Startable(m) /\ i \in Nat \ {0} /\ g \in Frames
      /\ Links(g) /\ g.m = m /\ \A c : ~Runs(g, c) /\ ~Runs(Top, c)
    BY <1>1, LinkFrame
<1>3. Top.at = "link" /\ status \in [Modules -> Statuses] /\ ret \in {"ok"} \cup Reasons
    BY <1>1 DEF At, EvalInv, TypeInv, TypeOK
<1>4. ASSUME NEW d \in Modules, Startable(d), NEW to \in {"linking", "linked"},
             status' = [status EXCEPT ![d] = to]
      PROVE  /\ status' \in [Modules -> Statuses]
             /\ \A n \in Modules : status'[n] = status[n] \/ (Startable(n) /\ Startable(n)')
    BY <1>3, <1>4 DEF Statuses, Startable
<1>5. /\ status' \in [Modules -> Statuses] /\ ret' \in {"ok"} \cup Reasons /\ StackMoves({}, {})
      /\ \A n \in Modules : status'[n] = status[n] \/ (Startable(n) /\ Startable(n)')
      /\ \A f \in Range(stack') :
            f \in Range(stack) \/ (Links(f) /\ f.m \in Modules /\ Startable(f.m))
      /\ \A f \in Range(stack) : f.at = "step" => f \in Range(stack')
  <2>1. CASE stack' = Tail(stack) /\ ret' \in {ret, "unresolved"}
             /\ (UNCHANGED status \/ status' = [status EXCEPT ![m] = "linked"])
    <3>1. StackMoves({}, {}) /\ Range(stack) = {Top} \cup Range(stack')
        BY <1>2, <2>1, Pop
    <3>2. ret' \in {"ok"} \cup Reasons
        BY <1>3, <2>1 DEF Reasons
    <3>3. /\ status' \in [Modules -> Statuses]
          /\ \A n \in Modules : status'[n] = status[n] \/ (Startable(n) /\ Startable(n)')
        BY <1>2, <1>3, <1>4, <2>1
    <3>4. QED
        BY <1>3, <2>1, <3>1, <3>2, <3>3
  <2>2. CASE stack' = <<g>> \o Tail(stack) /\ UNCHANGED <<status, ret>>
    <3>1. /\ StackMoves({}, {}) /\ Range(stack') = {g} \cup Range(Tail(stack))
          /\ Range(stack) = {Top} \cup Range(Tail(stack))
        BY <1>2, <2>2, Swap
    <3>2. QED
        BY <1>2, <1>3, <2>2, <3>1
  <2>3. CASE i \in DOMAIN deps[m] /\ EnterLink(deps[m][i]) /\ deps[m][i] # NoModule
             /\ NeedsLink(deps[m][i]) /\ UNCHANGED ret
    <3>. PICK d, f : d = deps[m][i] /\ f = [at |-> "link", m |-> d, i |-> 1]
        OBVIOUS
    <3>1. d \in Modules
      <4>1. deps[m] \in Seq(Modules \cup {NoModule}) /\ i \in 1..Len(deps[m])
          BY <1>2, <2>3, Wellknown, LenProperties
      <4>2. QED
          BY <2>3, <4>1, ElementOfSeq
    <3>2. status' = [status EXCEPT ![d] = "linking"] /\ stack' = <<f>> \o stack
        BY <2>3 DEF EnterLink, Push
    <3>3. f \in Frames /\ Links(f) /\ f.m = d /\ ChainsOf(f) = {} /\ \A c : ~Runs(f, c)
      <4>1. f.at \in {"inst", "link"} /\ f.m = d
          OBVIOUS
      <4>2. f \in Frames
          BY <3>1 DEF Frames
      <4>3. QED
          BY <4>1, <4>2 DEF Links, ChainsOf, Runs
    <3>4. StackMoves({}, {}) /\ Range(stack') = {f} \cup Range(stack)
        BY <1>2, <3>2, <3>3, PushOn DEF Links
    <3>5. Startable(d)
        BY <2>3 DEF NeedsLink, Startable
    <3>6. /\ status' \in [Modules -> Statuses]
          /\ \A n \in Modules : status'[n] = status[n] \/ (Startable(n) /\ Startable(n)')
        BY <1>4, <3>1, <3>2, <3>5
    <3>7. QED
        BY <1>3, <2>3, <3>1, <3>3, <3>4, <3>5, <3>6
  <2>4. QED
      BY <2>1, <2>2, <2>3 DEF LinkStep, Instead
<1>6. TypeInv'
    BY <1>1, <1>5 DEF EvalInv, TypeInv, TypeOK, histVars, StackMoves
<1>7. \A n \in Modules : Startable(n) => Startable(n)'
    BY <1>5 DEF Startable
<1>8. BodyStays
    BY <1>1 DEF BodyStays, At
<1>9. QED
    BY <1>1, <1>5, <1>6, <1>7, <1>8, LinkingKeeps DEF histVars

-----------------------------------------------------------------------------
(* The last part of an import.                                             *)
LEMMA RootFrame ==
    ASSUME EvalInv, At("root")
    PROVE  /\ stack # <<>> /\ Top \in Range(stack) /\ ~Links(Top) /\ Top.at = "root"
           /\ Top.o \in Imports /\ Top.o \in Chains /\ Top.o \notin Modules
           /\ op[Top.o].st = "loaded" /\ op[Top.o].root \in Modules
           /\ ChainsOf(Top) = {Top.o} /\ (\A c \in Chains : Runs(Top, c) <=> c = Top.o)
           /\ ~OnStack(Tail(stack), Top.o) /\ ~Parked(queue, epWait, Top.o) /\ ~Fiber(Top.o)
           /\ Top.phase # "done" => \A d \in Modules : starter[d] # Top.o
<1>1. /\ Top \in [at : {"root"}, o : Imports, phase : {"inst", "link", "eval", "done"}]
      /\ stack # <<>> /\ Top \in Range(stack)
    BY TopFrame DEF At, EvalInv
<1>2. /\ Top.o \in Imports /\ Top.o \in Chains /\ Top.o \notin Modules
      /\ op[Top.o].st = "loaded" /\ op[Top.o].root \in Modules
    BY <1>1, RootIsModule, EvalConstants DEF Chains
<1>3. ChainsOf(Top) = {Top.o} /\ (\A c \in Chains : Runs(Top, c) <=> c = Top.o) /\ ~Links(Top)
    BY <1>1, <1>2 DEF ChainsOf, Runs, Links
<1>4. ~OnStack(Tail(stack), Top.o) /\ ~Parked(queue, epWait, Top.o) /\ ~Fiber(Top.o)
    BY <1>1, <1>2, <1>3, TopAlone
<1>5. Top.phase # "done" => \A d \in Modules : starter[d] # Top.o
    BY <1>1, <1>2 DEF EvalInv, ByImports
<1>6. QED
    BY <1>1, <1>2, <1>3, <1>4, <1>5

(* The frame of an import at its next phase runs the same import.          *)
LEMMA RootPhase ==
    ASSUME EvalInv, At("root"), NEW ph \in {"inst", "link", "eval", "done"},
           NEW g, g = [Top EXCEPT !.phase = ph]
    PROVE  /\ g \in Frames /\ g.at = "root" /\ g.o = Top.o /\ g.phase = ph /\ ~Links(g)
           /\ \A c \in Chains : Runs(g, c) <=> Runs(Top, c)
<1>1. Top \in [at : {"root"}, o : Imports, phase : {"inst", "link", "eval", "done"}]
    BY TopFrame DEF At, EvalInv
<1>2. /\ g \in [at : {"root"}, o : Imports, phase : {"inst", "link", "eval", "done"}]
      /\ g.at = "root" /\ g.o = Top.o /\ g.phase = ph
    BY <1>1
<1>3. g \in Frames
    BY <1>2 DEF Frames
<1>4. QED
    BY <1>1, <1>2, <1>3 DEF Links, Runs

(* An import is answered: rejected, or fulfilled with an evaluated root or *)
(* without waiting for it.                                                 *)
LEMMA RootLeft ==
    ASSUME EvalInv, At("root"), NEW st \in {"fulfilled", "rejected"},
           NEW why \in Reasons \cup {"none"}, RootLeaves(st, why),
           UNCHANGED <<modVars, queue, runs, starter, crashed, lost>>,
           refusals' \in Nat,
           \/ joined' = joined
           \/ st = "fulfilled" /\ joined' = joined \cup {Top.o} /\ Top.phase # "done",
           st = "fulfilled" => status[op[Top.o].root] = "evaluated" \/ Top.o \in joined'
    PROVE  EvalInv'
<1>. PICK o : o = Top.o
    OBVIOUS
<1>1. /\ stack # <<>> /\ Top \in Range(stack) /\ ~Links(Top) /\ Top.at = "root"
      /\ o \in Imports /\ o \in Chains /\ o \notin Modules
      /\ op[o].st = "loaded" /\ ChainsOf(Top) = {o}
      /\ ~Parked(queue, epWait, o) /\ ~Fiber(o)
      /\ Top.phase # "done" => \A d \in Modules : starter[d] # o
    BY RootFrame
<1>2. op' = [op EXCEPT ![o].st = st, ![o].why = why] /\ stack' = Tail(stack) /\ ret' = "ok"
    BY DEF RootLeaves
<1>3. /\ op' \in [Imports -> Operations]
      /\ \A p \in Imports : op'[p].st # "idle" => op'[p].root \in Modules
      /\ op'[o].root = op[o].root /\ op'[o].st = st
      /\ \A p \in Imports \ {o} : op'[p] = op[p]
      /\ RootsStay
  <2>1. st \in {"loaded", "fulfilled", "rejected"} /\ op[o].st # "idle"
      BY <1>1
  <2>2. QED
      BY <1>1, <1>2, <2>1, OpSet
<1>4. OutcomesStay
    BY DEF OutcomesStay, modVars
<1>5. StackMoves({o}, {}) /\ Range(stack) = {Top} \cup Range(stack')
    BY <1>1, <1>2, Pop
<1>6. joined \subseteq joined' /\ joined' \subseteq Imports
    BY <1>1 DEF EvalInv, TypeInv
<1>7. TypeInv'
    BY <1>2, <1>3, <1>5, <1>6 DEF EvalInv, TypeInv, TypeOK, modVars, Operations, StackMoves
<1>8. LinkInv'
    BY <1>5, LinksStay DEF Startable, modVars
<1>9. PlaceInv' /\ NoneDropped'
  <2>1. ParkMoves({}, {}) /\ FiberMoves({}, {}) /\ PlaceInv /\ NoneDropped
      BY ParksStay, FibersStay DEF EvalInv, modVars
  <2>2. \A c \in Chains \ {o} : Live(c) <=> Live(c)'
      BY <1>3 DEF Live, modVars
  <2>3. ~Live(o)'
      BY <1>1, <1>3 DEF Live
  <2>4. QED
      BY <1>1, <1>5, <2>1, <2>2, <2>3, PlaceMoves, DropMoves
<1>10. ChainInv' /\ ByModules'
  <2>1. \A f \in Range(stack) : f.at = "step" => f \in Range(stack')
      BY <1>1, <1>5
  <2>2. BodyStays
      BY <1>1 DEF BodyStays, At
  <2>3. QED
      BY <1>3, <1>5, <2>1, <2>2, Routine DEF modVars
<1>11. ByImports' /\ ImportTruthful'
  <2>1. \A p \in joined' \ joined :
            op'[p].st = "fulfilled" /\ \A d \in Modules : starter[d] # p
      BY <1>1, <1>3
  <2>2. \/ st = "rejected"
        \/ st = "fulfilled" /\ (status[op[o].root] = "evaluated" \/ o \in joined')
      OBVIOUS
  <2>3. \A p \in Imports :
            \/ op'[p] = op[p]
            \/ /\ op[p].st = "loaded" /\ op'[p].root = op[p].root
               /\ \/ op'[p].st = "rejected"
                  \/ /\ op'[p].st = "fulfilled"
                     /\ status[op[p].root] = "evaluated" \/ p \in joined'
      BY <1>1, <1>3, <2>2
  <2>4. QED
      BY <1>4, <1>5, <1>6, <2>1, <2>3, ImportsStay
<1>12. QED
    BY <1>7, <1>8, <1>9, <1>10, <1>11 DEF EvalInv

(* RootInstantiates: instantiation begins above the import's frame.        *)
LEMMA RootInstantiatesKeeps ==
    ASSUME EvalInv, RootInstantiates
    PROVE  EvalInv'
<1>. PICK o, m, g, f : /\ o = Top.o /\ m = op[o].root /\ g = [Top EXCEPT !.phase = "link"]
                       /\ f = [at |-> "inst", m |-> m, i |-> 1]
    OBVIOUS
<1>1. /\ UNCHANGED <<specs, status, ep, epWait, bp, bpWait, awaits, reason, index,
                     queue, crashed, lost, histVars>>
      /\ At("root") /\ Top.phase = "inst" /\ refusals' \in Nat
  <2>1. Keeps(0) \/ Keeps(1)
      BY DEF RootInstantiates
  <2>2. refusals' \in Nat /\ lost' = lost
      BY <2>1, RefusedCount DEF Keeps, EvalInv
  <2>3. QED
      BY <2>2 DEF RootInstantiates
<1>0. CASE RootLeaves("rejected", "oom") /\ UNCHANGED deps
  <2>1. "oom" \in Reasons
      BY DEF Reasons
  <2>2. QED
      BY <1>0, <1>1, <2>1, RootLeft DEF modVars, histVars
<1>. SUFFICES ASSUME ~(RootLeaves("rejected", "oom") /\ UNCHANGED deps)
     PROVE  EvalInv'
    BY <1>0
<1>2. /\ stack # <<>> /\ ~Links(Top) /\ Top.at = "root" /\ o \in Imports /\ m \in Modules
      /\ \A d \in Modules : starter[d] # o
    BY <1>1, RootFrame
<1>3. /\ g \in Frames /\ g.at = "root" /\ g.o = o /\ ~Links(g)
      /\ \A c \in Chains : Runs(g, c) <=> Runs(Top, c)
    BY <1>1, RootPhase
<1>4. f \in Frames /\ Links(f) /\ f.m = m /\ ChainsOf(f) = {} /\ \A c : ~Runs(f, c)
  <2>1. f.at = "inst" /\ f.m = m
      OBVIOUS
  <2>2. f \in Frames
      BY <1>2 DEF Frames
  <2>3. QED
      BY <2>1, <2>2 DEF Links, ChainsOf, Runs
<1>5. /\ DepsTyped' /\ StackMoves({}, {}) /\ UNCHANGED <<op, ret>>
      /\ \A n \in Modules : deps'[n] = deps[n] \/ Startable(n)
      /\ \A h \in Range(stack') :
            h \in Range(stack) \/ h = g \/ (Links(h) /\ h.m \in Modules /\ Startable(h.m))
      /\ \A h \in Range(stack) : h.at = "step" => h \in Range(stack')
  <2>1. CASE NeedsDeps(m)
    <3>1. /\ deps' = [deps EXCEPT ![m] = [i \in DOMAIN specs[m] |-> NoModule]]
          /\ stack' = <<f, g>> \o Tail(stack) /\ UNCHANGED <<op, ret>>
        BY <2>1 DEF RootInstantiates, Then
    <3>2. /\ StackMoves({}, {}) /\ Range(stack') = {f, g} \cup Range(Tail(stack))
          /\ Range(stack) = {Top} \cup Range(Tail(stack))
        BY <1>2, <1>3, <1>4, <3>1, SwapPush
    <3>3. DepsTyped' /\ \A n \in Modules : deps'[n] = deps[n] \/ n = m
        BY <1>1, <1>2, <3>1, DepsMade
    <3>4. Startable(m)
        BY <2>1 DEF NeedsDeps, Startable
    <3>5. QED
        BY <1>2, <1>4, <3>1, <3>2, <3>3, <3>4
  <2>2. CASE ~NeedsDeps(m)
    <3>1. stack' = <<g>> \o Tail(stack) /\ UNCHANGED <<deps, op, ret>>
        BY <2>2 DEF RootInstantiates, Instead
    <3>2. /\ StackMoves({}, {}) /\ Range(stack') = {g} \cup Range(Tail(stack))
          /\ Range(stack) = {Top} \cup Range(Tail(stack))
        BY <1>2, <1>3, <3>1, Swap
    <3>3. DepsTyped'
        BY <1>1, <3>1 DEF DepsTyped, EvalInv, TypeInv, TypeOK
    <3>4. QED
        BY <1>2, <3>1, <3>2, <3>3
  <2>3. QED
      BY <2>1, <2>2
<1>6. TypeInv'
    BY <1>1, <1>5 DEF EvalInv, TypeInv, TypeOK, DepsTyped, histVars, StackMoves
<1>7. \A n \in Modules : Startable(n)' <=> Startable(n)
    BY <1>1 DEF Startable
<1>8. BodyStays
    BY <1>1 DEF BodyStays, At
<1>9. QED
    BY <1>1, <1>2, <1>3, <1>5, <1>6, <1>7, <1>8, LinkingKeeps DEF histVars

(* RootLinks: the import is rejected or linking begins above its frame.    *)
LEMMA RootLinksKeeps ==
    ASSUME EvalInv, RootLinks
    PROVE  EvalInv'
<1>. PICK o, m, g, f : /\ o = Top.o /\ m = op[o].root /\ g = [Top EXCEPT !.phase = "eval"]
                       /\ f = [at |-> "link", m |-> m, i |-> 1]
    OBVIOUS
<1>1. /\ UNCHANGED <<specs, deps, ep, epWait, bp, bpWait, awaits, reason, index,
                     queue, refusals, crashed, lost, histVars>>
      /\ At("root") /\ Top.phase = "link"
    BY DEF RootLinks, memVars
<1>2. /\ stack # <<>> /\ ~Links(Top) /\ Top.at = "root" /\ o \in Imports /\ m \in Modules
      /\ \A d \in Modules : starter[d] # o
    BY <1>1, RootFrame
<1>3. /\ g \in Frames /\ g.at = "root" /\ g.o = o /\ ~Links(g)
      /\ \A c \in Chains : Runs(g, c) <=> Runs(Top, c)
    BY <1>1, RootPhase
<1>4. f \in Frames /\ Links(f) /\ f.m = m /\ ChainsOf(f) = {} /\ \A c : ~Runs(f, c)
  <2>1. f.at = "link" /\ f.m = m
      OBVIOUS
  <2>2. f \in Frames
      BY <1>2 DEF Frames
  <2>3. QED
      BY <2>1, <2>2 DEF Links, ChainsOf, Runs
<1>5. /\ status \in [Modules -> Statuses] /\ ret \in {"ok"} \cup Reasons
      /\ refusals \in Nat
    BY DEF EvalInv, TypeInv, TypeOK
<1>6. CASE ret # "ok" /\ RootLeaves("rejected", ret) /\ UNCHANGED status
    BY <1>1, <1>5, <1>6, RootLeft DEF modVars, histVars
<1>7. CASE ~(ret # "ok" /\ RootLeaves("rejected", ret) /\ UNCHANGED status)
  <2>1. /\ status' \in [Modules -> Statuses] /\ StackMoves({}, {}) /\ UNCHANGED <<op, ret>>
        /\ \A n \in Modules : status'[n] = status[n] \/ (Startable(n) /\ Startable(n)')
        /\ \A h \in Range(stack') :
              h \in Range(stack) \/ h = g \/ (Links(h) /\ h.m \in Modules /\ Startable(h.m))
        /\ \A h \in Range(stack) : h.at = "step" => h \in Range(stack')
    <3>1. CASE NeedsLink(m)
      <4>1. /\ status' = [status EXCEPT ![m] = "linking"] /\ UNCHANGED <<op, ret>>
            /\ stack' = <<f, g>> \o Tail(stack)
          BY <1>7, <3>1 DEF RootLinks, Then
      <4>2. /\ StackMoves({}, {}) /\ Range(stack') = {f, g} \cup Range(Tail(stack))
            /\ Range(stack) = {Top} \cup Range(Tail(stack))
          BY <1>2, <1>3, <1>4, <4>1, SwapPush
      <4>3. Startable(m)
          BY <3>1 DEF NeedsLink, Startable
      <4>4. /\ status' \in [Modules -> Statuses]
            /\ \A n \in Modules : status'[n] = status[n] \/ (Startable(n) /\ Startable(n)')
          BY <1>2, <1>5, <4>1, <4>3 DEF Statuses, Startable
      <4>5. QED
          BY <1>2, <1>4, <4>1, <4>2, <4>3, <4>4
    <3>2. CASE ~NeedsLink(m)
      <4>1. stack' = <<g>> \o Tail(stack) /\ UNCHANGED <<status, op, ret>>
          BY <1>7, <3>2 DEF RootLinks, Instead
      <4>2. /\ StackMoves({}, {}) /\ Range(stack') = {g} \cup Range(Tail(stack))
            /\ Range(stack) = {Top} \cup Range(Tail(stack))
          BY <1>2, <1>3, <4>1, Swap
      <4>3. QED
          BY <1>2, <1>5, <4>1, <4>2
    <3>3. QED
        BY <3>1, <3>2
  <2>2. TypeInv'
      BY <1>1, <2>1 DEF EvalInv, TypeInv, TypeOK, histVars, StackMoves
  <2>3. \A n \in Modules : Startable(n) => Startable(n)'
      BY <2>1 DEF Startable
  <2>4. BodyStays
      BY <1>1 DEF BodyStays, At
  <2>5. QED
      BY <1>1, <1>2, <1>3, <2>1, <2>2, <2>3, <2>4, LinkingKeeps DEF histVars
<1>8. QED
    BY <1>6, <1>7

(* A chain begins.  Until then the module was in no place.                 *)
Starts(d, by) ==
    /\ status' = [status EXCEPT ![d] = "evaluating"]
    /\ starter' = [starter EXCEPT ![d] = by]

(* The module that begins had no place, and nobody else is touched.        *)
LEMMA StartOthers ==
    ASSUME EvalInv, NEW d \in Modules, Startable(d),
           NEW by \in Modules \cup Imports, Starts(d, by)
    PROVE  /\ status' \in [Modules -> Statuses] /\ status'[d] = "evaluating"
           /\ starter' \in [Modules -> Modules \cup Imports \cup {NoModule}] /\ starter'[d] = by
           /\ \A n \in Modules \ {d} : status'[n] = status[n] /\ starter'[n] = starter[n]
           /\ ~OnStack(stack, d) /\ ~Parked(queue, epWait, d) /\ ~Fiber(d)
           /\ runs[d] = 0 /\ ep[d] = "none" /\ starter[d] = NoModule
<1>1. status \in [Modules -> Statuses]
    BY DEF EvalInv, TypeInv, TypeOK
<1>2. status' \in [Modules -> Statuses] /\ status'[d] = "evaluating"
    BY <1>1 DEF Starts, Statuses
<1>3. starter \in [Modules -> Modules \cup Imports \cup {NoModule}]
    BY DEF EvalInv, TypeInv
<1>4. /\ starter' \in [Modules -> Modules \cup Imports \cup {NoModule}]
      /\ starter'[d] = by
    BY <1>3 DEF Starts
<1>5. \A n \in Modules \ {d} : status'[n] = status[n] /\ starter'[n] = starter[n]
    BY <1>1, <1>3 DEF Starts
<1>6. ~OnStack(stack, d) /\ ~Parked(queue, epWait, d) /\ ~Fiber(d)
  <2>1. ~Live(d)
      BY DEF Live, Startable
  <2>2. ~InPlace(d)
      BY <2>1 DEF EvalInv, PlaceInv, Chains
  <2>3. QED
      BY <2>2 DEF InPlace
<1>7. runs[d] = 0 /\ ep[d] = "none" /\ starter[d] = NoModule
  <2>1. ModuleOK(d)
      BY DEF EvalInv, ChainInv
  <2>2. QED
      BY <2>1 DEF ModuleOK, Startable
<1>8. QED
    BY <1>2, <1>4, <1>5, <1>6, <1>7

(* Beginning an evaluation keeps what the places say and every outcome.    *)
LEMMA StartChains ==
    ASSUME EvalInv, NEW d \in Modules, Startable(d),
           NEW by \in Modules \cup Imports, by # d, Starts(d, by),
           UNCHANGED <<deps, queue, epWait, bp, bpWait, reason, runs>>, RootsStay,
           \A n \in Modules : ep'[n] = ep[n] \/ (n = d /\ ep'[n] = "pending"), BodyStays,
           \A f \in Range(stack') : f \in Range(stack) \/ FrameOK(f)'
    PROVE  ChainInv' /\ OutcomesStay
<1>1. /\ status'[d] = "evaluating" /\ starter'[d] = by /\ runs[d] = 0 /\ ep[d] = "none"
      /\ \A n \in Modules \ {d} : status'[n] = status[n] /\ starter'[n] = starter[n]
    BY StartOthers
<1>2. OutcomesStay
    BY <1>1 DEF OutcomesStay, Startable
<1>3. \A f \in Range(stack') : FrameOK(f)'
    BY FramesStayOK
<1>4. \A j \in Range(queue') : JobOK(j)'
    BY <1>2, JobsStayOK
<1>5. \A e \in Modules : \A w \in Range(epWait'[e]) : WaiterOK(e, w)'
    BY WaitersStayOK
<1>6. ASSUME NEW n \in Modules PROVE ModuleOK(n)'
  <2>1. ModuleOK(n)
      BY DEF EvalInv, ChainInv
  <2>2. CASE n = d
      BY <1>1, <2>1, <2>2 DEF ModuleOK, Startable
  <2>3. CASE n # d
      BY <1>1, <2>1, <2>3 DEF ModuleOK, Startable
  <2>4. QED
      BY <2>2, <2>3
<1>7. QED
    BY <1>2, <1>3, <1>4, <1>5, <1>6 DEF ChainInv

(* A stack without linking frames is nested.                               *)
LEMMA NothingLinks ==
    ASSUME NEW from, NEW to, StackMoves(from, to), \A f \in Range(stack') : ~Links(f)
    PROVE  LinkInv'
BY DEF LinkInv, StackMoves

(* An import begins an evaluation, with its frame at the last phase or     *)
(* gone and the import rejected.                                           *)
LEMMA StartByImport ==
    ASSUME EvalInv, At("root"), Top.phase # "done", NEW o, o = Top.o,
           NEW m, m = op[o].root, Startable(m), Starts(m, o),
           UNCHANGED <<deps, queue, epWait, bp, bpWait, reason, runs, joined>>,
           \A n \in Modules : ep'[n] = ep[n] \/ (n = m /\ ep'[n] = "pending"),
           \A p \in Imports \ {o} : op'[p] = op[p],
           op'[o].root = m, op'[o].st \in {"loaded", "rejected"},
           \A f \in Range(stack') :
              \/ f \in Range(Tail(stack))
              \/ f.at = "root" /\ f.o = o /\ f.phase = "done"
              \/ f.at = "step" /\ f.m = m /\ ~f.called,
           Range(Tail(stack)) \subseteq Range(stack')
    PROVE  ChainInv' /\ ByModules' /\ ByImports' /\ ImportTruthful'
<1>1. /\ stack # <<>> /\ Top.at = "root" /\ o \in Imports /\ o \in Chains /\ o \notin Modules
      /\ op[o].st = "loaded" /\ m \in Modules
      /\ ~OnStack(Tail(stack), o) /\ ~Parked(queue, epWait, o)
      /\ \A d \in Modules : starter[d] # o
    BY RootFrame
<1>2. Range(stack) = {Top} \cup Range(Tail(stack))
    BY <1>1, TopFrame DEF EvalInv
<1>3. /\ status'[m] = "evaluating" /\ starter'[m] = o /\ runs[m] = 0 /\ ep[m] = "none"
      /\ \A n \in Modules \ {m} : status'[n] = status[n] /\ starter'[n] = starter[n]
    BY <1>1, StartOthers
<1>4. RootsStay
    BY <1>1 DEF RootsStay
<1>5. ChainInv' /\ OutcomesStay
  <2>1. \A f \in Range(stack') : f \in Range(stack) \/ FrameOK(f)'
      BY <1>2, <1>3 DEF FrameOK
  <2>2. BodyStays
      BY <1>1 DEF BodyStays, At
  <2>3. QED
      BY <1>1, <1>4, <2>1, <2>2, StartChains
<1>6. ByModules'
  <2>1. ASSUME NEW a \in Modules, NEW d \in Modules, starter'[d] = a PROVE Accounted(a, d)'
    <3>1. d # m /\ starter[d] = a
        BY <1>1, <1>3, <2>1
    <3>2. Accounted(a, d)
        BY <3>1 DEF EvalInv, ByModules
    <3>3. \A f \in Range(stack) : f.at = "step" /\ f.m = a /\ f.called =>
              f \in Range(stack') /\ deps'[a] = deps[a]
        BY <1>1, <1>2
    <3>4. QED
        BY <1>5, <3>2, <3>3, AccountStays
  <2>2. QED
      BY <2>1 DEF ByModules
<1>7. ByImports'
  <2>1. ByImports
      BY DEF EvalInv
  <2>2. o \notin joined
      BY <1>1, <2>1 DEF ByImports
  <2>3. \A j \in Range(queue) : j.x # o
      BY <1>1 DEF Parked, Holds
  <2>4. \A f \in Range(Tail(stack)) : f.at = "root" => f.o # o
      BY <1>1 DEF OnStack, Runs
  <2>5. \A p \in joined' : op'[p].st = "fulfilled"
      BY <2>1, <2>2 DEF ByImports, EvalInv, TypeInv
  <2>6. ASSUME NEW d \in Modules, NEW p \in Imports, starter'[d] = p
        PROVE  /\ op'[p].st \notin {"idle", "loading"} /\ p \notin joined' /\ d = op'[p].root
               /\ \A j \in Range(queue') : j.x = p => j.do # "fetched"
               /\ \A f \in Range(stack') : f.at = "root" /\ f.o = p => f.phase = "done"
    <3>1. CASE d = m
      <4>1. p = o
          BY <1>3, <2>6, <3>1
      <4>2. QED
          BY <1>1, <2>2, <2>3, <2>4, <3>1, <4>1
    <3>2. CASE d # m
      <4>1. starter[d] = p /\ p # o
          BY <1>1, <1>3, <2>6, <3>2
      <4>2. QED
          BY <1>2, <2>1, <4>1 DEF ByImports
    <3>3. QED
        BY <3>1, <3>2
  <2>7. QED
      BY <2>5, <2>6 DEF ByImports
<1>8. ImportTruthful'
  <2>1. ASSUME NEW p \in Imports \ joined', op'[p].st = "fulfilled"
        PROVE  status'[op'[p].root] = "evaluated"
    <3>1. p # o /\ op'[p] = op[p] /\ p \notin joined
        BY <2>1
    <3>2. status[op[p].root] = "evaluated" /\ op[p].root \in Modules
        BY <2>1, <3>1 DEF EvalInv, ImportTruthful, TypeInv
    <3>3. QED
        BY <1>5, <3>1, <3>2 DEF OutcomesStay
  <2>2. QED
      BY <2>1 DEF ImportTruthful
<1>9. QED
    BY <1>5, <1>6, <1>7, <1>8

(* The frame on top goes on as g and the evaluation of d enters eval_step  *)
(* above it, or is left behind at once.                                    *)
LEMMA EnterPlaces ==
    ASSUME EvalInv, stack # <<>>, ~Links(Top), NEW g \in Frames, ~Links(g), g.at # "body",
           \A c \in Chains : Runs(g, c) <=> Runs(Top, c),
           NEW d \in Modules, ~OnStack(stack, d), EnterStep(d, 1, Instead(g), 0)
    PROVE  /\ StackMoves({}, {d}) \/ (StackMoves({}, {}) /\ d \in lost')
           /\ {g} \cup Range(Tail(stack)) \subseteq Range(stack')
           /\ \A h \in Range(stack') : \/ h \in {g} \cup Range(Tail(stack))
                                       \/ h.at = "step" /\ h.m = d /\ ~h.called
           /\ \A h \in Range(stack') : ~Links(h)
           /\ Range(stack) = {Top} \cup Range(Tail(stack))
           /\ refusals' \in Nat /\ lost \subseteq lost' /\ lost' \subseteq Modules
<1>1. /\ refusals' \in Nat
      /\ \/ \E k \in Nat \ {0} : /\ stack' = <<Step(d, k)>> \o (<<g>> \o Tail(stack))
                                 /\ lost' = lost
         \/ stack' = <<g>> \o Tail(stack) /\ lost' = lost \cup {d}
  <2>1. TypeInv /\ 1 \in Nat \ {0} /\ 0 \in Nat
      BY DEF EvalInv
  <2>2. /\ refusals' \in Nat
        /\ \/ \E k \in Nat \ {0} : stack' = <<Step(d, k)>> \o Instead(g) /\ lost' = lost
           \/ stack' = Instead(g) /\ lost' = lost \cup {d}
      BY <2>1, Entered
  <2>3. QED
      BY <2>2 DEF Instead
<1>2. Range(stack) = {Top} \cup Range(Tail(stack)) /\ Tail(stack) \in Seq(Frames)
    BY TopFrame DEF EvalInv
<1>3. \A h \in Range(stack) : ~Links(h)
    BY TopAlone
<1>4. lost \subseteq lost' /\ lost' \subseteq Modules
    BY <1>1 DEF EvalInv, TypeInv, TypeOK
<1>5. ASSUME NEW k \in Nat \ {0}, stack' = <<Step(d, k)>> \o (<<g>> \o Tail(stack))
      PROVE  /\ StackMoves({}, {d})
             /\ Range(stack') = {Step(d, k), g} \cup Range(Tail(stack))
  <2>. PICK f : f = Step(d, k)
      OBVIOUS
  <2>1. f \in Frames /\ f.at = "step" /\ f.m = d
      BY FrameTypes DEF Step
  <2>2. ChainsOf(f) = {d} /\ \A c \in Chains : Runs(f, c) => ~OnStack(stack, c)
      BY <2>1 DEF ChainsOf, Runs, Chains
  <2>3. stack' = <<f, g>> \o Tail(stack)
      BY <1>2, <1>5, <2>1, PushedTwo
  <2>4. QED
      BY <2>1, <2>2, <2>3, SwapPush
<1>6. CASE \E k \in Nat \ {0} : stack' = <<Step(d, k)>> \o (<<g>> \o Tail(stack)) /\ lost' = lost
  <2>1. PICK k \in Nat \ {0} : stack' = <<Step(d, k)>> \o (<<g>> \o Tail(stack))
      BY <1>6
  <2>2. /\ StackMoves({}, {d})
        /\ Range(stack') = {Step(d, k), g} \cup Range(Tail(stack))
      BY <1>5, <2>1
  <2>3. Step(d, k).at = "step" /\ Step(d, k).m = d /\ ~Step(d, k).called
      BY DEF Step
  <2>4. \A h \in Range(stack') : ~Links(h)
      BY <1>2, <1>3, <2>2, <2>3 DEF Links
  <2>5. QED
      BY <1>1, <1>2, <1>4, <2>2, <2>3, <2>4
<1>7. CASE stack' = <<g>> \o Tail(stack) /\ lost' = lost \cup {d}
  <2>1. StackMoves({}, {}) /\ Range(stack') = {g} \cup Range(Tail(stack))
      BY <1>7, Swap
  <2>2. QED
      BY <1>1, <1>2, <1>3, <1>4, <1>7, <2>1
<1>8. QED
    BY <1>1, <1>6, <1>7

(* The chain that begins has its place on the stack, or is left behind.    *)
LEMMA StartPlaces ==
    ASSUME EvalInv, NEW d \in Modules, Startable(d),
           NEW by \in Modules \cup Imports, Starts(d, by),
           NEW to \in SUBSET {d}, StackMoves({}, to), d \in to \cup lost', lost \subseteq lost',
           UNCHANGED <<queue, epWait, bp, bpWait, op>>,
           ep'[d] = "pending", \A n \in Modules \ {d} : ep'[n] = ep[n]
    PROVE  PlaceInv' /\ NoneDropped'
<1>1. /\ status'[d] = "evaluating" /\ \A n \in Modules \ {d} : status'[n] = status[n]
      /\ ~Parked(queue, epWait, d) /\ ~Fiber(d)
    BY StartOthers
<1>2. ParkMoves({}, {}) /\ FiberMoves({}, {}) /\ PlaceInv /\ NoneDropped
    BY ParksStay, FibersStay DEF EvalInv
<1>3. \A c \in Chains : c # d => (Live(c) <=> Live(c)')
    BY <1>1 DEF Live
<1>4. Live(d)'
    BY <1>1, EvalConstants DEF Live
<1>5. PlaceInv'
    BY <1>1, <1>2, <1>3, <1>4, PlaceMoves
<1>6. NoneDropped'
    BY <1>2, <1>3, DropMoves
<1>7. QED
    BY <1>5, <1>6

(* RootEvaluates: the import is answered at once, or begins the evaluation *)
(* of its root and waits for it with its frame.                            *)
LEMMA RootEvaluatesKeeps ==
    ASSUME EvalInv, RootEvaluates
    PROVE  EvalInv'
<1>. PICK o, m, g : o = Top.o /\ m = op[o].root /\ g = [Top EXCEPT !.phase = "done"]
    OBVIOUS
<1>1. /\ UNCHANGED <<specs, deps, epWait, bp, bpWait, awaits, reason, index, queue, crashed, runs>>
      /\ At("root") /\ Top.phase = "eval"
    BY DEF RootEvaluates
<1>2. /\ stack # <<>> /\ ~Links(Top) /\ Top.at = "root" /\ o \in Imports /\ m \in Modules
      /\ o \in Chains /\ o \notin Modules /\ op[o].st = "loaded" /\ ChainsOf(Top) = {o}
      /\ (\A c \in Chains : Runs(Top, c) <=> c = o)
      /\ \A d \in Modules : starter[d] # o
      /\ ~OnStack(Tail(stack), o) /\ ~Parked(queue, epWait, o) /\ ~Fiber(o)
    BY <1>1, RootFrame
<1>3. /\ ret \in {"ok"} \cup Reasons /\ "oom" \in Reasons
      /\ reason[m] \in Reasons \cup {"none"}
      /\ Keeps(0) \/ Keeps(1) => refusals' \in Nat /\ lost' = lost
    BY <1>2, Wellknown, RefusedCount DEF EvalInv, TypeInv, TypeOK, Reasons, Keeps
<1>4. \A h \in Range(stack) : ~Links(h)
    BY <1>2, TopAlone
<1>5. CASE ret # "ok" /\ RootLeaves("rejected", ret)
           /\ Keeps(0) /\ UNCHANGED <<status, ep, starter, joined>>
    BY <1>1, <1>3, <1>5, RootLeft DEF modVars
<1>6. CASE /\ ret = "ok" /\ status[m] \in {"evaluated", "evaluating"}
           /\ RootLeaves("fulfilled", "none")
           /\ joined' = IF status[m] = "evaluating" THEN joined \cup {Top.o} ELSE joined
           /\ Keeps(0) /\ UNCHANGED <<status, ep, starter>>
  <2>1. UNCHANGED <<modVars, queue, runs, starter, crashed, lost>> /\ refusals' \in Nat
      BY <1>1, <1>3, <1>6 DEF modVars
  <2>2. joined' = joined \/ (joined' = joined \cup {Top.o} /\ Top.phase # "done")
      BY <1>1, <1>6
  <2>3. status[op[Top.o].root] = "evaluated" \/ Top.o \in joined'
      BY <1>6
  <2>4. QED
      BY <1>1, <1>6, <2>1, <2>2, <2>3, RootLeft
<1>7. CASE /\ ret = "ok" /\ status[m] = "errored" /\ RootLeaves("rejected", reason[m])
           /\ Keeps(0) /\ UNCHANGED <<status, ep, starter, joined>>
    BY <1>1, <1>3, <1>7, RootLeft DEF modVars
<1>0. CASE RootLeaves("rejected", "oom") /\ Keeps(1) /\ UNCHANGED <<status, ep, starter, joined>>
    BY <1>0, <1>1, <1>3, RootLeft DEF modVars
<1>8. ASSUME Startable(m), Begin(m, Top.o)
      PROVE  /\ Starts(m, o)
             /\ status' \in [Modules -> Statuses] /\ status'[m] = "evaluating"
             /\ starter' \in [Modules -> Modules \cup Imports \cup {NoModule}]
             /\ \A n \in Modules \ {m} : status'[n] = status[n]
             /\ ~OnStack(stack, m) /\ ~Parked(queue, epWait, m) /\ ~Fiber(m)
  <2>1. Starts(m, o)
      BY <1>8 DEF Begin, Starts
  <2>2. QED
      BY <1>2, <1>8, <2>1, StartOthers
<1>9. CASE /\ ret = "ok" /\ Startable(m) /\ Begin(m, Top.o)
           /\ ep' = [ep EXCEPT ![m] = "pending"]
           /\ EnterStep(m, 1, Instead([Top EXCEPT !.phase = "done"]), 0)
           /\ UNCHANGED <<op, ret, joined>>
  <2>1. /\ g \in Frames /\ g.at = "root" /\ g.o = o /\ g.phase = "done" /\ ~Links(g)
        /\ \A c \in Chains : Runs(g, c) <=> Runs(Top, c)
      BY <1>1, RootPhase
  <2>2. ~OnStack(stack, m) /\ EnterStep(m, 1, Instead(g), 0)
      BY <1>8, <1>9
  <2>0. stack # <<>> /\ ~Links(Top) /\ m \in Modules /\ g.at # "body"
      BY <1>2, <2>1
  <2>3. /\ StackMoves({}, {m}) \/ (StackMoves({}, {}) /\ m \in lost')
        /\ {g} \cup Range(Tail(stack)) \subseteq Range(stack')
        /\ \A h \in Range(stack') : \/ h \in {g} \cup Range(Tail(stack))
                                    \/ h.at = "step" /\ h.m = m /\ ~h.called
        /\ \A h \in Range(stack') : ~Links(h)
        /\ refusals' \in Nat /\ lost \subseteq lost' /\ lost' \subseteq Modules
      BY <2>0, <2>1, <2>2, EnterPlaces
  <2>4. PICK to \in SUBSET {m} : StackMoves({}, to) /\ m \in to \cup lost'
      BY <2>3
  <2>5. /\ ep' \in [Modules -> {"none", "pending", "fulfilled", "rejected"}]
        /\ ep'[m] = "pending" /\ \A n \in Modules \ {m} : ep'[n] = ep[n]
      BY <1>2, <1>9 DEF EvalInv, TypeInv, TypeOK
  <2>6. TypeInv'
      BY <1>1, <1>8, <1>9, <2>3, <2>4, <2>5 DEF EvalInv, TypeInv, TypeOK, StackMoves
  <2>7. LinkInv'
      BY <2>3, <2>4, NothingLinks
  <2>8. PlaceInv' /\ NoneDropped'
      BY <1>1, <1>2, <1>8, <1>9, <2>3, <2>4, <2>5, StartPlaces
  <2>9. ChainInv' /\ ByModules' /\ ByImports' /\ ImportTruthful'
    <3>1. /\ op'[o].root = m /\ op'[o].st \in {"loaded", "rejected"}
          /\ \A p \in Imports \ {o} : op'[p] = op[p]
        BY <1>2, <1>9
    <3>2. \A n \in Modules : ep'[n] = ep[n] \/ (n = m /\ ep'[n] = "pending")
        BY <2>5
    <3>3. /\ Range(Tail(stack)) \subseteq Range(stack')
          /\ \A h \in Range(stack') :
                \/ h \in Range(Tail(stack))
                \/ h.at = "root" /\ h.o = o /\ h.phase = "done"
                \/ h.at = "step" /\ h.m = m /\ ~h.called
        BY <2>1, <2>3
    <3>4. QED
        BY <1>1, <1>8, <1>9, <3>1, <3>2, <3>3, StartByImport
  <2>10. QED
      BY <2>6, <2>7, <2>8, <2>9 DEF EvalInv
<1>10. CASE /\ ret = "ok" /\ Startable(m) /\ Begin(m, Top.o)
            /\ RootLeaves("rejected", "oom") /\ Keeps(1) /\ UNCHANGED <<ep, joined>>
  <2>1. op' = [op EXCEPT ![o].st = "rejected", ![o].why = "oom"] /\ stack' = Tail(stack)
        /\ ret' = "ok"
      BY <1>10 DEF RootLeaves
  <2>2. /\ op' \in [Imports -> Operations]
        /\ \A p \in Imports : op'[p].st # "idle" => op'[p].root \in Modules
        /\ op'[o].root = op[o].root /\ op'[o].st = "rejected"
        /\ \A p \in Imports \ {o} : op'[p] = op[p]
    <3>1. op[o].st # "idle" /\ "oom" \in Reasons \cup {"none"}
        BY <1>2, <1>3
    <3>2. QED
        BY <1>2, <2>1, <3>1, OpSet
  <2>3. StackMoves({o}, {}) /\ Range(stack) = {Top} \cup Range(stack')
      BY <1>2, <2>1, Pop
  <2>4. refusals' \in Nat /\ lost' = lost
      BY <1>3, <1>10
  <2>5. TypeInv'
      BY <1>1, <1>8, <1>10, <2>1, <2>2, <2>3, <2>4
      DEF EvalInv, TypeInv, TypeOK, StackMoves, Operations
  <2>6. LinkInv'
      BY <1>4, <2>3, NothingLinks
  <2>7. PlaceInv' /\ NoneDropped'
    <3>1. ParkMoves({}, {}) /\ FiberMoves({}, {}) /\ PlaceInv /\ NoneDropped
        BY <1>1, ParksStay, FibersStay DEF EvalInv
    <3>2. \A c \in Chains : c # m /\ c # o => (Live(c) <=> Live(c)')
        BY <1>8, <1>10, <2>2 DEF Live
    <3>3. ~Live(m) /\ ~Live(m)' /\ ~Live(o)'
      <4>1. Starts(m, o)
          BY <1>8, <1>10
      <4>2. ep[m] = "none"
          BY <1>2, <1>10, <4>1, StartOthers
      <4>3. QED
          BY <1>2, <1>10, <2>2, <4>2 DEF Live, Startable
    <3>4. PlaceInv'
        BY <1>2, <2>3, <3>1, <3>2, <3>3, PlaceMoves
    <3>5. NoneDropped'
        BY <1>2, <2>3, <2>4, <3>1, <3>2, <3>3, DropMoves
    <3>6. QED
        BY <3>4, <3>5
  <2>8. ChainInv' /\ ByModules' /\ ByImports' /\ ImportTruthful'
    <3>1. /\ op'[o].root = m /\ op'[o].st \in {"loaded", "rejected"}
          /\ \A p \in Imports \ {o} : op'[p] = op[p]
        BY <2>2
    <3>2. \A n \in Modules : ep'[n] = ep[n] \/ (n = m /\ ep'[n] = "pending")
        BY <1>10
    <3>3. Range(stack') = Range(Tail(stack))
        BY <2>1
    <3>4. QED
        BY <1>1, <1>8, <1>10, <3>1, <3>2, <3>3, StartByImport
  <2>9. QED
      BY <2>5, <2>6, <2>7, <2>8 DEF EvalInv
<1>11. QED
    BY <1>0, <1>5, <1>6, <1>7, <1>9, <1>10 DEF RootEvaluates

(* A chain subscribes to the promise of m.                                 *)
LEMMA WaiterJoins ==
    ASSUME EvalInv, NEW m \in Modules, NEW a \in Waiters, ~Parked(queue, epWait, a.x),
           queue' = queue, epWait' = [epWait EXCEPT ![m] = Append(@, a)]
    PROVE  /\ ParkMoves({}, {a.x}) /\ epWait' \in [Modules -> Seq(Waiters)]
           /\ Range(epWait'[m]) = Range(epWait[m]) \cup {a}
           /\ \A d \in Modules \ {m} : epWait'[d] = epWait[d]
<1>1. epWait \in [Modules -> Seq(Waiters)]
    BY Wellknown
<1>2. /\ Append(epWait[m], a) \in Seq(Waiters)
      /\ Range(Append(epWait[m], a)) = Range(epWait[m]) \cup {a}
    BY <1>1, ListAppend
<1>3. \A d \in Modules : epWait'[d] = IF d = m THEN Append(epWait[m], a) ELSE epWait[d]
    BY <1>1
<1>4. ASSUME NEW c \in Chains
      PROVE  /\ OnceParked(queue', epWait', c)
             /\ Parked(queue', epWait', c) <=> Parked(queue, epWait, c) \/ c \in {a.x}
  <2>1. OnceParked(queue, epWait, c)
      BY DEF EvalInv, PlaceInv, OnePlace
  <2>2. LET v == [epWait EXCEPT ![m] = Append(@, a)]
        IN  /\ Parked(queue, v, c) <=> a.x = c \/ Parked(queue, epWait, c)
            /\ OnceParked(queue, epWait, c) /\ (a.x = c => ~Parked(queue, epWait, c)) =>
                  OnceParked(queue, v, c)
      BY <1>1, ParkedWait
  <2>3. QED
      BY <2>1, <2>2
<1>5. ParkMoves({}, {a.x})
    BY <1>4 DEF ParkMoves
<1>6. epWait' \in [Modules -> Seq(Waiters)]
    BY <1>1, <1>2
<1>7. QED
    BY <1>2, <1>3, <1>5, <1>6

(* RootReturns: the import is answered, or moves to the reactions on the   *)
(* evaluation promise of its root.                                         *)
LEMMA RootReturnsKeeps ==
    ASSUME EvalInv, RootReturns
    PROVE  EvalInv'
<1>. PICK o, m, a : /\ o = Top.o /\ m = op[o].root /\ a = [do |-> "root", x |-> o]
    OBVIOUS
<1>1. /\ UNCHANGED <<specs, status, deps, ep, bp, bpWait, awaits, reason, index,
                     queue, crashed, histVars>>
      /\ At("root") /\ Top.phase = "done"
    BY DEF RootReturns
<1>2. /\ stack # <<>> /\ Top.at = "root" /\ o \in Imports /\ m \in Modules
      /\ o \in Chains /\ o \notin Modules /\ op[o].st = "loaded" /\ ChainsOf(Top) = {o}
      /\ ~Parked(queue, epWait, o) /\ ~Fiber(o)
    BY <1>1, RootFrame
<1>3. /\ "oom" \in Reasons /\ reason[m] \in Reasons \cup {"none"}
      /\ Keeps(0) \/ Keeps(1) => refusals' \in Nat /\ lost' = lost
    BY <1>2, Wellknown, RefusedCount DEF EvalInv, Reasons, Keeps
<1>4. CASE /\ ep[m] = "fulfilled" /\ RootLeaves("fulfilled", "none")
           /\ Keeps(0) /\ UNCHANGED epWait
  <2>1. status[m] = "evaluated"
      BY <1>2, <1>4 DEF EvalInv, ChainInv, ModuleOK
  <2>2. QED
      BY <1>1, <1>3, <1>4, <2>1, RootLeft DEF modVars, histVars
<1>5. CASE /\ ep[m] = "rejected" /\ RootLeaves("rejected", reason[m])
           /\ Keeps(0) /\ UNCHANGED epWait
    BY <1>1, <1>3, <1>5, RootLeft DEF modVars, histVars
<1>6. CASE RootLeaves("rejected", "oom") /\ Keeps(1) /\ UNCHANGED epWait
    BY <1>1, <1>3, <1>6, RootLeft DEF modVars, histVars
<1>7. CASE /\ epWait' = [epWait EXCEPT ![m] = Append(@, [do |-> "root", x |-> Top.o])]
           /\ stack' = Tail(stack) /\ Keeps(0) /\ UNCHANGED <<op, ret>>
  <2>1. a \in Waiters /\ a.do = "root" /\ a.x = o
      BY <1>2 DEF Waiters
  <2>2. /\ ParkMoves({}, {o}) /\ epWait' \in [Modules -> Seq(Waiters)]
        /\ Range(epWait'[m]) = Range(epWait[m]) \cup {a}
        /\ \A d \in Modules \ {m} : epWait'[d] = epWait[d]
    <3>1. epWait' = [epWait EXCEPT ![m] = Append(@, a)] /\ queue' = queue
        BY <1>1, <1>7
    <3>2. QED
        BY <1>2, <2>1, <3>1, WaiterJoins
  <2>3. StackMoves({o}, {}) /\ Range(stack) = {Top} \cup Range(stack')
      BY <1>2, <1>7, Pop
  <2>4. RootsStay /\ OutcomesStay
      BY <1>1, <1>7 DEF RootsStay, OutcomesStay
  <2>5. TypeInv'
      BY <1>1, <1>3, <1>7, <2>2, <2>3 DEF EvalInv, TypeInv, TypeOK, histVars, StackMoves
  <2>6. LinkInv'
      BY <1>1, <2>3, LinksStay DEF Startable
  <2>7. PlaceInv' /\ NoneDropped'
    <3>1. FiberMoves({}, {}) /\ PlaceInv /\ NoneDropped
        BY <1>1, FibersStay DEF EvalInv
    <3>2. \A c \in Chains : Live(c) <=> Live(c)'
        BY <1>1, <1>7 DEF Live
    <3>3. Live(o)
        BY <1>2 DEF Live
    <3>4. QED
        BY <1>2, <1>3, <1>7, <2>2, <2>3, <3>1, <3>2, <3>3, PlaceMoves, DropMoves
  <2>8. ChainInv' /\ ByModules'
    <3>1. WaiterOK(m, a)'
        BY <1>7, <2>1 DEF WaiterOK
    <3>2. \A d \in Modules : /\ Range(epWait[d]) \subseteq Range(epWait'[d])
                             /\ \A w \in Range(epWait'[d]) :
                                   w \in Range(epWait[d]) \/ WaiterOK(d, w)'
        BY <2>2, <3>1
    <3>3. \A f \in Range(stack) : f.at = "step" => f \in Range(stack')
        BY <1>2, <2>3
    <3>4. BodyStays
        BY <1>1 DEF BodyStays, At
    <3>5. QED
        BY <1>1, <2>3, <2>4, <3>2, <3>3, <3>4, Routine DEF histVars
  <2>9. ByImports' /\ ImportTruthful'
    <3>1. joined \subseteq Imports /\ joined' = joined /\ starter' = starter /\ op' = op
        BY <1>1, <1>7 DEF EvalInv, TypeInv, histVars
    <3>2. QED
        BY <1>1, <2>3, <2>4, <3>1, ImportsStay
  <2>10. QED
      BY <2>5, <2>6, <2>7, <2>8, <2>9 DEF EvalInv
<1>8. QED
    BY <1>4, <1>5, <1>6, <1>7 DEF RootReturns

-----------------------------------------------------------------------------
(* A chain at its dependencies.                                            *)
LEMMA StepFrame ==
    ASSUME EvalInv, At("step")
    PROVE  /\ stack # <<>> /\ Top \in Range(stack) /\ Top.at = "step" /\ ~Links(Top)
           /\ Top.m \in Modules /\ Top.m \in Chains /\ Live(Top.m) /\ runs[Top.m] = 0
           /\ Top.i \in Nat \ {0}
           /\ ChainsOf(Top) = {Top.m} /\ (\A c \in Chains : Runs(Top, c) <=> c = Top.m)
           /\ ~Parked(queue, epWait, Top.m) /\ ~Fiber(Top.m)
           /\ \A f \in Range(Tail(stack)) : f.at \in {"step", "ran"} => f.m # Top.m
           /\ Range(stack) = {Top} \cup Range(Tail(stack))
           /\ \A f \in Range(stack) : ~Links(f)
<1>1. /\ Top \in [at : {"step"}, m : Modules, i : Nat \ {0}, called : BOOLEAN]
      /\ stack # <<>> /\ Top \in Range(stack)
      /\ Range(stack) = {Top} \cup Range(Tail(stack))
    BY TopFrame DEF At, EvalInv
<1>2. Top.m \in Modules /\ Top.m \in Chains
    BY <1>1 DEF Chains
<1>3. ChainsOf(Top) = {Top.m} /\ (\A c \in Chains : Runs(Top, c) <=> c = Top.m) /\ ~Links(Top)
    BY <1>1, <1>2 DEF ChainsOf, Runs, Links
<1>4. /\ ~OnStack(Tail(stack), Top.m) /\ ~Parked(queue, epWait, Top.m) /\ ~Fiber(Top.m)
      /\ Live(Top.m) /\ \A f \in Range(stack) : ~Links(f)
    BY <1>1, <1>2, <1>3, TopAlone
<1>5. \A f \in Range(Tail(stack)) : f.at \in {"step", "ran"} => f.m # Top.m
    BY <1>4 DEF OnStack, Runs
<1>6. runs[Top.m] = 0
    BY <1>1 DEF EvalInv, ChainInv, FrameOK
<1>7. QED
    BY <1>1, <1>2, <1>3, <1>4, <1>5, <1>6

(* What a chain began before it came to this dependency has been           *)
(* evaluated: it folds or parks on each in turn.                           *)
LEMMA StepAccounts ==
    ASSUME EvalInv, At("step"), NEW d \in Modules, starter[d] = Top.m
    PROVE  status[d] = "evaluated" \/ (Top.called /\ deps[Top.m][Top.i] = d)
<1>. PICK m : m = Top.m
    OBVIOUS
<1>1. /\ m \in Modules /\ Live(m) /\ ~Parked(queue, epWait, m)
      /\ Range(stack) = {Top} \cup Range(Tail(stack))
      /\ \A f \in Range(Tail(stack)) : f.at \in {"step", "ran"} => f.m # m
    BY StepFrame
<1>2. Accounted(m, d)
    BY <1>1 DEF EvalInv, ByModules
<1>3. CalledFor(m, d) => Top.called /\ deps[m][Top.i] = d
    BY <1>1 DEF CalledFor
<1>4. ~Holds(epWait[d], m) /\ ~Fails(m, d)
    BY <1>1 DEF Parked, Waits, Fails, Holds
<1>5. ~Failed(m, d)
    BY <1>1 DEF Failed, Live
<1>6. QED
    BY <1>2, <1>3, <1>4, <1>5 DEF Accounted, WaitsFor

(* On to the next dependency.                                              *)
LEMMA NextDepKeeps ==
    ASSUME EvalInv, At("step"), NextDep,
           UNCHANGED <<modVars, op, queue, ret, crashed, lost, histVars>>,
           refusals' \in Nat,
           Top.called => status[deps[Top.m][Top.i]] = "evaluated"
    PROVE  EvalInv'
<1>. PICK m, g : m = Top.m /\ g = Step(m, Top.i + 1)
    OBVIOUS
<1>1. /\ stack # <<>> /\ Top.at = "step" /\ ~Links(Top) /\ m \in Modules /\ runs[m] = 0
      /\ Top.i \in Nat \ {0} /\ (\A c \in Chains : Runs(Top, c) <=> c = m)
      /\ \A f \in Range(stack) : ~Links(f)
    BY StepFrame
<1>2. g.at = "step" /\ g.m = m /\ ~g.called
    BY DEF Step
<1>3. g \in Frames
  <2>1. Top.i + 1 \in Nat \ {0}
      BY <1>1
  <2>2. QED
      BY <1>1, <2>1, FrameTypes
<1>4. ~Links(g) /\ \A c \in Chains : Runs(g, c) <=> Runs(Top, c)
    BY <1>1, <1>2 DEF Links, Runs
<1>5. /\ StackMoves({}, {}) /\ Range(stack') = {g} \cup Range(Tail(stack))
      /\ Range(stack) = {Top} \cup Range(Tail(stack))
    BY <1>1, <1>3, <1>4, Swap DEF NextDep, Instead
<1>6. RootsStay
    BY DEF RootsStay
<1>7. TypeInv'
    BY <1>5 DEF EvalInv, TypeInv, TypeOK, modVars, histVars, StackMoves
<1>8. LinkInv'
    BY <1>1, <1>4, <1>5, NothingLinks
<1>9. PlaceInv' /\ NoneDropped'
  <2>1. ParkMoves({}, {}) /\ FiberMoves({}, {}) /\ PlaceInv /\ NoneDropped
      BY ParksStay, FibersStay DEF EvalInv, modVars
  <2>2. \A c \in Chains : Live(c) <=> Live(c)'
      BY DEF Live, modVars
  <2>3. QED
      BY <1>5, <2>1, <2>2, PlaceMoves, DropMoves
<1>10. ChainInv' /\ OutcomesStay
  <2>1. FrameOK(g)'
      BY <1>1, <1>2 DEF FrameOK, histVars
  <2>2. BodyStays
      BY <1>1 DEF BodyStays, At
  <2>3. QED
      BY <1>5, <1>6, <2>1, <2>2, ChainsStay DEF modVars, histVars
<1>11. ByModules'
  <2>1. ASSUME NEW a \in Modules, NEW d \in Modules, starter'[d] = a PROVE Accounted(a, d)'
    <3>1. starter[d] = a /\ Accounted(a, d)
        BY <2>1 DEF EvalInv, ByModules, histVars
    <3>2. CASE a = m
      <4>1. status[d] = "evaluated"
          BY <3>1, <3>2, StepAccounts
      <4>2. QED
          BY <4>1 DEF Accounted, modVars
    <3>3. CASE a # m
      <4>1. \A f \in Range(stack) : f.at = "step" /\ f.m = a /\ f.called =>
                f \in Range(stack') /\ deps'[a] = deps[a]
          BY <1>5, <3>3 DEF modVars
      <4>2. QED
          BY <1>10, <3>1, <4>1, AccountStays DEF modVars, histVars
    <3>4. QED
        BY <3>2, <3>3
  <2>2. QED
      BY <2>1 DEF ByModules
<1>12. ByImports' /\ ImportTruthful'
  <2>1. joined \subseteq Imports /\ joined' = joined /\ starter' = starter /\ op' = op
      BY DEF EvalInv, TypeInv, histVars
  <2>2. \A f \in Range(stack') : f.at = "root" => f \in Range(stack)
      BY <1>2, <1>5
  <2>3. QED
      BY <1>10, <2>1, <2>2, ImportsStay
<1>13. QED
    BY <1>7, <1>8, <1>9, <1>10, <1>11, <1>12 DEF EvalInv

(* The chain fails; what it began and could not even get going is lost     *)
(* with it.                                                                *)
LEMMA StepFails ==
    ASSUME EvalInv, At("step"), NEW m, m = Top.m, NEW why \in Reasons \cup {"none"},
           Settles(queue, m, "rejected", why), stack' = Tail(stack),
           UNCHANGED <<bpWait, awaits, ret, crashed, joined>>,
           status' \in [Modules -> Statuses], starter'[m] = starter[m],
           starter' \in [Modules -> Modules \cup Imports \cup {NoModule}],
           \A n \in Modules \ {m} :
              \/ status'[n] = status[n] /\ starter'[n] = starter[n]
              \/ /\ Startable(n) /\ status'[n] = "evaluating" /\ starter'[n] = m
                 /\ why = "oom",
           index' \in [Modules -> Nat], refusals' \in Nat,
           Top.called => \/ why = "oom"
                         \/ /\ status[deps[m][Top.i]] = "errored"
                            /\ why = reason[deps[m][Top.i]]
    PROVE  EvalInv'
<1>1. /\ stack # <<>> /\ Top.at = "step" /\ m \in Modules /\ m \in Chains /\ Live(m)
      /\ runs[m] = 0 /\ ChainsOf(Top) = {m}
      /\ ~Parked(queue, epWait, m) /\ ~Fiber(m)
      /\ \A f \in Range(stack) : ~Links(f)
    BY StepFrame
<1>2. StackMoves({m}, {}) /\ Range(stack) = {Top} \cup Range(stack')
    BY <1>1, Pop
<1>3. queue \in Seq(Jobs) /\ "rejected" \in Ends
    BY Wellknown DEF Ends
<1>4. /\ status'[m] = "errored" /\ reason'[m] = why
      /\ UNCHANGED <<specs, deps, bp, op, runs>>
    BY <1>1, Wellknown DEF Settles
<1>5. TypeInv'
  <2>1. /\ ep' \in [Modules -> {"none", "pending", "fulfilled", "rejected"}]
        /\ epWait' \in [Modules -> Seq(Waiters)]
        /\ queue' \in Seq(ModJobs \cup RootJobs)
        /\ reason' \in [Modules -> Reasons \cup {"none"}]
        /\ lost' \subseteq Modules
      BY <1>1, <1>3, SettleTypes
  <2>2. QED
      BY <1>2, <1>4, <2>1 DEF EvalInv, TypeInv, TypeOK, StackMoves
<1>6. LinkInv'
    BY <1>1, <1>2, NothingLinks
<1>7. PlaceInv' /\ NoneDropped'
  <2>. PICK po, so : po = {} /\ so = {m}
      OBVIOUS
  <2>1. \A c \in Chains : OnceParked(queue, epWait, c)
      BY DEF EvalInv, PlaceInv, OnePlace
  <2>2. po \subseteq {m} /\ so \subseteq {m} /\ m \in so /\ \A c : c \notin po
      OBVIOUS
  <2>3. StackMoves(so, {})
      BY <1>2
  <2>4. QED
      BY <1>1, <1>3, <2>1, <2>2, <2>3, SettlePlaces
<1>8. ChainInv'
  <2>1. ASSUME NEW n \in Modules \ {m}
        PROVE  (status'[n] = status[n] /\ starter'[n] = starter[n]) \/ ModuleOK(n)'
    <3>1. CASE Startable(n) /\ status'[n] = "evaluating" /\ starter'[n] = m
      <4>1. ModuleOK(n) /\ ep'[n] = ep[n] /\ UNCHANGED <<runs, bp, bpWait>>
          BY <1>4 DEF EvalInv, ChainInv, Settles, Joins, Strands, TypeInv, TypeOK
      <4>2. QED
          BY <3>1, <4>1 DEF ModuleOK, Startable
    <3>2. QED
        BY <3>1
  <2>2. BodyStays
      BY <1>1 DEF BodyStays, At
  <2>3. QED
      BY <1>1, <1>2, <1>3, <2>1, <2>2, SettleChains
<1>9. OutcomesStay
    BY <1>1, <1>3, SettleOthers
<1>10. ByModules'
  <2>1. ASSUME NEW d \in Modules, starter'[d] = m PROVE Accounted(m, d)'
    <3>1. CASE starter[d] # m
      <4>1. why = "oom"
          BY <2>1, <3>1
      <4>2. QED
          BY <1>1, <1>4, <4>1 DEF Accounted, Failed
    <3>2. CASE starter[d] = m
      <4>1. status[d] = "evaluated" \/ (Top.called /\ deps[m][Top.i] = d)
          BY <3>2, StepAccounts
      <4>2. CASE status[d] = "evaluated"
          BY <1>9, <4>2 DEF Accounted, OutcomesStay
      <4>3. CASE Top.called /\ deps[m][Top.i] = d
        <5>1. why = "oom" \/ (status[d] = "errored" /\ why = reason[d])
            BY <4>3
        <5>2. QED
            BY <1>1, <1>4, <1>9, <5>1 DEF Accounted, Failed, OutcomesStay
      <4>4. QED
          BY <4>1, <4>2, <4>3
    <3>3. QED
        BY <3>1, <3>2
  <2>2. \A f \in Range(stack) : f.at = "step" /\ f.m # m => f \in Range(stack')
      BY <1>1, <1>2
  <2>3. \A d \in Modules : starter'[d] = starter[d] \/ starter'[d] = m
      OBVIOUS
  <2>4. QED
      BY <1>1, <1>3, <2>1, <2>2, <2>3, SettleByModules
<1>11. ByImports' /\ ImportTruthful'
  <2>1. \A d \in Modules : starter'[d] = starter[d] \/ starter'[d] = m
      OBVIOUS
  <2>2. QED
      BY <1>1, <1>2, <1>3, <2>1, SettleImports
<1>12. QED
    BY <1>5, <1>6, <1>7, <1>8, <1>10, <1>11 DEF EvalInv

(* A chain calls the evaluation of a dependency.                           *)
LEMMA StepStarts ==
    ASSUME EvalInv, At("step"), ~Top.called, Top.i \in DOMAIN deps[Top.m],
           NEW d \in Modules, d = deps[Top.m][Top.i], d # NoModule,
           Startable(d), Begin(d, Top.m),
           ep' = [ep EXCEPT ![d] = "pending"],
           EnterStep(d, 1, Instead([Top EXCEPT !.called = TRUE]), 0),
           UNCHANGED <<specs, deps, epWait, queue, reason, crashed>>,
           UNCHANGED <<bp, bpWait, awaits, index, op, ret, runs, joined>>
    PROVE  EvalInv'
<1>. PICK m, g : m = Top.m /\ g = [Top EXCEPT !.called = TRUE]
    OBVIOUS
<1>1. /\ stack # <<>> /\ Top.at = "step" /\ ~Links(Top) /\ m \in Modules /\ runs[m] = 0
      /\ Live(m) /\ (\A c \in Chains : Runs(Top, c) <=> c = m)
      /\ \A h \in Range(stack) : ~Links(h)
    BY StepFrame
<1>2. d # m /\ d \in Chains
    BY <1>1 DEF Live, Startable, Chains
<1>3. /\ Starts(d, m)
      /\ status' \in [Modules -> Statuses] /\ status'[d] = "evaluating"
      /\ starter' \in [Modules -> Modules \cup Imports \cup {NoModule}] /\ starter'[d] = m
      /\ \A n \in Modules \ {d} : status'[n] = status[n] /\ starter'[n] = starter[n]
      /\ ~OnStack(stack, d) /\ ~Parked(queue, epWait, d) /\ ~Fiber(d)
  <2>1. Starts(d, m)
      BY DEF Begin, Starts
  <2>2. QED
      BY <1>1, <2>1, StartOthers
<1>4. /\ g \in Frames /\ g.at = "step" /\ g.m = m /\ g.i = Top.i /\ g.called
  <2>1. Top \in [at : {"step"}, m : Modules, i : Nat \ {0}, called : BOOLEAN]
      BY <1>1, TopFrame DEF EvalInv
  <2>2. /\ g \in [at : {"step"}, m : Modules, i : Nat \ {0}, called : BOOLEAN]
        /\ g.at = "step" /\ g.m = m /\ g.i = Top.i /\ g.called
      BY <2>1
  <2>3. QED
      BY <2>2 DEF Frames
<1>5. ~Links(g) /\ (\A c \in Chains : Runs(g, c) <=> Runs(Top, c))
    BY <1>1, <1>4 DEF Links, Runs
<1>6. /\ StackMoves({}, {d}) \/ (StackMoves({}, {}) /\ d \in lost')
      /\ {g} \cup Range(Tail(stack)) \subseteq Range(stack')
      /\ \A h \in Range(stack') : \/ h \in {g} \cup Range(Tail(stack))
                                  \/ h.at = "step" /\ h.m = d /\ ~h.called
      /\ \A h \in Range(stack') : ~Links(h)
      /\ Range(stack) = {Top} \cup Range(Tail(stack))
      /\ refusals' \in Nat /\ lost \subseteq lost' /\ lost' \subseteq Modules
  <2>1. EnterStep(d, 1, Instead(g), 0) /\ ~OnStack(stack, d) /\ g.at # "body"
      BY <1>3, <1>4
  <2>2. QED
      BY <1>1, <1>4, <1>5, <2>1, EnterPlaces
<1>7. PICK to \in SUBSET {d} : StackMoves({}, to) /\ d \in to \cup lost'
    BY <1>6
<1>8. /\ ep' \in [Modules -> {"none", "pending", "fulfilled", "rejected"}]
      /\ ep'[d] = "pending" /\ \A n \in Modules \ {d} : ep'[n] = ep[n]
    BY DEF EvalInv, TypeInv, TypeOK
<1>9. TypeInv'
    BY <1>3, <1>6, <1>7, <1>8 DEF EvalInv, TypeInv, TypeOK, StackMoves
<1>10. LinkInv'
    BY <1>6, <1>7, NothingLinks
<1>11. PlaceInv' /\ NoneDropped'
    BY <1>1, <1>3, <1>6, <1>7, <1>8, StartPlaces
<1>12. ChainInv' /\ OutcomesStay
  <2>1. ASSUME NEW h, h.at = "step", h.m = d, ~h.called PROVE FrameOK(h)'
    <3>1. runs'[d] = 0
        BY <1>1, <1>3, StartOthers
    <3>2. QED
        BY <2>1, <3>1 DEF FrameOK
  <2>2. FrameOK(g)'
    <3>1. runs'[m] = 0 /\ Top.i \in DOMAIN deps'[m] /\ deps'[m][Top.i] # NoModule
        BY <1>1
    <3>2. QED
        BY <1>4, <3>1 DEF FrameOK
  <2>3. RootsStay /\ BodyStays
      BY <1>1 DEF RootsStay, BodyStays, At
  <2>4. \A n \in Modules : ep'[n] = ep[n] \/ (n = d /\ ep'[n] = "pending")
      BY <1>8
  <2>5. \A h \in Range(stack') : h \in Range(stack) \/ FrameOK(h)'
      BY <1>6, <2>1, <2>2
  <2>6. m \in Modules \cup Imports /\ m # d
      BY <1>1, <1>2
  <2>7. QED
      BY <1>3, <2>3, <2>4, <2>5, <2>6, StartChains
<1>13. ByModules'
  <2>1. CalledFor(m, d)'
      BY <1>4, <1>6 DEF CalledFor
  <2>2. ASSUME NEW a \in Modules, NEW x \in Modules, starter'[x] = a PROVE Accounted(a, x)'
    <3>1. CASE x = d
        BY <1>3, <2>1, <2>2, <3>1 DEF Accounted, WaitsFor
    <3>2. CASE x # d
      <4>1. starter[x] = a /\ Accounted(a, x)
          BY <1>3, <2>2, <3>2 DEF EvalInv, ByModules
      <4>2. CASE a = m
        <5>1. status[x] = "evaluated"
            BY <4>1, <4>2, StepAccounts
        <5>2. QED
            BY <1>12, <5>1 DEF Accounted, OutcomesStay
      <4>3. CASE a # m
        <5>1. \A h \in Range(stack) : h.at = "step" /\ h.m = a /\ h.called =>
                  h \in Range(stack') /\ deps'[a] = deps[a]
            BY <1>6, <4>3
        <5>2. QED
            BY <1>12, <4>1, <5>1, AccountStays
      <4>4. QED
          BY <4>2, <4>3
    <3>3. QED
        BY <3>1, <3>2
  <2>3. QED
      BY <2>2 DEF ByModules
<1>14. ByImports' /\ ImportTruthful'
  <2>1. joined \subseteq Imports
      BY DEF EvalInv, TypeInv
  <2>2. \A h \in Range(stack') : h.at = "root" => h \in Range(stack)
      BY <1>4, <1>6
  <2>3. \A x \in Modules : \A o \in Imports : starter'[x] = o => starter[x] = o
      BY <1>1, <1>3, EvalConstants
  <2>4. QED
      BY <1>12, <2>1, <2>2, <2>3, ImportsStay
<1>15. QED
    BY <1>9, <1>10, <1>11, <1>12, <1>13, <1>14 DEF EvalInv

(* Failing settles the chain.                                              *)
LEMMA FailSettles ==
    ASSUME EvalInv, NEW m \in Modules, NEW why \in Reasons \cup {"none"}, NEW n \in Nat,
           FailState(queue, m, why, n), UNCHANGED <<specs, deps, bp, op, runs>>
    PROVE  /\ Settles(queue, m, "rejected", why)
           /\ status' \in [Modules -> Statuses]
           /\ \A d \in Modules \ {m} : status'[d] = status[d]
           /\ refusals' \in Nat
<1>1. status \in [Modules -> Statuses]
    BY DEF EvalInv, TypeInv, TypeOK
<1>2. /\ status' \in [Modules -> Statuses] /\ status'[m] = "errored"
      /\ \A d \in Modules \ {m} : status'[d] = status[d]
    BY <1>1 DEF FailState, SettleEval, Statuses
<1>3. TypeInv /\ Tells(queue, m, "rejected", why, n)
    BY DEF EvalInv, FailState, SettleEval
<1>4. /\ refusals' \in Nat
      /\ Joins(queue, m, "rejected", why) \/ Strands(queue, m)
    BY <1>3, TellsHow
<1>5. QED
    BY <1>2, <1>4 DEF FailState, Settles

(* StepDep: past an evaluated dependency, failing with an errored one, or  *)
(* calling for the one that begins.                                        *)
LEMMA StepDepKeeps ==
    ASSUME EvalInv, StepDep
    PROVE  EvalInv'
<1>. PICK m, d : m = Top.m /\ d = deps[Top.m][Top.i]
    OBVIOUS
<1>1. /\ UNCHANGED <<specs, deps, bp, bpWait, awaits, index, op, ret, crashed, runs, joined>>
      /\ At("step") /\ AtDep /\ Top.i \in DOMAIN deps[Top.m] /\ ~Top.called
    BY DEF StepDep, AtDep
<1>2. m \in Modules /\ Live(m) /\ (d # NoModule => d \in Modules)
    BY <1>1, StepFrame, DepIsModule
<1>3. /\ index \in [Modules -> Nat] /\ "oom" \in Reasons /\ 0 \in Nat /\ 1 \in Nat
      /\ status \in [Modules -> Statuses] /\ reason \in [Modules -> Reasons \cup {"none"}]
      /\ starter \in [Modules -> Modules \cup Imports \cup {NoModule}]
      /\ ep \in [Modules -> {"none", "pending", "fulfilled", "rejected"}]
    BY DEF EvalInv, TypeInv, TypeOK, Reasons
<1>4. CASE NextDep /\ Quiet /\ UNCHANGED starter
  <2>1. TypeInv /\ Refused(0) /\ lost' = lost
      BY <1>4 DEF EvalInv, Quiet, Keeps
  <2>2. refusals' \in Nat
      BY <1>3, <2>1, RefusedCount
  <2>3. QED
      BY <1>1, <1>4, <2>1, <2>2, NextDepKeeps DEF Quiet, modVars, histVars
<1>5. ASSUME NEW why \in Reasons \cup {"none"}, NEW n \in Nat, ChainFails(why, n),
             UNCHANGED starter
      PROVE  EvalInv'
  <2>1. FailState(queue, m, why, n) /\ stack' = Tail(stack)
      BY <1>5 DEF ChainFails
  <2>2. /\ Settles(queue, m, "rejected", why)
        /\ status' \in [Modules -> Statuses]
        /\ \A e \in Modules \ {m} : status'[e] = status[e]
        /\ refusals' \in Nat
      BY <1>1, <1>2, <1>5, <2>1, FailSettles
  <2>3. QED
      BY <1>1, <1>3, <1>5, <2>1, <2>2, StepFails
<1>6. CASE d # NoModule /\ status[d] = "errored" /\ ChainFails(reason[d], 0) /\ UNCHANGED starter
  <2>1. reason[d] \in Reasons \cup {"none"}
      BY <1>2, <1>3, <1>6
  <2>2. QED
      BY <1>3, <1>5, <1>6, <2>1
<1>7. CASE ChainFails("oom", 1) /\ UNCHANGED starter
    BY <1>3, <1>5, <1>7
<1>8. CASE /\ d # NoModule /\ Startable(d) /\ Begin(d, m)
           /\ ep' = [ep EXCEPT ![d] = "pending"]
           /\ EnterStep(d, 1, Instead([Top EXCEPT !.called = TRUE]), 0)
           /\ UNCHANGED <<epWait, queue, reason>>
    BY <1>1, <1>2, <1>8, StepStarts
<1>9. CASE /\ d # NoModule /\ Startable(d)
           /\ starter' = [starter EXCEPT ![d] = m]
           /\ status' = [status EXCEPT ![d] = "evaluating", ![m] = "errored"]
           /\ Tells(queue, m, "rejected", "oom", 1)
           /\ reason' = [reason EXCEPT ![m] = "oom"]
           /\ stack' = Tail(stack)
  <2>1. d \in Modules /\ d # m
      BY <1>2, <1>9 DEF Live, Startable
  <2>2. /\ status' \in [Modules -> Statuses] /\ status'[m] = "errored"
        /\ status'[d] = "evaluating"
        /\ \A n \in Modules \ {m, d} : status'[n] = status[n]
      BY <1>2, <1>3, <1>9, <2>1 DEF Statuses
  <2>3. /\ starter' \in [Modules -> Modules \cup Imports \cup {NoModule}]
        /\ starter'[d] = m /\ \A n \in Modules \ {d} : starter'[n] = starter[n]
      BY <1>2, <1>3, <1>9, <2>1
  <2>4. /\ refusals' \in Nat
        /\ Joins(queue, m, "rejected", "oom") \/ Strands(queue, m)
    <3>1. TypeInv
        BY DEF EvalInv
    <3>2. QED
        BY <1>3, <1>9, <3>1, TellsHow
  <2>5. Settles(queue, m, "rejected", "oom")
      BY <1>1, <1>9, <2>1, <2>2, <2>4 DEF Settles
  <2>6. \A n \in Modules \ {m} :
            \/ status'[n] = status[n] /\ starter'[n] = starter[n]
            \/ Startable(n) /\ status'[n] = "evaluating" /\ starter'[n] = m
      BY <1>9, <2>1, <2>2, <2>3
  <2>7. starter'[m] = starter[m]
      BY <1>2, <2>1, <2>3
  <2>8. /\ "oom" \in Reasons \cup {"none"} /\ stack' = Tail(stack)
        /\ UNCHANGED <<bpWait, awaits, ret, crashed, joined>> /\ index' \in [Modules -> Nat]
      BY <1>1, <1>3, <1>9
  <2>9. QED
      BY <1>1, <2>2, <2>3, <2>4, <2>5, <2>6, <2>7, <2>8, StepFails
<1>10. QED
    BY <1>4, <1>6, <1>7, <1>8, <1>9 DEF StepDep

(* The chain parks on the promise of a dependency.                         *)
LEMMA StepWaits ==
    ASSUME EvalInv, At("step"), Top.called, Top.i \in DOMAIN deps[Top.m],
           NEW d \in Modules, d = deps[Top.m][Top.i],
           index' = [index EXCEPT ![Top.m] = Top.i] \/ UNCHANGED index,
           epWait' = [epWait EXCEPT ![d] = Append(@, [do |-> "dep", x |-> Top.m])],
           stack' = Tail(stack),
           UNCHANGED <<specs, status, deps, ep, bp, bpWait, awaits, reason>>,
           UNCHANGED <<op, queue, ret, crashed, lost, histVars>>, refusals' \in Nat
    PROVE  EvalInv'
<1>. PICK m, a : m = Top.m /\ a = [do |-> "dep", x |-> m]
    OBVIOUS
<1>1. /\ stack # <<>> /\ Top.at = "step" /\ m \in Modules /\ m \in Chains /\ runs[m] = 0
      /\ Live(m) /\ ChainsOf(Top) = {m} /\ Top.i \in Nat \ {0}
      /\ ~Parked(queue, epWait, m) /\ ~Fiber(m)
      /\ \A h \in Range(stack) : ~Links(h)
    BY StepFrame
<1>2. a \in Waiters /\ a.do = "dep" /\ a.x = m
    BY <1>1 DEF Waiters
<1>3. /\ ParkMoves({}, {m}) /\ epWait' \in [Modules -> Seq(Waiters)]
      /\ Range(epWait'[d]) = Range(epWait[d]) \cup {a}
      /\ \A e \in Modules \ {d} : epWait'[e] = epWait[e]
  <2>1. epWait' = [epWait EXCEPT ![d] = Append(@, a)] /\ queue' = queue
      OBVIOUS
  <2>2. QED
      BY <1>1, <1>2, <2>1, WaiterJoins
<1>4. StackMoves({m}, {}) /\ Range(stack) = {Top} \cup Range(stack')
    BY <1>1, Pop
<1>5. RootsStay /\ OutcomesStay /\ BodyStays
    BY <1>1 DEF RootsStay, OutcomesStay, BodyStays, At
<1>6. index' \in [Modules -> Nat]
  <2>1. index \in [Modules -> Nat]
      BY DEF EvalInv, TypeInv, TypeOK
  <2>2. QED
      BY <1>1, <2>1
<1>7. TypeInv'
    BY <1>3, <1>4, <1>6 DEF EvalInv, TypeInv, TypeOK, histVars, StackMoves
<1>8. LinkInv'
    BY <1>1, <1>4, NothingLinks
<1>9. PlaceInv' /\ NoneDropped'
  <2>1. FiberMoves({}, {}) /\ PlaceInv /\ NoneDropped
      BY FibersStay DEF EvalInv
  <2>2. \A c \in Chains : Live(c) <=> Live(c)'
      BY DEF Live
  <2>3. QED
      BY <1>1, <1>3, <1>4, <2>1, <2>2, PlaceMoves, DropMoves
<1>10. ChainInv'
  <2>1. WaiterOK(d, a)'
      BY <1>1, <1>2 DEF WaiterOK, histVars
  <2>2. \A e \in Modules : \A w \in Range(epWait'[e]) :
            w \in Range(epWait[e]) \/ WaiterOK(e, w)'
      BY <1>3, <2>1
  <2>3. QED
      BY <1>4, <1>5, <2>2, ChainsStay DEF histVars
<1>11. ByModules'
  <2>1. ASSUME NEW b \in Modules, NEW x \in Modules, starter'[x] = b PROVE Accounted(b, x)'
    <3>1. starter[x] = b /\ Accounted(b, x)
        BY <2>1 DEF EvalInv, ByModules, histVars
    <3>2. CASE b = m
      <4>1. status[x] = "evaluated" \/ d = x
          BY <3>1, <3>2, StepAccounts
      <4>2. d = x => Holds(epWait'[x], b)
          BY <1>2, <1>3, <3>2 DEF Holds
      <4>3. QED
          BY <4>1, <4>2 DEF Accounted, WaitsFor
    <3>3. CASE b # m
      <4>1. \A h \in Range(stack) : h.at = "step" /\ h.m = b /\ h.called =>
                h \in Range(stack') /\ deps'[b] = deps[b]
          BY <1>4, <3>3
      <4>2. Holds(epWait[x], b) => Holds(epWait'[x], b)
          BY <1>3 DEF Holds
      <4>3. QED
          BY <1>5, <3>1, <4>1, <4>2, AccountStays DEF histVars
    <3>4. QED
        BY <3>2, <3>3
  <2>2. QED
      BY <2>1 DEF ByModules
<1>12. ByImports' /\ ImportTruthful'
  <2>1. joined \subseteq Imports /\ joined' = joined /\ starter' = starter
      BY DEF EvalInv, TypeInv, histVars
  <2>2. QED
      BY <1>4, <1>5, <2>1, ImportsStay
<1>13. QED
    BY <1>7, <1>8, <1>9, <1>10, <1>11, <1>12 DEF EvalInv

(* StepReturns: past a dependency that completed, failing with one that    *)
(* failed, or parked on one that is suspended.                             *)
LEMMA StepReturnsKeeps ==
    ASSUME EvalInv, StepReturns
    PROVE  EvalInv'
<1>. PICK m, d : m = Top.m /\ d = deps[Top.m][Top.i]
    OBVIOUS
<1>1. /\ UNCHANGED <<specs, deps, bp, bpWait, awaits, op, ret, crashed, histVars>>
      /\ At("step") /\ AtDep /\ Top.i \in DOMAIN deps[Top.m] /\ Top.called
    BY DEF StepReturns, AtDep
<1>2. m \in Modules /\ Live(m) /\ d \in Modules /\ Top.i \in Nat \ {0}
    BY <1>1, StepFrame, DepIsModule
<1>3. /\ index \in [Modules -> Nat] /\ "oom" \in Reasons /\ 0 \in Nat /\ 1 \in Nat
      /\ reason \in [Modules -> Reasons \cup {"none"}]
      /\ starter \in [Modules -> Modules \cup Imports \cup {NoModule}]
    BY DEF EvalInv, TypeInv, TypeOK, Reasons
<1>4. ModuleOK(d)
    BY <1>2 DEF EvalInv, ChainInv
<1>5. ASSUME NEW n \in Nat, Keeps(n)
      PROVE  refusals' \in Nat /\ lost' = lost
    BY <1>5, RefusedCount DEF EvalInv, Keeps
<1>6. CASE ep[d] = "fulfilled" /\ NextDep /\ Quiet /\ UNCHANGED index
  <2>1. status[deps[Top.m][Top.i]] = "evaluated"
      BY <1>4, <1>6 DEF ModuleOK
  <2>2. refusals' \in Nat /\ lost' = lost
      BY <1>3, <1>5, <1>6 DEF Quiet
  <2>3. QED
      BY <1>1, <1>6, <2>1, <2>2, NextDepKeeps DEF Quiet, modVars, histVars
<1>7. ASSUME NEW why \in Reasons \cup {"none"}, NEW n \in Nat, ChainFails(why, n),
             index' \in [Modules -> Nat],
             why = "oom" \/ (status[d] = "errored" /\ why = reason[d])
      PROVE  EvalInv'
  <2>1. FailState(queue, m, why, n) /\ stack' = Tail(stack)
      BY <1>7 DEF ChainFails
  <2>2. UNCHANGED <<specs, deps, bp, op, runs, bpWait, awaits, ret, crashed, starter, joined>>
      BY <1>1 DEF histVars
  <2>3. /\ Settles(queue, m, "rejected", why)
        /\ status' \in [Modules -> Statuses]
        /\ \A e \in Modules \ {m} : status'[e] = status[e]
        /\ refusals' \in Nat
      BY <1>2, <1>7, <2>1, <2>2, FailSettles
  <2>4. QED
      BY <1>1, <1>3, <1>7, <2>1, <2>2, <2>3, StepFails
<1>8. CASE ep[d] = "rejected" /\ ChainFails(reason[d], 0) /\ UNCHANGED index
  <2>1. reason[d] \in Reasons \cup {"none"} /\ status[d] = "errored"
      BY <1>2, <1>3, <1>4, <1>8 DEF ModuleOK
  <2>2. QED
      BY <1>3, <1>7, <1>8, <2>1
<1>9. CASE /\ \/ index' = [index EXCEPT ![m] = Top.i] /\ Keeps(0)
              \/ UNCHANGED index /\ Keeps(1)
           /\ epWait' = [epWait EXCEPT ![d] = Append(@, [do |-> "dep", x |-> m])]
           /\ stack' = Tail(stack) /\ UNCHANGED <<status, ep, queue, reason>>
  <2>1. refusals' \in Nat /\ lost' = lost
      BY <1>3, <1>5, <1>9
  <2>2. index' = [index EXCEPT ![m] = Top.i] \/ UNCHANGED index
      BY <1>9
  <2>3. QED
      BY <1>1, <1>2, <1>9, <2>1, <2>2, StepWaits
<1>10. CASE index' = [index EXCEPT ![m] = Top.i] /\ ChainFails("oom", 1)
  <2>1. index' \in [Modules -> Nat]
      BY <1>2, <1>3, <1>10
  <2>2. QED
      BY <1>3, <1>7, <1>10, <2>1
<1>11. QED
    BY <1>6, <1>8, <1>9, <1>10 DEF StepReturns

-----------------------------------------------------------------------------
(* The body.                                                               *)

(* RunBody: the chain stays in its frame and its body starts for the first *)
(* time.                                                                   *)
LEMMA RunBodyKeeps ==
    ASSUME EvalInv, RunBody
    PROVE  EvalInv'
<1>. PICK m, f, g : /\ m = Top.m /\ f = [at |-> "body", m |-> m]
                    /\ g = [at |-> "ran", m |-> m]
    OBVIOUS
<1>1. /\ UNCHANGED <<specs, status, deps, ep, epWait, bp, bpWait, awaits, reason>>
      /\ UNCHANGED <<op, queue, ret, refusals, crashed, lost, starter, joined>>
      /\ At("step") /\ ~AtDep /\ index' = [index EXCEPT ![m] = Top.i]
      /\ runs' = [runs EXCEPT ![m] = @ + 1] /\ stack' = <<f, g>> \o Tail(stack)
    BY DEF RunBody, memVars
<1>2. /\ stack # <<>> /\ Top \in Range(stack) /\ Top.at = "step" /\ ~Links(Top)
      /\ m \in Modules /\ m \in Chains /\ Live(m) /\ runs[m] = 0 /\ Top.i \in Nat \ {0}
      /\ (\A c \in Chains : Runs(Top, c) <=> c = m)
      /\ ~Parked(queue, epWait, m) /\ ~Fiber(m)
      /\ \A h \in Range(Tail(stack)) : h.at \in {"step", "ran"} => h.m # m
      /\ Range(stack) = {Top} \cup Range(Tail(stack))
      /\ \A h \in Range(stack) : ~Links(h)
    BY <1>1, StepFrame
<1>3. ~bpWait[m] /\ bp[m] = "none" /\ status[m] = "evaluating"
    BY <1>2 DEF EvalInv, ChainInv, ModuleOK, Live
<1>4. ~Top.called
    BY <1>1, <1>2 DEF EvalInv, ChainInv, FrameOK, AtDep
<1>5. /\ f \in Frames /\ g \in Frames /\ f.at = "body" /\ g.at = "ran" /\ f.m = m /\ g.m = m
      /\ ~Links(f) /\ ~Links(g)
      /\ \A c \in Chains : ~Runs(f, c) /\ (Runs(g, c) <=> Runs(Top, c))
  <2>1. f.at = "body" /\ g.at = "ran" /\ f.m = m /\ g.m = m
      OBVIOUS
  <2>2. f \in Frames /\ g \in Frames
      BY <1>2, FrameTypes
  <2>3. QED
      BY <1>2, <2>1, <2>2 DEF Links, Runs
<1>6. /\ StackMoves({}, {}) /\ Range(stack') = {f, g} \cup Range(Tail(stack))
      /\ Range(stack) = {Top} \cup Range(Tail(stack))
  <2>1. ChainsOf(f) = {}
      BY <1>5 DEF ChainsOf
  <2>2. QED
      BY <1>1, <1>2, <1>5, <2>1, SwapPush
<1>7. /\ runs' \in [Modules -> Nat] /\ runs'[m] = 1
      /\ \A n \in Modules \ {m} : runs'[n] = runs[n]
  <2>1. runs \in [Modules -> Nat]
      BY DEF EvalInv, TypeInv
  <2>2. QED
      BY <1>1, <1>2, <2>1
<1>8. index' \in [Modules -> Nat]
  <2>1. index \in [Modules -> Nat]
      BY DEF EvalInv, TypeInv, TypeOK
  <2>2. QED
      BY <1>1, <1>2, <2>1
<1>9. TypeInv'
    BY <1>1, <1>6, <1>7, <1>8 DEF EvalInv, TypeInv, TypeOK, StackMoves
<1>10. LinkInv'
    BY <1>2, <1>5, <1>6, NothingLinks
<1>11. PlaceInv' /\ NoneDropped'
  <2>1. ParkMoves({}, {}) /\ FiberMoves({}, {}) /\ PlaceInv /\ NoneDropped
      BY <1>1, ParksStay, FibersStay DEF EvalInv
  <2>2. \A c \in Chains : Live(c) <=> Live(c)'
      BY <1>1 DEF Live
  <2>3. QED
      BY <1>1, <1>6, <2>1, <2>2, PlaceMoves, DropMoves
<1>12. RootsStay /\ OutcomesStay
    BY <1>1 DEF RootsStay, OutcomesStay
<1>13. ChainInv'
  <2>1. \A n \in Modules : ~OnStack(stack, n) => runs'[n] = runs[n]
    <3>1. OnStack(stack, m)
        BY <1>2 DEF OnStack, Runs
    <3>2. QED
        BY <1>7, <3>1
  <2>2. \A j \in Range(queue') : JobOK(j)'
      BY <1>1, <1>12, <2>1, JobsStayOK
  <2>3. \A d \in Modules : \A w \in Range(epWait'[d]) : WaiterOK(d, w)'
      BY <1>1, <1>12, <2>1, WaitersStayOK
  <2>4. FrameOK(f)'
      BY <1>1, <1>3, <1>5, <1>7 DEF FrameOK
  <2>5. FrameOK(g)'
      BY <1>1, <1>3, <1>5, <1>7 DEF FrameOK
  <2>6. ASSUME NEW h \in Range(Tail(stack)) PROVE FrameOK(h)'
    <3>1. FrameOK(h) /\ h \in Range(stack)
        BY <1>6 DEF EvalInv, ChainInv
    <3>2. h.at # "body"
        BY <1>2, TopBody
    <3>3. h.at \in {"step", "ran"} => h.m \in Modules /\ h.m # m
        BY <1>2, <3>1, FrameTypesOf
    <3>4. QED
        BY <1>1, <1>7, <3>1, <3>2, <3>3 DEF FrameOK
  <2>7. ASSUME NEW n \in Modules PROVE ModuleOK(n)'
    <3>1. ModuleOK(n)
        BY DEF EvalInv, ChainInv
    <3>2. CASE n = m
        BY <1>1, <1>3, <1>7, <3>1, <3>2 DEF ModuleOK, Startable
    <3>3. CASE n # m
        BY <1>1, <1>7, <3>1, <3>3 DEF ModuleOK, Startable
    <3>4. QED
        BY <3>2, <3>3
  <2>8. QED
      BY <1>6, <2>2, <2>3, <2>4, <2>5, <2>6, <2>7 DEF ChainInv
<1>14. ByModules'
  <2>1. ASSUME NEW b \in Modules, NEW x \in Modules, starter'[x] = b PROVE Accounted(b, x)'
    <3>1. starter[x] = b /\ Accounted(b, x)
        BY <1>1, <2>1 DEF EvalInv, ByModules
    <3>2. CASE b = m
      <4>1. status[x] = "evaluated"
          BY <1>1, <1>4, <3>1, <3>2, StepAccounts
      <4>2. QED
          BY <1>1, <4>1 DEF Accounted
    <3>3. CASE b # m
      <4>1. \A h \in Range(stack) : h.at = "step" /\ h.m = b /\ h.called =>
                h \in Range(stack') /\ deps'[b] = deps[b]
          BY <1>1, <1>4, <1>6
      <4>2. QED
          BY <1>1, <1>7, <1>12, <3>1, <3>3, <4>1, AccountStays
    <3>4. QED
        BY <3>2, <3>3
  <2>2. QED
      BY <2>1 DEF ByModules
<1>15. ByImports' /\ ImportTruthful'
  <2>1. joined \subseteq Imports
      BY DEF EvalInv, TypeInv
  <2>2. \A h \in Range(stack') : h.at = "root" => h \in Range(stack)
      BY <1>5, <1>6
  <2>3. QED
      BY <1>1, <1>12, <2>1, <2>2, ImportsStay
<1>16. QED
    BY <1>9, <1>10, <1>11, <1>13, <1>14, <1>15 DEF EvalInv

(* BodyStops: the body was on top of the stack and had no outcome before.  *)
LEMMA BodyStopsKeeps ==
    ASSUME EvalInv, BodyStops
    PROVE  EvalInv'
<1>. PICK m : m = Top.m
    OBVIOUS
<1>1. /\ UNCHANGED <<specs, status, deps, ep, epWait, bpWait, reason, index>>
      /\ UNCHANGED <<op, queue, ret, refusals, crashed, lost, runs, starter, joined>>
      /\ stack # <<>> /\ Top.at = "body" /\ stack' = <<Drain>> \o Tail(stack)
    BY DEF BodyStops, At, Instead, memVars, histVars
<1>2. /\ m \in Modules /\ Top \in Range(stack)
      /\ ~Links(Top) /\ (\A c \in Chains : ~Runs(Top, c))
      /\ \A h \in Range(stack) : ~Links(h)
  <2>1. m \in Modules /\ Top \in Range(stack) /\ ~Links(Top) /\ \A c \in Chains : ~Runs(Top, c)
      BY <1>1, TopFrame DEF EvalInv, Links, Runs
  <2>2. QED
      BY <1>1, <2>1, TopAlone
<1>3. ~bpWait[m] /\ bp[m] = "none" /\ status[m] = "evaluating" /\ runs[m] = 1
    BY <1>1, <1>2 DEF EvalInv, ChainInv, FrameOK
<1>4. PICK st \in {"pending", "fulfilled", "rejected"}, w \in Imports \cup {Host} :
          bp' = [bp EXCEPT ![m] = st] /\ (awaits' = awaits \/ awaits' = [awaits EXCEPT ![m] = w])
    BY DEF BodyStops
<1>5. /\ bp' \in [Modules -> {"none", "pending", "fulfilled", "rejected"}] /\ bp'[m] = st
      /\ (\A n \in Modules \ {m} : bp'[n] = bp[n]) /\ awaits' \in [Modules -> Imports \cup {Host}]
    BY <1>2, <1>4 DEF EvalInv, TypeInv, TypeOK
<1>6. /\ StackMoves({}, {}) /\ Range(stack') = {Drain} \cup Range(Tail(stack))
      /\ Range(stack) = {Top} \cup Range(Tail(stack))
  <2>1. Drain \in Frames /\ (\A c \in Chains : Runs(Drain, c) <=> Runs(Top, c)) /\ ~Links(Top)
      BY <1>2, FrameTypes DEF Runs, Drain
  <2>2. QED
      BY <1>1, <2>1, Swap
<1>7. TypeInv'
    BY <1>1, <1>5, <1>6 DEF EvalInv, TypeInv, TypeOK, StackMoves
<1>8. LinkInv'
    BY <1>2, <1>6, NothingLinks DEF Links, Drain
<1>9. PlaceInv' /\ NoneDropped'
  <2>1. ParkMoves({}, {}) /\ PlaceInv /\ NoneDropped
      BY <1>1, ParksStay DEF EvalInv
  <2>2. FiberMoves({}, {})
      BY <1>1, <1>3, <1>5 DEF FiberMoves, Fiber
  <2>3. \A c \in Chains : Live(c) <=> Live(c)'
      BY <1>1 DEF Live
  <2>4. QED
      BY <1>1, <1>6, <2>1, <2>2, <2>3, PlaceMoves, DropMoves
<1>10. RootsStay /\ OutcomesStay
    BY <1>1 DEF RootsStay, OutcomesStay
<1>11. ChainInv'
  <2>1. \A n \in Modules : bp[n] = "fulfilled" => bp'[n] = "fulfilled"
      BY <1>3, <1>5
  <2>2. \A j \in Range(queue') : JobOK(j)'
      BY <1>1, <1>10, <2>1, JobsStayOK
  <2>3. \A d \in Modules : \A w1 \in Range(epWait'[d]) : WaiterOK(d, w1)'
      BY <1>1, <1>10, WaitersStayOK
  <2>4. ASSUME NEW h \in Range(Tail(stack)) PROVE FrameOK(h)'
    <3>1. FrameOK(h) /\ h \in Range(stack)
        BY <1>6 DEF EvalInv, ChainInv
    <3>2. h.at # "body"
        BY <1>1, TopBody
    <3>3. QED
        BY <1>1, <3>1, <3>2 DEF FrameOK
  <2>5. FrameOK(Drain)'
      BY DEF FrameOK, Drain
  <2>6. ASSUME NEW n \in Modules PROVE ModuleOK(n)'
    <3>1. ModuleOK(n)
        BY DEF EvalInv, ChainInv
    <3>2. CASE n = m
        BY <1>1, <1>3, <3>1, <3>2 DEF ModuleOK, Startable
    <3>3. CASE n # m
        BY <1>1, <1>5, <3>1, <3>3 DEF ModuleOK, Startable
    <3>4. QED
        BY <3>2, <3>3
  <2>7. QED
      BY <1>6, <2>2, <2>3, <2>4, <2>5, <2>6 DEF ChainInv
<1>12. ByModules'
  <2>1. ASSUME NEW b \in Modules, NEW x \in Modules, starter'[x] = b PROVE Accounted(b, x)'
    <3>1. Accounted(b, x)
        BY <1>1, <2>1 DEF EvalInv, ByModules
    <3>2. \A h \in Range(stack) : h.at = "step" /\ h.m = b /\ h.called =>
              h \in Range(stack') /\ deps'[b] = deps[b]
        BY <1>1, <1>6
    <3>3. QED
        BY <1>1, <1>10, <3>1, <3>2, AccountStays
  <2>2. QED
      BY <2>1 DEF ByModules
<1>13. ByImports' /\ ImportTruthful'
  <2>1. joined \subseteq Imports
      BY DEF EvalInv, TypeInv
  <2>2. \A h \in Range(stack') : h.at = "root" => h \in Range(stack)
      BY <1>6 DEF Drain
  <2>3. QED
      BY <1>1, <1>10, <2>1, <2>2, ImportsStay
<1>14. QED
    BY <1>7, <1>8, <1>9, <1>11, <1>12, <1>13 DEF EvalInv

(* What a chain whose body has been started began before is evaluated.     *)
LEMMA RanFrame ==
    ASSUME EvalInv, At("ran")
    PROVE  /\ stack # <<>> /\ Top \in Range(stack) /\ Top.at = "ran" /\ ~Links(Top)
           /\ Top.m \in Modules /\ Top.m \in Chains /\ Live(Top.m) /\ runs[Top.m] = 1
           /\ ~bpWait[Top.m] /\ ChainsOf(Top) = {Top.m}
           /\ ~Parked(queue, epWait, Top.m) /\ ~Fiber(Top.m)
           /\ \A f \in Range(Tail(stack)) : f.at \in {"step", "ran"} => f.m # Top.m
           /\ \A f \in Range(Tail(stack)) : f.at # "body"
           /\ Range(stack) = {Top} \cup Range(Tail(stack))
           /\ \A f \in Range(stack) : ~Links(f)
           /\ \A d \in Modules : starter[d] = Top.m => status[d] = "evaluated"
<1>1. /\ Top \in [at : {"body", "ran"}, m : Modules] /\ Top.at = "ran"
      /\ stack # <<>> /\ Top \in Range(stack)
      /\ Range(stack) = {Top} \cup Range(Tail(stack))
    BY TopFrame DEF At, EvalInv
<1>2. Top.m \in Modules /\ Top.m \in Chains
    BY <1>1 DEF Chains
<1>3. ChainsOf(Top) = {Top.m} /\ Runs(Top, Top.m) /\ ~Links(Top)
    BY <1>1, <1>2 DEF ChainsOf, Runs, Links
<1>4. /\ ~OnStack(Tail(stack), Top.m) /\ ~Parked(queue, epWait, Top.m) /\ ~Fiber(Top.m)
      /\ Live(Top.m) /\ \A f \in Range(stack) : ~Links(f)
    BY <1>1, <1>2, <1>3, TopAlone
<1>5. \A f \in Range(Tail(stack)) : f.at \in {"step", "ran"} => f.m # Top.m
    BY <1>4 DEF OnStack, Runs
<1>6. runs[Top.m] = 1 /\ ~bpWait[Top.m]
    BY <1>1 DEF EvalInv, ChainInv, FrameOK
<1>7. \A f \in Range(Tail(stack)) : f.at # "body"
    BY <1>1, TopBody
<1>8. ASSUME NEW d \in Modules, starter[d] = Top.m PROVE status[d] = "evaluated"
  <2>1. Accounted(Top.m, d)
      BY <1>2, <1>8 DEF EvalInv, ByModules
  <2>2. ~CalledFor(Top.m, d)
      BY <1>1, <1>5 DEF CalledFor
  <2>3. ~Holds(epWait[d], Top.m)
      BY <1>4 DEF Parked, Waits
  <2>4. ~Failed(Top.m, d) /\ ~Fails(Top.m, d)
      BY <1>6 DEF Failed, Fails
  <2>5. QED
      BY <2>1, <2>2, <2>3, <2>4 DEF Accounted, WaitsFor
<1>9. QED
    BY <1>1, <1>2, <1>3, <1>4, <1>5, <1>6, <1>7, <1>8

(* The chain whose body has been run is settled in its own frame.          *)
LEMMA RanSettles ==
    ASSUME EvalInv, At("ran"), NEW m, m = Top.m, NEW st \in Ends,
           NEW why \in Reasons \cup {"none"}, Settles(queue, m, st, why),
           stack' = Tail(stack), UNCHANGED <<bpWait, awaits, index, ret, crashed, starter, joined>>,
           status' \in [Modules -> Statuses],
           \A n \in Modules \ {m} : status'[n] = status[n],
           refusals' \in Nat, st = "fulfilled" => bp[m] = "fulfilled"
    PROVE  EvalInv'
<1>1. /\ stack # <<>> /\ Top.at = "ran" /\ m \in Modules /\ m \in Chains /\ Live(m)
      /\ ChainsOf(Top) = {m}
      /\ ~Parked(queue, epWait, m) /\ ~Fiber(m)
      /\ \A f \in Range(stack) : ~Links(f)
      /\ \A d \in Modules : starter[d] = m => status[d] = "evaluated"
    BY RanFrame
<1>2. StackMoves({m}, {}) /\ Range(stack) = {Top} \cup Range(stack')
    BY <1>1, Pop
<1>3. queue \in Seq(Jobs)
    BY Wellknown
<1>4. UNCHANGED <<specs, deps, bp, op, runs>>
    BY DEF Settles
<1>5. TypeInv'
  <2>1. /\ ep' \in [Modules -> {"none", "pending", "fulfilled", "rejected"}]
        /\ epWait' \in [Modules -> Seq(Waiters)]
        /\ queue' \in Seq(ModJobs \cup RootJobs)
        /\ reason' \in [Modules -> Reasons \cup {"none"}]
        /\ lost' \subseteq Modules
      BY <1>1, <1>3, SettleTypes
  <2>2. QED
      BY <1>2, <1>4, <2>1 DEF EvalInv, TypeInv, TypeOK, StackMoves
<1>6. LinkInv'
    BY <1>1, <1>2, NothingLinks
<1>7. PlaceInv' /\ NoneDropped'
  <2>. PICK po, so : po = {} /\ so = {m}
      OBVIOUS
  <2>1. \A c \in Chains : OnceParked(queue, epWait, c)
      BY DEF EvalInv, PlaceInv, OnePlace
  <2>2. po \subseteq {m} /\ so \subseteq {m} /\ m \in so /\ \A c : c \notin po
      OBVIOUS
  <2>3. StackMoves(so, {})
      BY <1>2
  <2>4. QED
      BY <1>1, <1>3, <2>1, <2>2, <2>3, SettlePlaces
<1>8. ChainInv'
  <2>1. BodyStays
      BY <1>1 DEF BodyStays, At
  <2>2. QED
      BY <1>1, <1>2, <1>3, <2>1, SettleChains
<1>9. ByModules'
  <2>1. OutcomesStay
      BY <1>1, <1>3, SettleOthers
  <2>2. ASSUME NEW d \in Modules, starter'[d] = m PROVE Accounted(m, d)'
    <3>1. status[d] = "evaluated"
        BY <1>1, <2>2
    <3>2. QED
        BY <2>1, <3>1 DEF Accounted, OutcomesStay
  <2>3. \A f \in Range(stack) : f.at = "step" /\ f.m # m => f \in Range(stack')
      BY <1>1, <1>2
  <2>4. QED
      BY <1>1, <1>3, <2>2, <2>3, SettleByModules
<1>10. ByImports' /\ ImportTruthful'
    BY <1>1, <1>2, <1>3, SettleImports
<1>11. QED
    BY <1>5, <1>6, <1>7, <1>8, <1>9, <1>10 DEF EvalInv

(* A suspended body: the chain waits for it.                               *)
LEMMA RanWaits ==
    ASSUME EvalInv, At("ran"), bp[Top.m] = "pending",
           bpWait' = [bpWait EXCEPT ![Top.m] = TRUE], stack' = Tail(stack),
           UNCHANGED <<specs, status, deps, ep, epWait, bp, awaits, reason, index>>,
           UNCHANGED <<op, queue, ret, crashed, lost, histVars>>, refusals' \in Nat
    PROVE  EvalInv'
<1>. PICK m : m = Top.m
    OBVIOUS
<1>1. /\ stack # <<>> /\ Top.at = "ran" /\ m \in Modules /\ m \in Chains /\ Live(m)
      /\ runs[m] = 1 /\ ChainsOf(Top) = {m}
      /\ ~Parked(queue, epWait, m) /\ ~Fiber(m)
      /\ (\A f \in Range(Tail(stack)) : f.at \in {"step", "ran"} => f.m # m)
      /\ (\A f \in Range(Tail(stack)) : f.at # "body")
      /\ \A f \in Range(stack) : ~Links(f)
    BY RanFrame
<1>2. StackMoves({m}, {}) /\ Range(stack) = {Top} \cup Range(stack')
    BY <1>1, Pop
<1>3. /\ bpWait' \in [Modules -> BOOLEAN] /\ bpWait'[m]
      /\ \A n \in Modules \ {m} : bpWait'[n] = bpWait[n]
    BY <1>1 DEF EvalInv, TypeInv, TypeOK
<1>4. RootsStay /\ OutcomesStay
    BY DEF RootsStay, OutcomesStay
<1>5. TypeInv'
    BY <1>2, <1>3 DEF EvalInv, TypeInv, TypeOK, histVars, StackMoves
<1>6. LinkInv'
    BY <1>1, <1>2, NothingLinks
<1>7. PlaceInv' /\ NoneDropped'
  <2>1. ParkMoves({}, {}) /\ PlaceInv /\ NoneDropped
      BY ParksStay DEF EvalInv
  <2>2. FiberMoves({}, {m})
      BY <1>1, <1>3 DEF FiberMoves, Fiber
  <2>3. \A c \in Chains : Live(c) <=> Live(c)'
      BY DEF Live
  <2>4. QED
      BY <1>1, <1>2, <2>1, <2>2, <2>3, PlaceMoves, DropMoves
<1>8. ChainInv'
  <2>1. UNCHANGED <<runs, starter, joined>>
      BY DEF histVars
  <2>2. \A j \in Range(queue') : JobOK(j)'
      BY <1>4, <2>1, JobsStayOK
  <2>3. \A d \in Modules : \A w \in Range(epWait'[d]) : WaiterOK(d, w)'
      BY <1>4, <2>1, WaitersStayOK
  <2>4. ASSUME NEW f \in Range(stack') PROVE FrameOK(f)'
    <3>1. FrameOK(f) /\ f \in Range(stack) /\ f.at # "body" /\ (f.at = "ran" => f.m # m)
        BY <1>1, <1>2 DEF EvalInv, ChainInv
    <3>2. f.at = "ran" => f.m \in Modules
        BY <3>1, FrameTypesOf
    <3>3. QED
        BY <1>3, <2>1, <3>1, <3>2 DEF FrameOK
  <2>5. ASSUME NEW n \in Modules PROVE ModuleOK(n)'
    <3>1. ModuleOK(n)
        BY DEF EvalInv, ChainInv
    <3>2. CASE n = m
        BY <1>1, <2>1, <3>1, <3>2 DEF ModuleOK, Startable
    <3>3. CASE n # m
        BY <1>3, <2>1, <3>1, <3>3 DEF ModuleOK, Startable
    <3>4. QED
        BY <3>2, <3>3
  <2>6. QED
      BY <2>2, <2>3, <2>4, <2>5 DEF ChainInv
<1>9. ByModules'
  <2>1. ASSUME NEW b \in Modules, NEW x \in Modules, starter'[x] = b PROVE Accounted(b, x)'
    <3>1. Accounted(b, x)
        BY <2>1 DEF EvalInv, ByModules, histVars
    <3>2. \A h \in Range(stack) : h.at = "step" /\ h.m = b /\ h.called =>
              h \in Range(stack') /\ deps'[b] = deps[b]
        BY <1>1, <1>2
    <3>3. QED
        BY <1>4, <3>1, <3>2, AccountStays DEF histVars
  <2>2. QED
      BY <2>1 DEF ByModules
<1>10. ByImports' /\ ImportTruthful'
  <2>1. joined \subseteq Imports /\ joined' = joined /\ starter' = starter
      BY DEF EvalInv, TypeInv, histVars
  <2>2. QED
      BY <1>2, <1>4, <2>1, ImportsStay
<1>11. QED
    BY <1>5, <1>6, <1>7, <1>8, <1>9, <1>10 DEF EvalInv

(* BodyReturns: the chain is settled, or subscribes to its suspended body. *)
LEMMA BodyReturnsKeeps ==
    ASSUME EvalInv, BodyReturns
    PROVE  EvalInv'
<1>. PICK m : m = Top.m
    OBVIOUS
<1>1. /\ UNCHANGED <<specs, deps, bp, awaits, index, op, ret, crashed, histVars>>
      /\ At("ran") /\ stack' = Tail(stack)
    BY DEF BodyReturns
<1>2. /\ m \in Modules /\ Live(m) /\ "oom" \in Reasons \cup {"none"}
      /\ m \in Reasons \cup {"none"} /\ "none" \in Reasons \cup {"none"}
      /\ TypeInv /\ 0 \in Nat /\ 1 \in Nat
      /\ "fulfilled" \in Ends /\ "rejected" \in Ends
    BY <1>1, RanFrame DEF Reasons, Ends, EvalInv
<1>3. ASSUME NEW why \in Reasons \cup {"none"}, NEW n \in Nat,
             FailState(queue, m, why, n), UNCHANGED bpWait
      PROVE  EvalInv'
  <2>1. UNCHANGED <<specs, deps, bp, op, runs, starter, joined>>
      BY <1>1 DEF histVars
  <2>2. /\ Settles(queue, m, "rejected", why)
        /\ status' \in [Modules -> Statuses]
        /\ \A d \in Modules \ {m} : status'[d] = status[d]
        /\ refusals' \in Nat
      BY <1>2, <1>3, <2>1, FailSettles
  <2>3. QED
      BY <1>1, <1>2, <1>3, <2>1, <2>2, RanSettles
<1>4. CASE bp[m] = "fulfilled" /\ BodyDone(queue, m) /\ UNCHANGED bpWait
  <2>1. status \in [Modules -> Statuses]
      BY DEF EvalInv, TypeInv, TypeOK
  <2>2. /\ status' \in [Modules -> Statuses] /\ status'[m] = "evaluated"
        /\ \A n \in Modules \ {m} : status'[n] = status[n]
        /\ Tells(queue, m, "fulfilled", "none", 0) /\ UNCHANGED reason
      BY <1>2, <1>4, <2>1 DEF BodyDone, SettleEval, Statuses
  <2>3. /\ refusals' \in Nat
        /\ Joins(queue, m, "fulfilled", "none") \/ Strands(queue, m)
      BY <1>2, <2>2, TellsHow
  <2>4. Settles(queue, m, "fulfilled", "none")
      BY <1>1, <2>2, <2>3 DEF Settles, histVars
  <2>5. QED
      BY <1>1, <1>2, <1>4, <2>2, <2>3, <2>4, RanSettles DEF histVars
<1>5. CASE bp[m] = "rejected" /\ FailState(queue, m, m, 0) /\ UNCHANGED bpWait
    BY <1>2, <1>3, <1>5
<1>6. CASE bp[m] = "pending" /\ bpWait' = [bpWait EXCEPT ![m] = TRUE] /\ Quiet
  <2>1. refusals' \in Nat
      BY <1>2, <1>6, RefusedCount DEF Quiet, Keeps
  <2>2. QED
      BY <1>1, <1>6, <2>1, RanWaits DEF Quiet, Keeps
<1>7. CASE FailState(queue, m, "oom", 1) /\ UNCHANGED bpWait
    BY <1>2, <1>3, <1>7
<1>8. QED
    BY <1>4, <1>5, <1>6, <1>7 DEF BodyReturns

(* BodyRefused: the chain fails before its body.                           *)
LEMMA BodyRefusedKeeps ==
    ASSUME EvalInv, BodyRefused
    PROVE  EvalInv'
<1>. PICK m : m = Top.m
    OBVIOUS
<1>1. /\ UNCHANGED <<specs, deps, bp, bpWait, awaits, op, ret, crashed, runs, starter, joined>>
      /\ At("step") /\ ~AtDep /\ index' = [index EXCEPT ![m] = Top.i]
      /\ FailState(queue, m, "oom", 1) /\ stack' = Tail(stack)
    BY DEF BodyRefused, ChainFails, histVars
<1>2. /\ m \in Modules /\ Top \in Range(stack) /\ Top.at = "step" /\ Top.i \in Nat
      /\ "oom" \in Reasons \cup {"none"} /\ 1 \in Nat
    BY <1>1, StepFrame DEF Reasons
<1>3. ~Top.called
    BY <1>1, <1>2 DEF EvalInv, ChainInv, FrameOK, AtDep
<1>4. /\ index' \in [Modules -> Nat]
      /\ starter \in [Modules -> Modules \cup Imports \cup {NoModule}]
    BY <1>1, <1>2 DEF EvalInv, TypeInv, TypeOK
<1>5. /\ Settles(queue, m, "rejected", "oom")
      /\ status' \in [Modules -> Statuses]
      /\ \A d \in Modules \ {m} : status'[d] = status[d]
      /\ refusals' \in Nat
    BY <1>1, <1>2, FailSettles
<1>6. QED
    BY <1>1, <1>2, <1>3, <1>4, <1>5, StepFails

-----------------------------------------------------------------------------
(* The inductive invariant.                                                *)

(* Before the first import no chain has begun.                             *)
LEMMA EvalInit == Init => EvalInv
<1>. SUFFICES ASSUME Init PROVE EvalInv
    OBVIOUS
<1>1. /\ <<>> \in Seq(Modules \cup {NoModule}) /\ <<>> \in Seq(Waiters)
      /\ <<>> \in Seq(ModJobs \cup RootJobs) /\ <<>> \in Seq(Frames)
      /\ Range(<<>>) = {} /\ DOMAIN <<>> = {}
    BY DEF Range
<1>2. TypeOK
  <2>1. refusals \in Nat /\ crashed \in BOOLEAN /\ lost \subseteq Modules
    <3>1. refusals = 0 /\ crashed = FALSE /\ lost = {}
        BY DEF Init
    <3>2. crashed \in BOOLEAN
        BY <3>1
    <3>3. QED
        BY <3>1, <3>2
  <2>2. /\ bpWait \in [Modules -> BOOLEAN] /\ ret \in {"ok"} \cup Reasons
        /\ op \in [Imports -> [root : Modules \cup {NoModule}, by : Modules \cup {Host},
                               st : {"idle", "loading", "loaded", "fulfilled", "rejected"},
                               why : Reasons \cup {"none"}]]
      BY DEF Init
  <2>3. QED
      BY <1>1, <2>1, <2>2 DEF Init, TypeOK, Statuses
<1>3. TypeInv
    BY <1>1, <1>2 DEF Init, TypeInv
<1>4. LinkInv
    BY <1>1 DEF Init, LinkInv, Nested, BodyOnTop
<1>5. PlaceInv /\ NoneDropped
  <2>1. \A c : ~OnStack(stack, c) /\ OnceOn(stack, c)
      BY <1>1 DEF Init, OnStack, OnceOn
  <2>2. \A c : ~Parked(queue, epWait, c) /\ OnceParked(queue, epWait, c)
      BY <1>1 DEF Init, Parked, OnceParked, Waits, OnceWaits, Holds, OnceIn
  <2>3. \A c : ~Fiber(c)
      BY DEF Init, Fiber
  <2>0. \A c \in Chains : ~Live(c)
      BY DEF Init, Live, Chains
  <2>4. QED
      BY <2>1, <2>2, <2>3, <2>0 DEF PlaceInv, OnePlace, InPlace, NoneDropped
<1>6. ChainInv
  <2>1. \A m \in Modules : ModuleOK(m)
      BY ModulesNotSentinel DEF Init, ModuleOK
  <2>2. /\ \A f \in Range(stack) : FrameOK(f)
        /\ \A j \in Range(queue) : JobOK(j)
        /\ \A d \in Modules : \A w \in Range(epWait[d]) : WaiterOK(d, w)
      BY <1>1 DEF Init
  <2>3. QED
      BY <2>1, <2>2 DEF ChainInv
<1>7. ByModules /\ ByImports /\ ImportTruthful
    BY ModulesNotSentinel, EvalConstants DEF Init, ByModules, ByImports, ImportTruthful
<1>8. QED
    BY <1>3, <1>4, <1>5, <1>6, <1>7 DEF EvalInv

(* Only how much was refused and whether a NULL was dereferenced may       *)
(* change without anything else.                                           *)
LEMMA EvalStutters ==
    ASSUME EvalInv, UNCHANGED <<modVars, op, queue, stack, ret, lost, histVars>>,
           crashed' \in BOOLEAN, refusals' \in Nat
    PROVE  EvalInv'
<1>1. UNCHANGED <<specs, status, deps, ep, epWait, bp, bpWait, awaits, reason, index,
                  op, queue, stack, ret, lost, runs, starter, joined>>
    BY DEF modVars, histVars
<1>2. TypeInv'
    BY <1>1 DEF EvalInv, TypeInv, TypeOK
<1>3. LinkInv'
    BY <1>1 DEF EvalInv, LinkInv, Startable
<1>4. PlaceInv' /\ NoneDropped'
  <2>1. \A c \in Chains : (Fiber(c)' <=> Fiber(c)) /\ (Live(c)' <=> Live(c))
      BY <1>1 DEF Fiber, Live
  <2>2. QED
      BY <1>1, <2>1 DEF EvalInv, PlaceInv, OnePlace, InPlace, NoneDropped
<1>5. ChainInv'
  <2>1. \A f \in Range(stack) : FrameOK(f)' <=> FrameOK(f)
      BY <1>1 DEF FrameOK
  <2>2. \A j \in Range(queue) : JobOK(j)' <=> JobOK(j)
      BY <1>1 DEF JobOK
  <2>3. \A d \in Modules : \A w \in Range(epWait[d]) : WaiterOK(d, w)' <=> WaiterOK(d, w)
      BY <1>1 DEF WaiterOK
  <2>4. \A m \in Modules : ModuleOK(m)' <=> ModuleOK(m)
      BY <1>1 DEF ModuleOK, Startable
  <2>5. QED
      BY <1>1, <2>1, <2>2, <2>3, <2>4 DEF EvalInv, ChainInv
<1>6. ByModules'
  <2>1. \A m, d \in Modules : Accounted(m, d)' <=> Accounted(m, d)
      BY <1>1 DEF Accounted, WaitsFor, CalledFor, Failed, Fails
  <2>2. QED
      BY <1>1, <2>1 DEF EvalInv, ByModules
<1>7. ByImports' /\ ImportTruthful'
    BY <1>1 DEF EvalInv, ByImports, ImportTruthful
<1>8. QED
    BY <1>2, <1>3, <1>4, <1>5, <1>6, <1>7 DEF EvalInv

(* NullModule: the access faults before anything else happens.             *)
LEMMA NullModuleKeeps ==
    ASSUME EvalInv, NullModule
    PROVE  EvalInv'
<1>1. UNCHANGED <<modVars, op, queue, stack, ret, lost, histVars>> /\ crashed' \in BOOLEAN
    BY DEF NullModule
<1>2. TypeInv /\ 1 \in Nat /\ 2 \in Nat /\ (Refused(1) \/ Refused(2))
    BY DEF EvalInv, NullModule
<1>3. refusals' \in Nat
    BY <1>2, RefusedCount
<1>4. QED
    BY <1>1, <1>3, EvalStutters

(* Every step keeps every chain where exactly one actor goes on with it,   *)
(* or leaves it behind and says so.                                        *)
LEMMA EvalStep == EvalInv /\ [Next]_vars => EvalInv'
<1>. SUFFICES ASSUME EvalInv, [Next]_vars PROVE EvalInv'
    OBVIOUS
<1>1. ASSUME NEW o \in Imports, NEW r \in Modules, Import(o, r) PROVE EvalInv'
    BY <1>1, ImportKeeps
<1>2. ASSUME NEW o \in Imports, GraphLoads(o) PROVE EvalInv'
    BY <1>2, GraphLoadsKeeps
<1>3. ASSUME NEW m \in Modules, FiberEnds(m) PROVE EvalInv'
    BY <1>3, FiberEndsKeeps
<1>4. CASE TakeFetched
    BY <1>4, TakeFetchedKeeps
<1>5. CASE TakeDepDone
    BY <1>5, TakeDepDoneKeeps
<1>6. CASE TakeEvalSettled
    BY <1>6, TakeEvalSettledKeeps
<1>7. CASE TakeRootSettled
    BY <1>7, TakeRootSettledKeeps
<1>8. CASE DrainEnds
    BY <1>8, DrainEndsKeeps
<1>9. CASE InstStep
    BY <1>9, InstStepKeeps
<1>10. CASE LinkStep
    BY <1>10, LinkStepKeeps
<1>11. CASE RootInstantiates
    BY <1>11, RootInstantiatesKeeps
<1>12. CASE RootLinks
    BY <1>12, RootLinksKeeps
<1>13. CASE RootEvaluates
    BY <1>13, RootEvaluatesKeeps
<1>14. CASE RootReturns
    BY <1>14, RootReturnsKeeps
<1>15. CASE StepDep
    BY <1>15, StepDepKeeps
<1>16. CASE StepReturns
    BY <1>16, StepReturnsKeeps
<1>17. CASE RunBody
    BY <1>17, RunBodyKeeps
<1>18. CASE BodyStops
    BY <1>18, BodyStopsKeeps
<1>19. CASE BodyReturns
    BY <1>19, BodyReturnsKeeps
<1>20. CASE HostDrains
    BY <1>20, HostDrainsKeeps
<1>21. CASE BodyRefused
    BY <1>21, BodyRefusedKeeps
<1>22. CASE NullModule
    BY <1>22, NullModuleKeeps
<1>23. CASE UNCHANGED vars
    BY <1>23, EvalStutters DEF vars, memVars, EvalInv, TypeInv, TypeOK
<1>24. QED
    BY <1>1, <1>2, <1>3, <1>4, <1>5, <1>6, <1>7, <1>8, <1>9, <1>10, <1>11, <1>12,
       <1>13, <1>14, <1>15, <1>16, <1>17, <1>18, <1>19, <1>20, <1>21,
       <1>22, <1>23 DEF Next, Engine

(* In every state a chain that is under way is in exactly one place, or in *)
(* none if a refused lookup left it behind; no other chain is in any; and  *)
(* every evaluation is accounted for by whoever began it (evaluate,        *)
(* eval_step, root_on_fetched and their continuations).                    *)
THEOREM EvalInvariant == Spec => []EvalInv
<1>1. EvalInv /\ [Next]_vars => EvalInv'
    BY EvalStep
<1>2. QED
    BY <1>1, EvalInit, PTL DEF Spec

(* Statuses, dependency arrays, promises, jobs and reactions stay what     *)
(* js_module.c declares them to be.                                        *)
THEOREM ModuleEvalTypeCorrect == Spec => []TypeOK
<1>1. EvalInv => TypeOK
    BY DEF EvalInv, TypeInv
<1>2. QED
    BY <1>1, EvalInvariant, PTL

(* However imports of one graph, its cycles and the drains nested in its   *)
(* evaluation interleave, no module's body is started twice (evaluate,     *)
(* eval_step).                                                             *)
THEOREM BodiesStartOnce == Spec => []BodyOnce
<1>1. EvalInv => BodyOnce
    BY DEF EvalInv, ChainInv, ModuleOK, BodyOnce
<1>2. QED
    BY <1>1, EvalInvariant, PTL

(* A module whose chain still waits for d has neither run nor failed.      *)
LEMMA WaitingIsLive ==
    ASSUME EvalInv, NEW m \in Modules, NEW d \in Modules, WaitsFor(m, d) \/ Fails(m, d)
    PROVE  runs[m] = 0 /\ status[m] = "evaluating"
<1>1. m \in Chains
    BY DEF Chains
<1>2. CASE CalledFor(m, d)
  <2>1. PICK f \in Range(stack) : f.at = "step" /\ f.m = m
      BY <1>2 DEF CalledFor
  <2>2. runs[m] = 0
      BY <2>1 DEF EvalInv, ChainInv, FrameOK
  <2>3. InPlace(m)
      BY <2>1 DEF InPlace, OnStack, Runs
  <2>4. QED
      BY <1>1, <2>2, <2>3 DEF EvalInv, PlaceInv, Live
<1>3. CASE Holds(epWait[d], m)
  <2>1. PICK w \in Range(epWait[d]) : w.x = m
      BY <1>3 DEF Holds
  <2>2. w.do = "dep"
      BY <2>1, WaiterTypes, EvalConstants DEF Waiters
  <2>3. runs[m] = 0
      BY <2>1, <2>2 DEF EvalInv, ChainInv, WaiterOK
  <2>4. InPlace(m)
      BY <1>3 DEF InPlace, Parked, Waits
  <2>5. QED
      BY <1>1, <2>3, <2>4 DEF EvalInv, PlaceInv, Live
<1>4. CASE Fails(m, d)
  <2>1. runs[m] = 0 /\ InPlace(m)
      BY <1>4 DEF Fails, InPlace, Parked, Holds
  <2>2. QED
      BY <1>1, <2>1 DEF EvalInv, PlaceInv, Live
<1>5. QED
    BY <1>2, <1>3, <1>4 DEF WaitsFor

(* A body starts only when every dependency whose evaluation its chain     *)
(* began has completed, however long that one was suspended (eval_step).   *)
THEOREM BodiesFollowDependencies == Spec => []BodyAfterDeps
<1>1. ASSUME EvalInv PROVE BodyAfterDeps
  <2>1. SUFFICES ASSUME NEW m \in Modules, runs[m] > 0,
                        NEW d \in Modules \ {m}, starter[d] = m
                 PROVE  status[d] = "evaluated" /\ bp[d] = "fulfilled"
      BY DEF BodyAfterDeps
  <2>2. Accounted(m, d) /\ ModuleOK(d)
      BY <1>1, <2>1 DEF EvalInv, ByModules, ChainInv
  <2>3. runs[m] # 0
      BY <2>1
  <2>4. ~WaitsFor(m, d) /\ ~Fails(m, d) /\ ~Failed(m, d)
      BY <1>1, <2>3, WaitingIsLive DEF Failed
  <2>5. QED
      BY <2>2, <2>4 DEF Accounted, ModuleOK
<1>2. QED
    BY <1>1, EvalInvariant, PTL

(* A failed evaluation reaches whoever began it, with its reason, and an   *)
(* import is fulfilled only for a module that has been evaluated, unless   *)
(* it met it in the middle of its evaluation (evaluate, eval_on_fail,      *)
(* root_on_eval_done, root_on_eval_fail).                                  *)
THEOREM OutcomesAlwaysAgree == Spec => []OutcomesAgree
<1>1. ASSUME EvalInv PROVE FailureSpreads
  <2>1. ASSUME NEW d \in Modules, status[d] = "errored",
               NEW m \in Modules \ {d}, starter[d] = m
        PROVE  /\ runs[m] = 0
               /\ status[m] = "errored" => reason[m] \in {reason[d], "oom"}
    <3>1. Accounted(m, d)
        BY <1>1, <2>1 DEF EvalInv, ByModules
    <3>2. WaitsFor(m, d) \/ Fails(m, d) => runs[m] = 0 /\ status[m] = "evaluating"
        BY <1>1, WaitingIsLive
    <3>3. QED
        BY <2>1, <3>1, <3>2 DEF Accounted, Failed
  <2>2. ASSUME NEW d \in Modules, status[d] = "errored",
               NEW o \in Imports, starter[d] = o
        PROVE  op[o].st # "fulfilled"
      BY <1>1, <2>2 DEF EvalInv, ByImports, ImportTruthful
  <2>3. QED
      BY <2>1, <2>2 DEF FailureSpreads
<1>2. EvalInv => OutcomesAgree
    BY <1>1 DEF EvalInv, OutcomesAgree
<1>3. QED
    BY <1>2, EvalInvariant, PTL

=============================================================================
