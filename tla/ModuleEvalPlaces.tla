-------------------------- MODULE ModuleEvalPlaces --------------------------
(***************************************************************************)
(* The invariant of linking and evaluation, and the lemmas that every step *)
(* of ModuleEval needs.                                                    *)
(*                                                                         *)
(* A chain is the evaluation of a module or the last part of an import.    *)
(* Everything rests on each chain under way being in one place: a frame on *)
(* the C stack, a job in the queue, a reaction on a promise, or the fiber  *)
(* of a suspended body.  What is in no place has not begun, is settled, or *)
(* was left behind by a refused lookup.                                    *)
(***************************************************************************)
EXTENDS ModuleEval, SequenceTheorems, TLAPS

Chains == Modules \cup Imports

-----------------------------------------------------------------------------
(* Places.                                                                 *)

(* The frame runs the chain c.                                             *)
Runs(f, c) == \/ f.at \in {"step", "ran"} /\ f.m = c
              \/ f.at = "root" /\ f.o = c

OnStack(s, c) == \E f \in Range(s) : Runs(f, c)
OnceOn(s, c)  == \A i, j \in DOMAIN s : Runs(s[i], c) /\ Runs(s[j], c) => i = j

(* The same for lists of jobs and of reactions, which name their chain.    *)
Holds(s, c)  == \E j \in Range(s) : j.x = c
OnceIn(s, c) == \A i, j \in DOMAIN s : s[i].x = c /\ s[j].x = c => i = j

Waits(w, c)     == \E d \in Modules : Holds(w[d], c)
OnceWaits(w, c) == \A d \in Modules :
    OnceIn(w[d], c) /\ \A e \in Modules : Holds(w[d], c) /\ Holds(w[e], c) => d = e

(* A job or a reaction stands for the chain, and only one.                 *)
Parked(q, w, c)     == Holds(q, c) \/ Waits(w, c)
OnceParked(q, w, c) == OnceIn(q, c) /\ OnceWaits(w, c) /\ ~(Holds(q, c) /\ Waits(w, c))

(* A suspended body that the chain has subscribed to.                      *)
Fiber(c) == c \in Modules /\ bp[c] = "pending" /\ bpWait[c]

InPlace(c) == OnStack(stack, c) \/ Parked(queue, epWait, c) \/ Fiber(c)

OnePlace(c) ==
    /\ OnceOn(stack, c)
    /\ OnceParked(queue, epWait, c)
    /\ OnStack(stack, c) => ~Parked(queue, epWait, c)
    /\ Fiber(c) => ~OnStack(stack, c) /\ ~Parked(queue, epWait, c)

(* The chain has begun and is not settled.                                 *)
Live(c) == /\ c \in Modules => status[c] = "evaluating" /\ ep[c] = "pending"
           /\ c \in Imports => op[c].st = "loaded"

PlaceInv == \A c \in Chains : OnePlace(c) /\ (InPlace(c) => Live(c))

(* What is under way is somewhere, unless a refused lookup left it behind. *)
NoneDropped == \A c \in Chains : Live(c) => InPlace(c) \/ c \in lost

-----------------------------------------------------------------------------
(* Types.                                                                  *)
Frames ==
    {Drain}
    \cup [at : {"root"}, o : Imports, phase : {"inst", "link", "eval", "done"}]
    \cup [at : {"inst", "link"}, m : Modules, i : Nat \ {0}]
    \cup [at : {"step"}, m : Modules, i : Nat \ {0}, called : BOOLEAN]
    \cup [at : {"body", "ran"}, m : Modules]

TypeInv ==
    /\ TypeOK
    /\ stack \in Seq(Frames)
    /\ runs \in [Modules -> Nat]
    /\ starter \in [Modules -> Modules \cup Imports \cup {NoModule}]
    /\ joined \subseteq Imports
    /\ \A o \in Imports : op[o].st # "idle" => op[o].root \in Modules

(* Instantiation and linking are not interrupted: above a frame of theirs  *)
(* are only such frames, and nothing begins meanwhile.                     *)
Links(f) == f.at \in {"inst", "link"}

Nested(s) == \A j \in DOMAIN s : \A i \in 1..j : Links(s[j]) => Links(s[i])

(* A body runs its own code on top of the stack.                           *)
BodyOnTop(s) == s # <<>> => \A f \in Range(Tail(s)) : f.at # "body"

LinkInv ==
    /\ Nested(stack) /\ BodyOnTop(stack)
    /\ \A f \in Range(stack) : Links(f) => Startable(f.m)

-----------------------------------------------------------------------------
(* What each place says about the chain in it.                             *)
FrameOK(f) ==
    /\ f.at = "step" =>
          /\ runs[f.m] = 0
          /\ f.called => f.i \in DOMAIN deps[f.m] /\ deps[f.m][f.i] # NoModule
    /\ f.at \in {"ran", "body"} => runs[f.m] = 1 /\ ~bpWait[f.m]
    /\ f.at = "body" => status[f.m] = "evaluating" /\ bp[f.m] = "none"

JobOK(j) ==
    /\ j.do = "depDone"  => runs[j.x] = 0
    /\ j.do = "bodyDone" => bp[j.x] = "fulfilled"
    /\ j.do = "rootDone" => status[op[j.x].root] = "evaluated"

WaiterOK(d, w) ==
    /\ w.do = "dep"  => runs[w.x] = 0
    /\ w.do = "root" => op[w.x].root = d

(* How far a module's evaluation is and what its promises say.             *)
ModuleOK(m) ==
    /\ Startable(m) => runs[m] = 0 /\ starter[m] = NoModule /\ ep[m] = "none"
    /\ runs[m] = 0 => ~bpWait[m] /\ bp[m] = "none"
    /\ runs[m] <= 1
    /\ ep[m] = "fulfilled" => status[m] = "evaluated"
    /\ ep[m] = "rejected"  => status[m] = "errored"
    /\ status[m] = "evaluated" => bp[m] = "fulfilled"
    /\ starter[m] # m

ChainInv ==
    /\ \A f \in Range(stack) : FrameOK(f)
    /\ \A j \in Range(queue) : JobOK(j)
    /\ \A d \in Modules : \A w \in Range(epWait[d]) : WaiterOK(d, w)
    /\ \A m \in Modules : ModuleOK(m)

-----------------------------------------------------------------------------
(* Who began an evaluation.                                                *)

(* The chain of m is waiting for that of d.                                *)
CalledFor(m, d) == \E f \in Range(stack) :
    f.at = "step" /\ f.m = m /\ f.called /\ deps[m][f.i] = d

WaitsFor(m, d) == CalledFor(m, d) \/ Holds(epWait[d], m)

(* The chain of m has failed, for the reason of d or for want of memory.   *)
Failed(m, d) ==
    /\ status[m] = "errored" /\ runs[m] = 0
    /\ reason[m] = "oom" \/ (status[d] = "errored" /\ reason[m] = reason[d])

(* It is about to.                                                         *)
Fails(m, d) == \E j \in Range(queue) :
    /\ j.do = "evalFail" /\ j.x = m
    /\ runs[m] = 0 /\ status[d] = "errored" /\ j.why = reason[d]

Accounted(m, d) ==
    status[d] = "evaluated" \/ WaitsFor(m, d) \/ Failed(m, d) \/ Fails(m, d)

ByModules == \A m, d \in Modules : starter[d] = m => Accounted(m, d)

(* An import that began an evaluation is past doing so.                    *)
ByImports ==
    /\ \A o \in joined : op[o].st = "fulfilled"
    /\ \A d \in Modules, o \in Imports : starter[d] = o =>
          /\ op[o].st \notin {"idle", "loading"} /\ o \notin joined /\ d = op[o].root
          /\ \A j \in Range(queue) : j.x = o => j.do # "fetched"
          /\ \A f \in Range(stack) : f.at = "root" /\ f.o = o => f.phase = "done"

(* No chain is in two places; one that is under way is in a place, unless  *)
(* a refused lookup left it behind; one that is not under way is in none.  *)
(* What a place says of its chain is true, and every evaluation is         *)
(* accounted for by the chain or the import that began it (evaluate,       *)
(* eval_step and the continuations of both).                               *)
EvalInv == /\ TypeInv /\ LinkInv /\ PlaceInv /\ NoneDropped /\ ChainInv
           /\ ByModules /\ ByImports /\ ImportTruthful

-----------------------------------------------------------------------------
(* Lists.                                                                  *)

(* What is in a list after each of the operations on it.                   *)
LEMMA HeadAndTail ==
    ASSUME NEW S, NEW s \in Seq(S), s # <<>>
    PROVE  /\ Head(s) \in S /\ Tail(s) \in Seq(S)
           /\ Range(s) = {Head(s)} \cup Range(Tail(s))
           /\ DOMAIN s = 1..(Len(Tail(s)) + 1) /\ DOMAIN Tail(s) = 1..Len(Tail(s))
           /\ Len(Tail(s)) \in Nat
           /\ s[1] = Head(s) /\ \A i \in DOMAIN Tail(s) : s[i + 1] = Tail(s)[i]
<1>1. /\ Head(s) \in S /\ Tail(s) \in Seq(S) /\ Len(Tail(s)) = Len(s) - 1
      /\ \A i \in 1..Len(Tail(s)) : Tail(s)[i] = s[i + 1]
    BY HeadTailProperties
<1>2. /\ Len(s) \in Nat \ {0} /\ DOMAIN s = 1..Len(s) /\ s[1] = Head(s)
      /\ DOMAIN Tail(s) = 1..Len(Tail(s))
    BY <1>1, LenProperties, EmptySeq
<1>3. Range(s) = {Head(s)} \cup Range(Tail(s))
  <2>1. ASSUME NEW x \in Range(s) PROVE x \in {Head(s)} \cup Range(Tail(s))
    <3>1. PICK i \in 1..Len(s) : x = s[i]
        BY <1>2 DEF Range
    <3>2. CASE i = 1
        BY <3>1, <3>2, <1>2
    <3>3. CASE i # 1
      <4>1. i - 1 \in DOMAIN Tail(s) /\ x = Tail(s)[i - 1]
          BY <3>1, <3>3, <1>1, <1>2
      <4>2. QED
          BY <4>1 DEF Range
    <3>4. QED
        BY <3>2, <3>3
  <2>2. ASSUME NEW x \in {Head(s)} \cup Range(Tail(s)) PROVE x \in Range(s)
    <3>1. Head(s) \in Range(s)
        BY <1>2 DEF Range
    <3>2. ASSUME NEW i \in DOMAIN Tail(s) PROVE Tail(s)[i] \in Range(s)
      <4>1. i + 1 \in DOMAIN s /\ Tail(s)[i] = s[i + 1]
          BY <1>1, <1>2
      <4>2. QED
          BY <4>1 DEF Range
    <3>3. QED
        BY <3>1, <3>2 DEF Range
  <2>3. QED
      BY <2>1, <2>2
<1>4. QED
    BY <1>1, <1>2, <1>3

(* A frame pushed is on top and the stack below it is as it was.           *)
LEMMA Pushed ==
    ASSUME NEW S, NEW s \in Seq(S), NEW f \in S
    PROVE  /\ <<f>> \o s \in Seq(S) /\ <<f>> \o s # <<>>
           /\ Head(<<f>> \o s) = f /\ Tail(<<f>> \o s) = s
<1>1. <<f>> \in Seq(S) /\ Len(<<f>>) = 1 /\ <<f>>[1] = f
    OBVIOUS
<1>2. /\ <<f>> \o s \in Seq(S) /\ Len(<<f>> \o s) = 1 + Len(s)
      /\ \A i \in 1..(1 + Len(s)) :
            (<<f>> \o s)[i] = IF i <= 1 THEN <<f>>[i] ELSE s[i - 1]
    BY <1>1, ConcatProperties
<1>3. Len(s) \in Nat
    BY LenProperties
<1>4. <<f>> \o s # <<>> /\ Head(<<f>> \o s) = f
    BY <1>1, <1>2, <1>3, EmptySeq
<1>5. Tail(<<f>> \o s) = s
  <2>1. /\ Tail(<<f>> \o s) \in Seq(S) /\ Len(Tail(<<f>> \o s)) = Len(s)
        /\ \A i \in 1..Len(s) : Tail(<<f>> \o s)[i] = (<<f>> \o s)[i + 1]
      BY <1>2, <1>3, <1>4, HeadTailProperties
  <2>2. \A i \in 1..Len(s) : Tail(<<f>> \o s)[i] = s[i]
      BY <2>1, <1>2, <1>3
  <2>3. QED
      BY <2>1, <2>2, SeqEqual
<1>6. QED
    BY <1>2, <1>4, <1>5

(* Pushing two frames is pushing the lower one first.                      *)
LEMMA PushedTwo ==
    ASSUME NEW S, NEW s \in Seq(S), NEW f \in S, NEW g \in S
    PROVE  <<f, g>> \o s = <<f>> \o (<<g>> \o s)
<1>1. <<f>> \in Seq(S) /\ <<g>> \in Seq(S) /\ <<f, g>> \in Seq(S)
    OBVIOUS
<1>2. /\ <<f>> \o <<g>> \in Seq(S) /\ Len(<<f>> \o <<g>>) = 2
      /\ (<<f>> \o <<g>>)[1] = f /\ (<<f>> \o <<g>>)[2] = g
    BY <1>1, ConcatProperties
<1>3. <<f, g>> = <<f>> \o <<g>>
  <2>1. Len(<<f, g>>) = 2 /\ <<f, g>>[1] = f /\ <<f, g>>[2] = g
      OBVIOUS
  <2>. DEFINE t == <<f>> \o <<g>>
              u == <<f, g>>
  <2>. HIDE DEF t, u
  <2>2. \A i \in 1..Len(u) : u[i] = t[i]
      BY <1>2, <2>1 DEF t, u
  <2>3. QED
      BY <1>1, <1>2, <2>1, <2>2, SeqEqual DEF t, u
<1>4. QED
    BY <1>1, <1>3, ConcatAssociative

(* Stacks: a frame is pushed, or the one on top is popped.                 *)
LEMMA StackTop ==
    ASSUME NEW s \in Seq(Frames), s # <<>>
    PROVE  /\ \A c : OnStack(s, c) <=> Runs(Head(s), c) \/ OnStack(Tail(s), c)
           /\ \A c : OnceOn(s, c) <=>
                 OnceOn(Tail(s), c) /\ (Runs(Head(s), c) => ~OnStack(Tail(s), c))
           /\ Nested(s) <=>
                 Nested(Tail(s)) /\ ((\E f \in Range(Tail(s)) : Links(f)) => Links(Head(s)))
<1>. DEFINE t == Tail(s)
            n == Len(Tail(s))
<1>1. /\ Range(s) = {Head(s)} \cup Range(t) /\ DOMAIN s = 1..(n + 1) /\ DOMAIN t = 1..n
      /\ n \in Nat /\ s[1] = Head(s) /\ \A i \in DOMAIN t : s[i + 1] = t[i]
    BY HeadAndTail
<1>. HIDE DEF t, n
<1>2. \A c : OnStack(s, c) <=> Runs(Head(s), c) \/ OnStack(t, c)
    BY <1>1 DEF OnStack
<1>3. \A i \in 1..(n + 1) : i = 1 \/ (i - 1 \in 1..n /\ s[i] = t[i - 1])
    BY <1>1
<1>4. ASSUME NEW c PROVE OnceOn(s, c) <=> OnceOn(t, c) /\ (Runs(Head(s), c) => ~OnStack(t, c))
  <2>1. ASSUME OnceOn(s, c) PROVE OnceOn(t, c)
      BY <2>1, <1>1 DEF OnceOn
  <2>2. ASSUME OnceOn(s, c), Runs(Head(s), c), NEW i \in DOMAIN t, Runs(t[i], c) PROVE FALSE
      BY <2>2, <1>1 DEF OnceOn
  <2>3. OnStack(t, c) => \E i \in DOMAIN t : Runs(t[i], c)
      BY DEF OnStack, Range
  <2>4. ASSUME OnceOn(t, c), Runs(Head(s), c) => ~OnStack(t, c),
               NEW i \in DOMAIN s, NEW j \in DOMAIN s, Runs(s[i], c), Runs(s[j], c)
        PROVE  i = j
    <3>1. \A k \in 1..n : Runs(t[k], c) => OnStack(t, c)
        BY <1>1 DEF OnStack, Range
    <3>2. CASE i = 1 \/ j = 1
        BY <2>4, <3>1, <3>2, <1>1, <1>3
    <3>3. CASE i # 1 /\ j # 1
      <4>1. i - 1 = j - 1
          BY <2>4, <3>3, <1>1, <1>3 DEF OnceOn
      <4>2. QED
          BY <4>1, <1>1
    <3>4. QED
        BY <3>2, <3>3
  <2>5. OnceOn(t, c) /\ (Runs(Head(s), c) => ~OnStack(t, c)) => OnceOn(s, c)
      BY <2>4 DEF OnceOn
  <2>6. QED
      BY <2>1, <2>2, <2>3, <2>5
<1>5. Nested(s) <=> Nested(t) /\ ((\E f \in Range(t) : Links(f)) => Links(Head(s)))
  <2>1. ASSUME Nested(s), NEW j \in DOMAIN t, NEW i \in 1..j, Links(t[j]) PROVE Links(t[i])
    <3>1. j + 1 \in DOMAIN s /\ i + 1 \in 1..(j + 1) /\ s[j + 1] = t[j] /\ s[i + 1] = t[i]
        BY <1>1
    <3>2. QED
        BY <3>1, <2>1 DEF Nested
  <2>2. ASSUME Nested(s), NEW j \in DOMAIN t, Links(t[j]) PROVE Links(Head(s))
    <3>1. j + 1 \in DOMAIN s /\ 1 \in 1..(j + 1) /\ s[j + 1] = t[j]
        BY <1>1
    <3>2. QED
        BY <3>1, <2>2, <1>1 DEF Nested
  <2>3. ASSUME Nested(t), (\E f \in Range(t) : Links(f)) => Links(Head(s)),
               NEW j \in DOMAIN s, NEW i \in 1..j, Links(s[j])
        PROVE  Links(s[i])
    <3>1. CASE i = 1
      <4>1. j # 1 => j - 1 \in DOMAIN t /\ s[j] = t[j - 1]
          BY <1>1, <1>3
      <4>2. QED
          BY <4>1, <3>1, <2>3, <1>1 DEF Range
    <3>2. CASE i # 1
      <4>1. i - 1 \in 1..(j - 1) /\ j - 1 \in DOMAIN t /\ s[i] = t[i - 1] /\ s[j] = t[j - 1]
          BY <3>2, <1>1, <1>3
      <4>2. QED
          BY <4>1, <2>3 DEF Nested
    <3>3. QED
        BY <3>1, <3>2
  <2>4. QED
      BY <2>1, <2>2, <2>3 DEF Nested, Range
<1>6. QED
    BY <1>2, <1>4, <1>5 DEF t

(* Who runs on the stack after a push, how often, and what is nested.      *)
LEMMA StackPush ==
    ASSUME NEW s \in Seq(Frames), NEW f \in Frames
    PROVE  /\ <<f>> \o s \in Seq(Frames) /\ <<f>> \o s # <<>>
           /\ Range(<<f>> \o s) = {f} \cup Range(s)
           /\ \A c : OnStack(<<f>> \o s, c) <=> Runs(f, c) \/ OnStack(s, c)
           /\ \A c : OnceOn(<<f>> \o s, c) <=>
                 OnceOn(s, c) /\ (Runs(f, c) => ~OnStack(s, c))
           /\ Nested(<<f>> \o s) <=>
                 Nested(s) /\ ((\E g \in Range(s) : Links(g)) => Links(f))
<1>1. /\ <<f>> \o s \in Seq(Frames) /\ <<f>> \o s # <<>>
      /\ Head(<<f>> \o s) = f /\ Tail(<<f>> \o s) = s
    BY Pushed
<1>. DEFINE t == <<f>> \o s
<1>. HIDE DEF t
<1>2. t \in Seq(Frames) /\ t # <<>> /\ Head(t) = f /\ Tail(t) = s
    BY <1>1 DEF t
<1>3. Range(t) = {f} \cup Range(s)
    BY <1>2, HeadAndTail
<1>4. /\ \A c : OnStack(t, c) <=> Runs(f, c) \/ OnStack(s, c)
      /\ \A c : OnceOn(t, c) <=> OnceOn(s, c) /\ (Runs(f, c) => ~OnStack(s, c))
      /\ Nested(t) <=> Nested(s) /\ ((\E g \in Range(s) : Links(g)) => Links(f))
    BY <1>2, StackTop
<1>5. QED
    BY <1>2, <1>3, <1>4 DEF t

(* Queues and lists of reactions.                                          *)
LEMMA ListHead ==
    ASSUME NEW S, NEW s \in Seq(S), s # <<>>, NEW c
    PROVE  /\ Holds(s, c) <=> Head(s).x = c \/ Holds(Tail(s), c)
           /\ OnceIn(s, c) => OnceIn(Tail(s), c) /\ (Head(s).x = c => ~Holds(Tail(s), c))
<1>. DEFINE t == Tail(s)
            n == Len(Tail(s))
<1>1. /\ Range(s) = {Head(s)} \cup Range(t) /\ DOMAIN s = 1..(n + 1) /\ DOMAIN t = 1..n
      /\ n \in Nat /\ s[1] = Head(s) /\ \A i \in DOMAIN t : s[i + 1] = t[i]
    BY HeadAndTail
<1>. HIDE DEF t, n
<1>2. Holds(s, c) <=> Head(s).x = c \/ Holds(t, c)
    BY <1>1 DEF Holds
<1>3. OnceIn(s, c) => OnceIn(t, c)
    BY <1>1 DEF OnceIn
<1>4. ASSUME OnceIn(s, c), Head(s).x = c, NEW i \in DOMAIN t, t[i].x = c PROVE FALSE
    BY <1>4, <1>1 DEF OnceIn
<1>5. QED
    BY <1>2, <1>3, <1>4 DEF t, Holds, Range

(* A list after another holds what both hold, once if they share nothing.  *)
LEMMA ListConcat ==
    ASSUME NEW S, NEW s \in Seq(S), NEW t \in Seq(S), NEW c
    PROVE  /\ Holds(s \o t, c) <=> Holds(s, c) \/ Holds(t, c)
           /\ OnceIn(s, c) /\ OnceIn(t, c) /\ ~(Holds(s, c) /\ Holds(t, c)) =>
                 OnceIn(s \o t, c)
<1>1. /\ s \o t \in Seq(S) /\ Len(s \o t) = Len(s) + Len(t)
      /\ \A i \in 1..(Len(s) + Len(t)) :
            (s \o t)[i] = IF i <= Len(s) THEN s[i] ELSE t[i - Len(s)]
    BY ConcatProperties
<1>2. /\ Len(s) \in Nat /\ Len(t) \in Nat /\ DOMAIN s = 1..Len(s) /\ DOMAIN t = 1..Len(t)
      /\ DOMAIN (s \o t) = 1..(Len(s) + Len(t))
    BY <1>1, LenProperties
<1>3. Holds(s \o t, c) <=> Holds(s, c) \/ Holds(t, c)
    BY RangeConcatenation DEF Holds
<1>4. ASSUME OnceIn(s, c), OnceIn(t, c), ~(Holds(s, c) /\ Holds(t, c)),
             NEW i \in DOMAIN (s \o t), NEW j \in DOMAIN (s \o t),
             (s \o t)[i].x = c, (s \o t)[j].x = c
      PROVE  i = j
  <2>1. \A k \in 1..(Len(s) + Len(t)) :
            \/ k \in DOMAIN s /\ (s \o t)[k] = s[k]
            \/ k - Len(s) \in DOMAIN t /\ (s \o t)[k] = t[k - Len(s)]
      BY <1>1, <1>2
  <2>2. /\ \A k \in DOMAIN s : s[k].x = c => Holds(s, c)
        /\ \A k \in DOMAIN t : t[k].x = c => Holds(t, c)
      BY DEF Holds, Range
  <2>3. CASE i \in DOMAIN s /\ (s \o t)[i] = s[i] /\ j \in DOMAIN s /\ (s \o t)[j] = s[j]
      BY <1>4, <2>3 DEF OnceIn
  <2>4. CASE /\ i - Len(s) \in DOMAIN t /\ (s \o t)[i] = t[i - Len(s)]
             /\ j - Len(s) \in DOMAIN t /\ (s \o t)[j] = t[j - Len(s)]
    <3>1. i - Len(s) = j - Len(s)
        BY <1>4, <2>4 DEF OnceIn
    <3>2. QED
        BY <3>1, <1>2
  <2>5. QED
      BY <1>2, <1>4, <2>1, <2>2, <2>3, <2>4
<1>5. QED
    BY <1>3, <1>4 DEF OnceIn

(* The same for one more job or reaction.                                  *)
LEMMA ListAppend ==
    ASSUME NEW S, NEW s \in Seq(S), NEW e \in S, NEW c
    PROVE  /\ Append(s, e) \in Seq(S) /\ Range(Append(s, e)) = Range(s) \cup {e}
           /\ Holds(Append(s, e), c) <=> Holds(s, c) \/ e.x = c
           /\ OnceIn(s, c) /\ (e.x = c => ~Holds(s, c)) => OnceIn(Append(s, e), c)
<1>1. <<e>> \in Seq(S) /\ Append(s, e) \in Seq(S) /\ Append(s, e) = s \o <<e>>
    BY AppendProperties, AppendIsConcat
<1>2. Range(<<e>>) = {e}
    BY DEF Range
<1>3. (Holds(<<e>>, c) <=> e.x = c) /\ OnceIn(<<e>>, c)
    BY <1>2 DEF Holds, OnceIn
<1>4. Range(Append(s, e)) = Range(s) \cup {e}
  <2>1. Range(s \o <<e>>) = Range(s) \cup Range(<<e>>)
      BY <1>1, RangeConcatenation
  <2>2. QED
      BY <2>1, <1>1, <1>2
<1>5. Holds(Append(s, e), c) <=> Holds(s, c) \/ e.x = c
    BY <1>4 DEF Holds
<1>6. OnceIn(s, c) /\ (e.x = c => ~Holds(s, c)) => OnceIn(Append(s, e), c)
    BY <1>1, <1>3, ListConcat
<1>7. QED
    BY <1>1, <1>4, <1>5, <1>6

-----------------------------------------------------------------------------
(* Jobs and reactions together.                                            *)
Jobs == ModJobs \cup RootJobs

Ends == {"fulfilled", "rejected"}

(* The jobs of a settlement stand for the chains that waited, in their     *)
(* order.                                                                  *)
LEMMA ReactionsOf ==
    ASSUME NEW m \in Modules, epWait[m] \in Seq(Waiters),
           NEW st \in Ends, NEW why \in Reasons \cup {"none"}
    PROVE  LET r == Reactions(m, st, why)
           IN  /\ r \in Seq(Jobs)
               /\ \A c : Holds(r, c) <=> Holds(epWait[m], c)
               /\ \A c : OnceIn(r, c) <=> OnceIn(epWait[m], c)
               /\ \A j \in Range(r) : \E w \in Range(epWait[m]) : j = Told(w, st, why)
               /\ \A w \in Range(epWait[m]) : \E j \in Range(r) : j = Told(w, st, why)
<1>. DEFINE r == Reactions(m, st, why)
<1>1. /\ DOMAIN r = DOMAIN epWait[m] /\ DOMAIN epWait[m] = 1..Len(epWait[m])
      /\ Len(epWait[m]) \in Nat
      /\ \A k \in DOMAIN epWait[m] : epWait[m][k] \in Waiters
    BY LenProperties, ElementOfSeq DEF Reactions
<1>2. ASSUME NEW k \in DOMAIN epWait[m]
      PROVE  r[k] = Told(epWait[m][k], st, why) /\ r[k] \in Jobs /\ r[k].x = epWait[m][k].x
  <2>1. r[k] = Told(epWait[m][k], st, why) /\ epWait[m][k] \in Waiters
      BY <1>1 DEF Reactions
  <2>2. ASSUME NEW w \in Waiters
        PROVE  Told(w, st, why) \in Jobs /\ Told(w, st, why).x = w.x
      BY DEF Told, Job, Jobs, ModJobs, RootJobs, Waiters, Ends
  <2>3. QED
      BY <2>1, <2>2
<1>. HIDE DEF r
<1>3. r \in Seq(Jobs)
  <2>1. r \in [1..Len(epWait[m]) -> Jobs]
      BY <1>1, <1>2 DEF r, Reactions
  <2>2. QED
      BY <2>1, <1>1, SeqDef
<1>4. \A k \in DOMAIN epWait[m] : r[k].x = epWait[m][k].x
    BY <1>2
<1>5. \A c : Holds(r, c) <=> Holds(epWait[m], c)
    BY <1>1, <1>4 DEF Holds, Range
<1>6. \A c : OnceIn(r, c) <=> OnceIn(epWait[m], c)
    BY <1>1, <1>4 DEF OnceIn
<1>7. /\ \A j \in Range(r) : \E w \in Range(epWait[m]) : j = Told(w, st, why)
      /\ \A w \in Range(epWait[m]) : \E j \in Range(r) : j = Told(w, st, why)
    BY <1>1, <1>2 DEF Range
<1>8. QED
    BY <1>3, <1>5, <1>6, <1>7 DEF r

(* Whoever waits for m is told: reactions become jobs.                     *)
LEMMA ParkedSettle ==
    ASSUME NEW w \in [Modules -> Seq(Waiters)], NEW q \in Seq(Jobs), NEW r \in Seq(Jobs),
           NEW m \in Modules, NEW c,
           Holds(r, c) <=> Holds(w[m], c), OnceIn(r, c) <=> OnceIn(w[m], c)
    PROVE  LET v == [w EXCEPT ![m] = <<>>]
           IN  /\ Parked(q \o r, v, c) <=> Parked(q, w, c)
               /\ OnceParked(q, w, c) => OnceParked(q \o r, v, c)
<1>. DEFINE v == [w EXCEPT ![m] = <<>>]
<1>1. \A d \in Modules : v[d] = IF d = m THEN <<>> ELSE w[d]
    OBVIOUS
<1>2. ~Holds(<<>>, c) /\ OnceIn(<<>>, c)
    BY DEF Holds, OnceIn, Range
<1>. HIDE DEF v
<1>3. Waits(v, c) <=> \E d \in Modules \ {m} : Holds(w[d], c)
    BY <1>1, <1>2 DEF Waits
<1>4. Parked(q \o r, v, c) <=> Parked(q, w, c)
    BY <1>3, ListConcat DEF Parked, Waits
<1>5. ASSUME OnceParked(q, w, c) PROVE OnceParked(q \o r, v, c)
  <2>1. OnceIn(q \o r, c)
      BY <1>5, ListConcat DEF OnceParked, OnceWaits, Waits
  <2>2. OnceWaits(v, c)
      BY <1>1, <1>2, <1>5 DEF OnceParked, OnceWaits
  <2>3. ~(Holds(q \o r, c) /\ Waits(v, c))
      BY <1>3, <1>5, ListConcat DEF OnceParked, OnceWaits, Waits
  <2>4. QED
      BY <2>1, <2>2, <2>3 DEF OnceParked
<1>6. QED
    BY <1>4, <1>5 DEF v

(* A job is taken off the queue, or put on it.                             *)
LEMMA ParkedTake ==
    ASSUME NEW w, NEW q \in Seq(Jobs), q # <<>>, NEW c
    PROVE  /\ Parked(q, w, c) <=> Head(q).x = c \/ Parked(Tail(q), w, c)
           /\ OnceParked(q, w, c) =>
                 OnceParked(Tail(q), w, c) /\ (Head(q).x = c => ~Parked(Tail(q), w, c))
BY ListHead DEF Parked, OnceParked

(* A job for a chain that is not parked parks it once.                     *)
LEMMA ParkedPut ==
    ASSUME NEW w, NEW q \in Seq(Jobs), NEW j \in Jobs, NEW c
    PROVE  /\ Parked(Append(q, j), w, c) <=> j.x = c \/ Parked(q, w, c)
           /\ OnceParked(q, w, c) /\ (j.x = c => ~Parked(q, w, c)) =>
                 OnceParked(Append(q, j), w, c)
BY ListAppend DEF Parked, OnceParked

(* A chain subscribes to the promise of m.                                 *)
LEMMA ParkedWait ==
    ASSUME NEW w \in [Modules -> Seq(Waiters)], NEW q, NEW m \in Modules,
           NEW a \in Waiters, NEW c
    PROVE  LET v == [w EXCEPT ![m] = Append(@, a)]
           IN  /\ Parked(q, v, c) <=> a.x = c \/ Parked(q, w, c)
               /\ OnceParked(q, w, c) /\ (a.x = c => ~Parked(q, w, c)) =>
                     OnceParked(q, v, c)
<1>. DEFINE v == [w EXCEPT ![m] = Append(@, a)]
<1>1. \A d \in Modules : v[d] = IF d = m THEN Append(w[m], a) ELSE w[d]
    OBVIOUS
<1>2. /\ Holds(Append(w[m], a), c) <=> Holds(w[m], c) \/ a.x = c
      /\ OnceIn(w[m], c) /\ (a.x = c => ~Holds(w[m], c)) => OnceIn(Append(w[m], a), c)
    BY ListAppend
<1>. HIDE DEF v
<1>3. Waits(v, c) <=> a.x = c \/ Waits(w, c)
    BY <1>1, <1>2 DEF Waits
<1>4. Parked(q, v, c) <=> a.x = c \/ Parked(q, w, c)
    BY <1>3 DEF Parked
<1>5. ASSUME OnceParked(q, w, c), a.x = c => ~Parked(q, w, c) PROVE OnceParked(q, v, c)
  <2>1. OnceWaits(v, c)
      BY <1>1, <1>2, <1>5 DEF OnceParked, OnceWaits, Parked, Waits
  <2>2. QED
      BY <1>3, <1>5, <2>1 DEF OnceParked, Parked
<1>6. QED
    BY <1>4, <1>5 DEF v

-----------------------------------------------------------------------------
(* Types.                                                                  *)

(* What is on top of the stack, by where it is.                            *)
LEMMA TopFrame ==
    ASSUME TypeInv, stack # <<>>
    PROVE  /\ Top \in Frames /\ Tail(stack) \in Seq(Frames)
           /\ Range(stack) = {Top} \cup Range(Tail(stack))
           /\ Top.at = "root" => Top \in
                 [at : {"root"}, o : Imports, phase : {"inst", "link", "eval", "done"}]
           /\ Top.at \in {"inst", "link"} =>
                 Top \in [at : {"inst", "link"}, m : Modules, i : Nat \ {0}]
           /\ Top.at = "step" =>
                 Top \in [at : {"step"}, m : Modules, i : Nat \ {0}, called : BOOLEAN]
           /\ Top.at \in {"body", "ran"} => Top \in [at : {"body", "ran"}, m : Modules]
<1>1. /\ Top \in Frames /\ Tail(stack) \in Seq(Frames)
      /\ Range(stack) = {Top} \cup Range(Tail(stack))
    BY HeadAndTail DEF TypeInv, Top
<1>2. QED
    BY <1>1 DEF Frames, Drain

(* What is at the head of the queue.                                       *)
LEMMA HeadJob ==
    ASSUME TypeInv, queue # <<>>
    PROVE  /\ Head(queue) \in Jobs /\ Tail(queue) \in Seq(Jobs)
           /\ Range(queue) = {Head(queue)} \cup Range(Tail(queue))
           /\ Head(queue).do \in {"depDone", "evalFail", "bodyDone"} =>
                 Head(queue).x \in Modules
           /\ Head(queue).do \in {"fetched", "rootDone", "rootFail"} =>
                 Head(queue).x \in Imports
           /\ Head(queue).why \in Reasons \cup {"none"}
<1>1. queue \in Seq(Jobs)
    BY DEF TypeInv, TypeOK, Jobs
<1>2. /\ Head(queue) \in Jobs /\ Tail(queue) \in Seq(Jobs)
      /\ Range(queue) = {Head(queue)} \cup Range(Tail(queue))
    BY <1>1, HeadAndTail
<1>3. QED
    BY <1>2 DEF Jobs, ModJobs, RootJobs

(* The frames that are pushed.                                             *)
LEMMA FrameTypes ==
    /\ Drain \in Frames
    /\ \A o \in Imports, ph \in {"inst", "link", "eval", "done"} :
          [at |-> "root", o |-> o, phase |-> ph] \in Frames
    /\ \A m \in Modules, i \in Nat \ {0}, at \in {"inst", "link"} :
          [at |-> at, m |-> m, i |-> i] \in Frames
    /\ \A m \in Modules, i \in Nat \ {0} : Step(m, i) \in Frames
    /\ \A m \in Modules, at \in {"body", "ran"} : [at |-> at, m |-> m] \in Frames
BY DEF Frames, Drain, Step

(* An import is idle or has a root.                                        *)
LEMMA RootIsModule ==
    ASSUME EvalInv, At("root")
    PROVE  op[Top.o].root \in Modules /\ op[Top.o].st = "loaded" /\ Top.o \in Imports
<1>1. Top.o \in Imports /\ Top \in Range(stack)
    BY TopFrame DEF EvalInv, At
<1>2. OnStack(stack, Top.o)
    BY <1>1 DEF OnStack, Runs, At
<1>3. Live(Top.o)
    BY <1>1, <1>2 DEF EvalInv, PlaceInv, InPlace, Chains
<1>4. QED
    BY <1>1, <1>3 DEF Live, EvalInv, TypeInv

(* A dependency that was called is a module.                               *)
LEMMA DepIsModule ==
    ASSUME EvalInv, AtDep, Top.called \/ deps[Top.m][Top.i] # NoModule
    PROVE  deps[Top.m][Top.i] \in Modules /\ Top.m \in Modules
<1>1. Top.m \in Modules /\ Top \in Range(stack)
    BY TopFrame DEF EvalInv, AtDep, At
<1>2. FrameOK(Top)
    BY <1>1 DEF EvalInv, ChainInv
<1>3. deps[Top.m][Top.i] # NoModule
    BY <1>2 DEF FrameOK, AtDep, At
<1>4. deps[Top.m] \in Seq(Modules \cup {NoModule})
    BY <1>1 DEF EvalInv, TypeInv, TypeOK
<1>5. Top.i \in 1..Len(deps[Top.m])
    BY <1>4, LenProperties DEF AtDep
<1>6. QED
    BY <1>1, <1>3, <1>4, <1>5, ElementOfSeq

-----------------------------------------------------------------------------
(* Moves: what a step does to the places of the chains.                    *)
StackMoves(from, to) ==
    /\ stack' \in Seq(Frames)
    /\ Nested(stack') /\ BodyOnTop(stack')
    /\ \A c \in Chains :
          /\ OnceOn(stack', c)
          /\ OnStack(stack', c) <=> (OnStack(stack, c) /\ c \notin from) \/ c \in to

ParkMoves(from, to) == \A c \in Chains :
    /\ OnceParked(queue', epWait', c)
    /\ Parked(queue', epWait', c) <=> (Parked(queue, epWait, c) /\ c \notin from) \/ c \in to

FiberMoves(from, to) == \A c \in Chains :
    Fiber(c)' <=> (Fiber(c) /\ c \notin from) \/ c \in to

(* The chains that this frame runs: one or none.                           *)
ChainsOf(f) == {c \in Chains : Runs(f, c)}

(* When nothing is ever put in two places, and what is settled was in none *)
(* any more, every chain stays in one place.                               *)
LEMMA PlaceMoves ==
    ASSUME PlaceInv,
           NEW so, NEW si, NEW po, NEW pi, NEW fo, NEW fi,
           StackMoves(so, si), ParkMoves(po, pi), FiberMoves(fo, fi),
           \A c \in Chains :
              /\ c \in si => c \notin pi \cup fi /\ (Parked(queue, epWait, c) => c \in po)
                             /\ (Fiber(c) => c \in fo) /\ Live(c)'
              /\ c \in pi => c \notin si \cup fi /\ (OnStack(stack, c) => c \in so)
                             /\ (Fiber(c) => c \in fo) /\ Live(c)'
              /\ c \in fi => c \notin si \cup pi /\ (OnStack(stack, c) => c \in so)
                             /\ (Parked(queue, epWait, c) => c \in po) /\ Live(c)'
              /\ Live(c) => \/ Live(c)'
                            \/ /\ OnStack(stack, c) => c \in so
                               /\ Parked(queue, epWait, c) => c \in po
                               /\ Fiber(c) => c \in fo
    PROVE  PlaceInv'
<1>. SUFFICES ASSUME NEW c \in Chains PROVE OnePlace(c)' /\ (InPlace(c) => Live(c))'
    BY DEF PlaceInv, Chains
<1>1. OnePlace(c) /\ (InPlace(c) => Live(c))
    BY DEF PlaceInv
<1>2. OnePlace(c)'
    BY <1>1 DEF OnePlace, StackMoves, ParkMoves, FiberMoves
<1>3. (InPlace(c) => Live(c))'
    BY <1>1 DEF InPlace, StackMoves, ParkMoves, FiberMoves
<1>4. QED
    BY <1>2, <1>3

(* When whatever is under way after a step was put in a place, or was      *)
(* under way before and not taken from one, nothing is dropped but what is *)
(* lost.                                                                   *)
LEMMA DropMoves ==
    ASSUME NoneDropped, lost \subseteq lost',
           NEW so, NEW si, NEW po, NEW pi, NEW fo, NEW fi,
           StackMoves(so, si), ParkMoves(po, pi), FiberMoves(fo, fi),
           \A c \in Chains : Live(c)' =>
              \/ c \in si \cup pi \cup fi \cup lost'
              \/ Live(c) /\ c \notin so \cup po \cup fo
    PROVE  NoneDropped'
<1>. SUFFICES ASSUME NEW c \in Chains, Live(c)' PROVE InPlace(c)' \/ c \in lost'
    BY DEF NoneDropped, Chains
<1>1. CASE c \in si \cup pi \cup fi \cup lost'
    BY <1>1 DEF InPlace, StackMoves, ParkMoves, FiberMoves
<1>2. CASE Live(c) /\ c \notin so \cup po \cup fo
    BY <1>2 DEF NoneDropped, InPlace, StackMoves, ParkMoves, FiberMoves
<1>3. QED
    BY <1>1, <1>2

(* A chain that the top frame runs is nowhere else, and has not settled;   *)
(* above a frame that does not link nothing links.                         *)
LEMMA TopAlone ==
    ASSUME EvalInv, stack # <<>>
    PROVE  /\ \A c \in Chains :
                 /\ OnceOn(Tail(stack), c)
                 /\ OnStack(stack, c) <=> Runs(Top, c) \/ OnStack(Tail(stack), c)
                 /\ Runs(Top, c) => /\ ~OnStack(Tail(stack), c) /\ Live(c)
                                    /\ ~Parked(queue, epWait, c) /\ ~Fiber(c)
           /\ Nested(Tail(stack))
           /\ ~Links(Top) => \A f \in Range(stack) : ~Links(f)
<1>1. stack \in Seq(Frames) /\ Top = Head(stack)
    BY DEF EvalInv, TypeInv, Top
<1>2. \A c \in Chains : OnePlace(c) /\ (InPlace(c) => Live(c))
    BY DEF EvalInv, PlaceInv
<1>3. Nested(stack) /\ Range(stack) = {Top} \cup Range(Tail(stack))
    BY TopFrame DEF EvalInv, LinkInv
<1>4. Nested(Tail(stack)) /\ ((\E f \in Range(Tail(stack)) : Links(f)) => Links(Top))
    BY <1>1, <1>3, StackTop
<1>5. ASSUME NEW c \in Chains
      PROVE  /\ OnceOn(Tail(stack), c)
             /\ OnStack(stack, c) <=> Runs(Top, c) \/ OnStack(Tail(stack), c)
             /\ Runs(Top, c) => ~OnStack(Tail(stack), c)
    BY <1>1, <1>2, StackTop DEF OnePlace
<1>6. ASSUME NEW c \in Chains, Runs(Top, c)
      PROVE  Live(c) /\ ~Parked(queue, epWait, c) /\ ~Fiber(c)
    BY <1>2, <1>5, <1>6 DEF OnePlace, InPlace
<1>7. QED
    BY <1>3, <1>4, <1>5, <1>6

(* The same of the job at the head of the queue.                           *)
LEMMA HeadAlone ==
    ASSUME EvalInv, queue # <<>>
    PROVE  /\ Head(queue).x \in Chains
           /\ \A c \in Chains :
                 /\ OnceParked(Tail(queue), epWait, c)
                 /\ Parked(queue, epWait, c) <=>
                       Head(queue).x = c \/ Parked(Tail(queue), epWait, c)
                 /\ Head(queue).x = c =>
                       /\ ~Parked(Tail(queue), epWait, c) /\ ~OnStack(stack, c)
                       /\ ~Fiber(c) /\ Live(c)
           /\ \A j \in Range(Tail(queue)) : j.x # Head(queue).x
<1>1. queue \in Seq(Jobs) /\ TypeInv
    BY DEF EvalInv, TypeInv, TypeOK, Jobs
<1>2. \A c \in Chains : OnePlace(c) /\ (InPlace(c) => Live(c))
    BY DEF EvalInv, PlaceInv
<1>3. Head(queue).x \in Chains
    BY <1>1, HeadJob DEF Jobs, ModJobs, RootJobs, Chains
<1>4. ASSUME NEW c \in Chains
      PROVE  /\ OnceParked(Tail(queue), epWait, c)
             /\ Parked(queue, epWait, c) <=>
                   Head(queue).x = c \/ Parked(Tail(queue), epWait, c)
             /\ Head(queue).x = c => ~Parked(Tail(queue), epWait, c)
    BY <1>1, <1>2, ParkedTake DEF OnePlace
<1>5. ASSUME NEW c \in Chains, Head(queue).x = c
      PROVE  ~OnStack(stack, c) /\ ~Fiber(c) /\ Live(c)
    BY <1>2, <1>4, <1>5 DEF OnePlace, InPlace
<1>6. \A j \in Range(Tail(queue)) : j.x # Head(queue).x
    BY <1>3, <1>4 DEF Parked, Holds
<1>7. QED
    BY <1>3, <1>4, <1>5, <1>6

-----------------------------------------------------------------------------
(* The ways in which the stack changes.                                    *)

(* An unchanged stack moves no chain.                                      *)
LEMMA Same ==
    ASSUME EvalInv, UNCHANGED stack
    PROVE  StackMoves({}, {})
BY DEF EvalInv, TypeInv, LinkInv, PlaceInv, OnePlace, StackMoves

(* No body runs its own code below the top of the stack.                   *)
LEMMA TopBody ==
    ASSUME EvalInv, stack # <<>>
    PROVE  /\ \A f \in Range(Tail(stack)) : f.at # "body"
           /\ BodyOnTop(Tail(stack))
<1>1. \A f \in Range(Tail(stack)) : f.at # "body"
    BY DEF EvalInv, LinkInv, BodyOnTop
<1>2. CASE Tail(stack) = <<>>
    BY <1>1, <1>2 DEF BodyOnTop
<1>3. CASE Tail(stack) # <<>>
  <2>1. Tail(stack) \in Seq(Frames)
      BY TopFrame DEF EvalInv
  <2>2. Range(Tail(stack)) = {Head(Tail(stack))} \cup Range(Tail(Tail(stack)))
      BY <1>3, <2>1, HeadAndTail
  <2>3. QED
      BY <1>1, <2>2 DEF BodyOnTop
<1>4. QED
    BY <1>1, <1>2, <1>3

(* The frame on top goes, and the chain that it ran with it.               *)
LEMMA Pop ==
    ASSUME EvalInv, stack # <<>>, stack' = Tail(stack)
    PROVE  /\ StackMoves(ChainsOf(Top), {})
           /\ Range(stack) = {Top} \cup Range(stack')
<1>1. Tail(stack) \in Seq(Frames) /\ Range(stack) = {Top} \cup Range(Tail(stack))
    BY TopFrame DEF EvalInv
<1>2. QED
    BY <1>1, TopAlone, TopBody DEF StackMoves, ChainsOf

(* The frame on top becomes g, which runs the same chain.                  *)
LEMMA Swap ==
    ASSUME EvalInv, stack # <<>>, NEW g \in Frames, stack' = <<g>> \o Tail(stack),
           \A c \in Chains : Runs(g, c) <=> Runs(Top, c), Links(Top) => Links(g)
    PROVE  /\ StackMoves({}, {})
           /\ Range(stack') = {g} \cup Range(Tail(stack))
           /\ Range(stack) = {Top} \cup Range(Tail(stack))
<1>1. Tail(stack) \in Seq(Frames) /\ Range(stack) = {Top} \cup Range(Tail(stack))
    BY TopFrame DEF EvalInv
<1>2. (\E f \in Range(Tail(stack)) : Links(f)) => Links(g)
    BY <1>1, TopAlone
<1>3. /\ stack' \in Seq(Frames) /\ Range(stack') = {g} \cup Range(Tail(stack))
      /\ \A c : OnStack(stack', c) <=> Runs(g, c) \/ OnStack(Tail(stack), c)
      /\ \A c : OnceOn(stack', c) <=>
            OnceOn(Tail(stack), c) /\ (Runs(g, c) => ~OnStack(Tail(stack), c))
      /\ Nested(stack')
    BY <1>1, <1>2, StackPush, TopAlone
<1>4. BodyOnTop(stack')
  <2>1. Tail(stack') = Tail(stack)
      BY <1>1, Pushed
  <2>2. QED
      BY <2>1, TopBody DEF BodyOnTop
<1>5. QED
    BY <1>1, <1>3, <1>4, TopAlone DEF StackMoves

(* A frame begins above the one on top.                                    *)
LEMMA PushOn ==
    ASSUME EvalInv, stack # <<>>, NEW g \in Frames, stack' = <<g>> \o stack,
           \A c \in Chains : Runs(g, c) => ~OnStack(stack, c), Links(Top) => Links(g),
           Top.at # "body"
    PROVE  /\ StackMoves({}, ChainsOf(g))
           /\ Range(stack') = {g} \cup Range(stack)
<1>1. stack \in Seq(Frames) /\ Nested(stack)
    BY DEF EvalInv, TypeInv, LinkInv
<1>2. (\E f \in Range(stack) : Links(f)) => Links(g)
    BY TopAlone
<1>3. /\ stack' \in Seq(Frames) /\ Range(stack') = {g} \cup Range(stack)
      /\ \A c : OnStack(stack', c) <=> Runs(g, c) \/ OnStack(stack, c)
      /\ \A c : OnceOn(stack', c) <=> OnceOn(stack, c) /\ (Runs(g, c) => ~OnStack(stack, c))
      /\ Nested(stack')
    BY <1>1, <1>2, StackPush
<1>4. \A c \in Chains : OnceOn(stack, c)
    BY DEF EvalInv, PlaceInv, OnePlace
<1>5. BodyOnTop(stack')
  <2>1. Tail(stack') = stack /\ Range(stack) = {Top} \cup Range(Tail(stack))
      BY <1>1, Pushed, TopFrame DEF EvalInv
  <2>2. QED
      BY <2>1, TopBody DEF BodyOnTop
<1>6. QED
    BY <1>3, <1>4, <1>5 DEF StackMoves, ChainsOf

(* The frame on top goes on as g and f begins above it.                    *)
LEMMA SwapPush ==
    ASSUME EvalInv, stack # <<>>, NEW f \in Frames, NEW g \in Frames,
           stack' = <<f, g>> \o Tail(stack), ~Links(Top), ~Links(g),
           \A c \in Chains : Runs(g, c) <=> Runs(Top, c), g.at # "body",
           \A c \in Chains : Runs(f, c) => ~OnStack(stack, c)
    PROVE  /\ StackMoves({}, ChainsOf(f))
           /\ Range(stack') = {f, g} \cup Range(Tail(stack))
           /\ Range(stack) = {Top} \cup Range(Tail(stack))
<1>1. Tail(stack) \in Seq(Frames) /\ Range(stack) = {Top} \cup Range(Tail(stack))
    BY TopFrame DEF EvalInv
<1>. DEFINE s == <<g>> \o Tail(stack)
<1>2. stack' = <<f>> \o s
    BY <1>1, PushedTwo
<1>3. \A h \in Range(stack) : ~Links(h)
    BY TopAlone
<1>4. /\ s \in Seq(Frames) /\ Range(s) = {g} \cup Range(Tail(stack))
      /\ \A c : OnStack(s, c) <=> Runs(g, c) \/ OnStack(Tail(stack), c)
      /\ \A c : OnceOn(s, c) <=>
            OnceOn(Tail(stack), c) /\ (Runs(g, c) => ~OnStack(Tail(stack), c))
      /\ Nested(s)
    BY <1>1, <1>3, StackPush, TopAlone
<1>. HIDE DEF s
<1>5. \A h \in Range(s) : ~Links(h)
    BY <1>1, <1>3, <1>4
<1>6. /\ stack' \in Seq(Frames) /\ Range(stack') = {f} \cup Range(s)
      /\ \A c : OnStack(stack', c) <=> Runs(f, c) \/ OnStack(s, c)
      /\ \A c : OnceOn(stack', c) <=> OnceOn(s, c) /\ (Runs(f, c) => ~OnStack(s, c))
      /\ Nested(stack')
  <2>1. s \in Seq(Frames) /\ ~(\E h \in Range(s) : Links(h)) /\ Nested(s)
      BY <1>4, <1>5
  <2>. DEFINE t == <<f>> \o s
  <2>2. /\ t \in Seq(Frames) /\ Range(t) = {f} \cup Range(s)
        /\ \A c : OnStack(t, c) <=> Runs(f, c) \/ OnStack(s, c)
        /\ \A c : OnceOn(t, c) <=> OnceOn(s, c) /\ (Runs(f, c) => ~OnStack(s, c))
        /\ Nested(t)
      BY <2>1, StackPush
  <2>. HIDE DEF t
  <2>3. stack' = t
      BY <1>2 DEF t
  <2>4. QED
      BY <2>2, <2>3
<1>7. ASSUME NEW c \in Chains
      PROVE  /\ OnceOn(stack', c)
             /\ OnStack(stack', c) <=> OnStack(stack, c) \/ Runs(f, c)
    BY <1>4, <1>6, TopAlone
<1>8. BodyOnTop(stack')
  <2>1. Tail(stack') = s
      BY <1>2, <1>4, Pushed
  <2>2. QED
      BY <1>4, <2>1, TopBody DEF BodyOnTop
<1>9. StackMoves({}, ChainsOf(f))
    BY <1>6, <1>7, <1>8 DEF StackMoves, ChainsOf
<1>10. Range(stack') = {f, g} \cup Range(Tail(stack))
    BY <1>4, <1>6
<1>11. QED
    BY <1>1, <1>9, <1>10

(* The host enters the queue.                                              *)
LEMMA FirstDrain ==
    ASSUME EvalInv, stack = <<>>, stack' = <<Drain>>
    PROVE  StackMoves({}, {}) /\ Range(stack) = {} /\ Range(stack') = {Drain}
<1>1. Range(stack) = {} /\ Range(stack') = {Drain}
    BY DEF Range
<1>2. /\ stack' \in Seq(Frames) /\ DOMAIN stack' = {1} /\ stack'[1] = Drain
      /\ ~Links(Drain) /\ \A c : ~Runs(Drain, c)
    BY FrameTypes DEF Drain, Links, Runs
<1>3. Nested(stack') /\ \A c : OnceOn(stack', c)
    BY <1>2 DEF Nested, OnceOn
<1>4. \A c : ~OnStack(stack, c) /\ ~OnStack(stack', c)
    BY <1>1, <1>2 DEF OnStack
<1>5. BodyOnTop(stack')
    BY <1>1, <1>2 DEF BodyOnTop, Drain, Range
<1>6. QED
    BY <1>1, <1>2, <1>3, <1>4, <1>5 DEF StackMoves

-----------------------------------------------------------------------------
(* What stays true of the chains that a step does not touch.               *)

(* An outcome is final; an import keeps its root.                          *)
OutcomesStay == \A m \in Modules : status[m] \in {"evaluated", "errored"} =>
    status'[m] = status[m] /\ reason'[m] = reason[m]

RootsStay == \A o \in Imports : op[o].st # "idle" => op'[o].root = op[o].root

(* While a body runs its own code nothing else goes on.                    *)
BodyStays == stack # <<>> /\ Top.at = "body" => UNCHANGED <<stack, status, bp>>

(* A job in the queue is that of a live chain which has no frame.          *)
LEMMA JobTypes ==
    ASSUME EvalInv, NEW j \in Range(queue)
    PROVE  /\ j \in Jobs /\ j.x \in Chains
           /\ j.do \in {"depDone", "evalFail", "bodyDone"} => j.x \in Modules
           /\ j.do \in {"fetched", "rootDone", "rootFail"} => j.x \in Imports
           /\ Live(j.x) /\ ~OnStack(stack, j.x)
<1>1. queue \in Seq(Jobs)
    BY DEF EvalInv, TypeInv, TypeOK, Jobs
<1>2. j \in Jobs
    BY <1>1, RangeOfSeq
<1>3. /\ j.x \in Chains
      /\ j.do \in {"depDone", "evalFail", "bodyDone"} => j.x \in Modules
      /\ j.do \in {"fetched", "rootDone", "rootFail"} => j.x \in Imports
    BY <1>2 DEF Jobs, ModJobs, RootJobs, Chains
<1>4. Parked(queue, epWait, j.x)
    BY DEF Parked, Holds
<1>5. OnePlace(j.x) /\ Live(j.x)
    BY <1>3, <1>4 DEF EvalInv, PlaceInv, InPlace
<1>6. QED
    BY <1>2, <1>3, <1>4, <1>5 DEF OnePlace

(* So is a reaction registered on an evaluation promise.                   *)
LEMMA WaiterTypes ==
    ASSUME EvalInv, NEW d \in Modules, NEW w \in Range(epWait[d])
    PROVE  /\ w \in Waiters /\ w.x \in Chains
           /\ w.do = "dep" => w.x \in Modules
           /\ w.do = "root" => w.x \in Imports
           /\ Live(w.x) /\ ~OnStack(stack, w.x)
<1>1. epWait[d] \in Seq(Waiters)
    BY DEF EvalInv, TypeInv, TypeOK
<1>2. w \in Waiters
    BY <1>1, RangeOfSeq
<1>3. /\ w.x \in Chains
      /\ w.do = "dep" => w.x \in Modules
      /\ w.do = "root" => w.x \in Imports
    BY <1>2 DEF Waiters, Chains
<1>4. Parked(queue, epWait, w.x)
    BY DEF Parked, Waits, Holds
<1>5. OnePlace(w.x) /\ Live(w.x)
    BY <1>3, <1>4 DEF EvalInv, PlaceInv, InPlace
<1>6. QED
    BY <1>2, <1>3, <1>4, <1>5 DEF OnePlace

(* A frame on the stack names a module or an import whose chain is live.   *)
LEMMA FrameTypesOf ==
    ASSUME EvalInv, NEW f \in Range(stack)
    PROVE  /\ f \in Frames
           /\ f.at \in {"inst", "link", "step", "body", "ran"} => f.m \in Modules
           /\ f.at = "root" => f.o \in Imports
           /\ f.at \in {"step", "ran"} => Live(f.m)
           /\ f.at = "root" => Live(f.o)
<1>1. f \in Frames
    BY RangeOfSeq DEF EvalInv, TypeInv
<1>2. /\ f.at \in {"inst", "link", "step", "body", "ran"} => f.m \in Modules
      /\ f.at = "root" => f.o \in Imports
    BY <1>1 DEF Frames, Drain
<1>3. ASSUME NEW c \in Chains, Runs(f, c) PROVE Live(c)
  <2>1. OnStack(stack, c)
      BY <1>3 DEF OnStack
  <2>2. QED
      BY <2>1 DEF EvalInv, PlaceInv, InPlace
<1>4. QED
    BY <1>1, <1>2, <1>3 DEF Runs, Chains

(* What a job in the queue says stays true while outcomes are final and no *)
(* body starts under a chain without a frame.                              *)
LEMMA JobsStayOK ==
    ASSUME EvalInv, OutcomesStay, RootsStay,
           \A m \in Modules : ~OnStack(stack, m) => runs'[m] = runs[m],
           \A m \in Modules : bp[m] = "fulfilled" => bp'[m] = "fulfilled",
           NEW j \in Range(queue)
    PROVE  JobOK(j)'
<1>1. JobOK(j)
    BY DEF EvalInv, ChainInv
<1>2. j.do = "depDone" => runs'[j.x] = 0
    BY <1>1, JobTypes DEF JobOK
<1>3. j.do = "bodyDone" => bp'[j.x] = "fulfilled"
    BY <1>1, JobTypes DEF JobOK
<1>4. j.do = "rootDone" => status'[op'[j.x].root] = "evaluated"
  <2>1. SUFFICES ASSUME j.do = "rootDone" PROVE status'[op'[j.x].root] = "evaluated"
      OBVIOUS
  <2>2. j.x \in Imports /\ op[j.x].st = "loaded"
      BY <2>1, JobTypes DEF Live
  <2>3. op'[j.x].root = op[j.x].root /\ op[j.x].root \in Modules
      BY <2>2 DEF RootsStay, EvalInv, TypeInv
  <2>4. QED
      BY <1>1, <2>1, <2>3 DEF JobOK, OutcomesStay
<1>5. QED
    BY <1>2, <1>3, <1>4 DEF JobOK

(* What a reaction says stays true under the same conditions.              *)
LEMMA WaitersStayOK ==
    ASSUME EvalInv, RootsStay, \A m \in Modules : ~OnStack(stack, m) => runs'[m] = runs[m],
           NEW d \in Modules, NEW w \in Range(epWait[d])
    PROVE  WaiterOK(d, w)'
<1>1. WaiterOK(d, w)
    BY DEF EvalInv, ChainInv
<1>2. w.do = "dep" => runs'[w.x] = 0
    BY <1>1, WaiterTypes DEF WaiterOK
<1>3. w.do = "root" => op'[w.x].root = d
    BY <1>1, WaiterTypes DEF WaiterOK, Live, RootsStay
<1>4. QED
    BY <1>2, <1>3 DEF WaiterOK

(* What a frame says stays true while no body starts or stops and only     *)
(* modules not yet evaluated change their dependencies.                    *)
LEMMA FramesStayOK ==
    ASSUME EvalInv, UNCHANGED <<runs, bpWait>>,
           \A m \in Modules : deps'[m] = deps[m] \/ Startable(m),
           BodyStays,
           NEW f \in Range(stack)
    PROVE  FrameOK(f)'
<1>1. FrameOK(f)
    BY DEF EvalInv, ChainInv
<1>2. f.at = "step" => deps'[f.m] = deps[f.m]
    BY FrameTypesOf DEF Live, Startable
<1>3. f.at = "body" => UNCHANGED <<stack, status, bp>>
  <2>1. stack # <<>>
      BY DEF Range
  <2>2. f = Top \/ f \in Range(Tail(stack))
      BY <2>1, TopFrame DEF EvalInv
  <2>3. QED
      BY <2>1, <2>2, TopBody DEF BodyStays
<1>4. QED
    BY <1>1, <1>2, <1>3 DEF FrameOK

(* An evaluation that a chain began stays accounted for.                   *)
LEMMA AccountStays ==
    ASSUME EvalInv, NEW m \in Modules, NEW d \in Modules, Accounted(m, d),
           OutcomesStay, runs'[m] = runs[m],
           \A f \in Range(stack) : f.at = "step" /\ f.m = m /\ f.called =>
               f \in Range(stack') /\ deps'[m] = deps[m],
           Holds(epWait[d], m) => Holds(epWait'[d], m),
           \A j \in Range(queue) : j.x = m => j \in Range(queue')
    PROVE  Accounted(m, d)'
<1>1. CASE status[d] = "evaluated"
    BY <1>1 DEF Accounted, OutcomesStay
<1>2. CASE CalledFor(m, d)
  <2>1. PICK f \in Range(stack) : f.at = "step" /\ f.m = m /\ f.called /\ deps[m][f.i] = d
      BY <1>2 DEF CalledFor
  <2>2. f \in Range(stack') /\ deps'[m] = deps[m]
      BY <2>1
  <2>3. QED
      BY <2>1, <2>2 DEF Accounted, WaitsFor, CalledFor
<1>3. CASE Holds(epWait[d], m)
    BY <1>3 DEF Accounted, WaitsFor
<1>4. CASE Failed(m, d)
    BY <1>4 DEF Accounted, Failed, OutcomesStay
<1>5. CASE Fails(m, d)
    BY <1>5 DEF Accounted, Fails, OutcomesStay
<1>6. QED
    BY <1>1, <1>2, <1>3, <1>4, <1>5 DEF Accounted, WaitsFor

(* A step that starts, ends and fails no evaluation.                       *)
LEMMA ChainsStay ==
    ASSUME EvalInv, UNCHANGED <<reason, runs, starter, bp, bpWait, ep>>, RootsStay, BodyStays,
           \A m \in Modules : status'[m] = status[m] \/ (Startable(m) /\ Startable(m)'),
           \A m \in Modules : deps'[m] = deps[m] \/ Startable(m),
           \A f \in Range(stack') : f \in Range(stack) \/ FrameOK(f)',
           \A j \in Range(queue') : j \in Range(queue) \/ JobOK(j)',
           \A d \in Modules : \A w \in Range(epWait'[d]) :
               w \in Range(epWait[d]) \/ WaiterOK(d, w)'
    PROVE  ChainInv' /\ OutcomesStay
<1>1. OutcomesStay
    BY DEF OutcomesStay, Startable
<1>2. /\ \A f \in Range(stack') : FrameOK(f)'
      /\ \A j \in Range(queue') : JobOK(j)'
      /\ \A d \in Modules : \A w \in Range(epWait'[d]) : WaiterOK(d, w)'
    BY <1>1, FramesStayOK, JobsStayOK, WaitersStayOK
<1>3. ASSUME NEW m \in Modules PROVE ModuleOK(m)'
  <2>1. ModuleOK(m)
      BY DEF EvalInv, ChainInv
  <2>2. QED
      BY <2>1 DEF ModuleOK, Startable
<1>4. QED
    BY <1>1, <1>2, <1>3 DEF ChainInv

(* A step that starts, ends and fails no evaluation keeps every account:   *)
(* frames that called for a dependency, reactions and failing jobs stay.   *)
LEMMA Routine ==
    ASSUME EvalInv, UNCHANGED <<reason, runs, starter, bp, bpWait, ep>>, RootsStay, BodyStays,
           \A m \in Modules : status'[m] = status[m] \/ (Startable(m) /\ Startable(m)'),
           \A m \in Modules : deps'[m] = deps[m] \/ Startable(m),
           \A f \in Range(stack') : f \in Range(stack) \/ FrameOK(f)',
           \A f \in Range(stack) : f.at = "step" /\ f.called => f \in Range(stack'),
           \A j \in Range(queue') : j \in Range(queue) \/ JobOK(j)',
           \A j \in Range(queue) : j.do = "evalFail" => j \in Range(queue'),
           \A d \in Modules : \A w \in Range(epWait'[d]) :
               w \in Range(epWait[d]) \/ WaiterOK(d, w)',
           \A d \in Modules : Range(epWait[d]) \subseteq Range(epWait'[d])
    PROVE  ChainInv' /\ ByModules'
<1>1. ChainInv' /\ OutcomesStay
    BY ChainsStay
<1>2. ASSUME NEW m \in Modules, NEW d \in Modules, starter'[d] = m PROVE Accounted(m, d)'
  <2>1. Accounted(m, d)
      BY <1>2 DEF EvalInv, ByModules
  <2>2. \A f \in Range(stack) : f.at = "step" /\ f.m = m => deps'[m] = deps[m]
      BY FrameTypesOf DEF Live, Startable
  <2>3. CASE Fails(m, d)
    <3>1. Fails(m, d)'
        BY <2>3, <1>1 DEF Fails, OutcomesStay
    <3>2. QED
        BY <3>1 DEF Accounted
  <2>4. CASE CalledFor(m, d)
    <3>1. CalledFor(m, d)'
        BY <2>4, <2>2 DEF CalledFor
    <3>2. QED
        BY <3>1 DEF Accounted, WaitsFor
  <2>5. CASE Holds(epWait[d], m)
      BY <2>5 DEF Accounted, WaitsFor, Holds
  <2>6. CASE status[d] = "evaluated" \/ Failed(m, d)
      BY <2>6, <1>1 DEF Accounted, Failed, OutcomesStay
  <2>7. QED
      BY <2>1, <2>3, <2>4, <2>5, <2>6 DEF Accounted, WaitsFor
<1>3. QED
    BY <1>1, <1>2 DEF ByModules

(* Imports are told the truth as long as an import is fulfilled only when  *)
(* its root is evaluated or it did not wait, and the imports that began an *)
(* evaluation do not begin again.                                          *)
LEMMA ImportsStay ==
    ASSUME EvalInv, OutcomesStay,
           \A d \in Modules : \A o \in Imports : starter'[d] = o => starter[d] = o,
           \A o \in Imports :
              \/ op'[o] = op[o]
              \/ /\ op[o].st = "loaded" /\ op'[o].root = op[o].root
                 /\ \/ op'[o].st = "rejected"
                    \/ /\ op'[o].st = "fulfilled"
                       /\ status[op[o].root] = "evaluated" \/ o \in joined'
              \/ op[o].st \in {"idle", "loading"} /\ op'[o].st # "fulfilled",
           joined \subseteq joined', joined' \subseteq Imports,
           \A o \in joined' \ joined :
              op'[o].st = "fulfilled" /\ \A d \in Modules : starter[d] # o,
           \A j \in Range(queue') : j.do = "fetched" =>
              j \in Range(queue) \/ (j.x \in Imports /\ op[j.x].st \in {"idle", "loading"}),
           \A f \in Range(stack') : f.at = "root" =>
              \/ f \in Range(stack) \/ f.phase = "done"
              \/ f.o \in Imports /\ \A d \in Modules : starter[d] # f.o
    PROVE  ByImports' /\ ImportTruthful'
<1>1. ByImports /\ ImportTruthful /\ joined \subseteq Imports
    BY DEF EvalInv, TypeInv
<1>2. ASSUME NEW o \in joined' PROVE op'[o].st = "fulfilled"
    BY <1>1, <1>2 DEF ByImports
<1>3. ASSUME NEW d \in Modules, NEW o \in Imports, starter'[d] = o
      PROVE  /\ op'[o].st \notin {"idle", "loading"} /\ o \notin joined' /\ d = op'[o].root
             /\ \A j \in Range(queue') : j.x = o => j.do # "fetched"
             /\ \A f \in Range(stack') : f.at = "root" /\ f.o = o => f.phase = "done"
  <2>1. /\ starter[d] = o /\ op[o].st \notin {"idle", "loading"} /\ o \notin joined
        /\ d = op[o].root
        /\ \A j \in Range(queue) : j.x = o => j.do # "fetched"
        /\ \A f \in Range(stack) : f.at = "root" /\ f.o = o => f.phase = "done"
      BY <1>1, <1>3 DEF ByImports
  <2>2. op'[o].st \notin {"idle", "loading"} /\ d = op'[o].root
      BY <2>1
  <2>3. o \notin joined'
      BY <2>1
  <2>4. QED
      BY <2>1, <2>2, <2>3
<1>4. ASSUME NEW o \in Imports \ joined', op'[o].st = "fulfilled"
      PROVE  status'[op'[o].root] = "evaluated"
  <2>1. o \in Imports \ joined
      OBVIOUS
  <2>2. op'[o].root = op[o].root /\ op[o].st # "idle" /\ status[op[o].root] = "evaluated"
    <3>1. CASE op'[o] = op[o]
        BY <1>1, <1>4, <2>1, <3>1 DEF ImportTruthful
    <3>2. CASE op'[o] # op[o]
        BY <1>4, <3>2
    <3>3. QED
        BY <3>1, <3>2
  <2>3. op[o].root \in Modules
      BY <2>2 DEF EvalInv, TypeInv
  <2>4. QED
      BY <2>2, <2>3 DEF OutcomesStay
<1>5. QED
    BY <1>2, <1>3, <1>4 DEF ByImports, ImportTruthful

-----------------------------------------------------------------------------
(* The chain of m is settled; q is what the queue held before its          *)
(* reactions joined it, if they did.                                       *)
Joins(q, m, st, why) ==
    /\ queue' = q \o Reactions(m, st, why)
    /\ epWait' = [epWait EXCEPT ![m] = <<>>]
    /\ ep' = [ep EXCEPT ![m] = st] /\ lost' = lost

Strands(q, m) == queue' = q /\ UNCHANGED <<ep, epWait>> /\ lost' = lost \cup {m}

Settles(q, m, st, why) ==
    /\ Joins(q, m, st, why) \/ Strands(q, m)
    /\ status'[m] = IF st = "fulfilled" THEN "evaluated" ELSE "errored"
    /\ reason' = IF st = "fulfilled" THEN reason ELSE [reason EXCEPT ![m] = why]
    /\ \A d \in Modules \ {m} :
          status'[d] = status[d] \/ (Startable(d) /\ status'[d] = "evaluating")
    /\ UNCHANGED <<specs, deps, bp, op, runs>>

(* The queue and the reactions after a settlement: who waited for m is     *)
(* parked in the queue instead, everyone else where they were; stranded,   *)
(* everyone is where they were.                                            *)
LEMMA SettleLists ==
    ASSUME EvalInv, NEW q \in Seq(Jobs), NEW m \in Modules, NEW st \in Ends,
           NEW why \in Reasons \cup {"none"}, Settles(q, m, st, why)
    PROVE  /\ queue' \in Seq(Jobs) /\ epWait' \in [Modules -> Seq(Waiters)]
           /\ Range(q) \subseteq Range(queue')
           /\ Range(queue') \subseteq Range(q) \cup {Told(w, st, why) : w \in Range(epWait[m])}
           /\ \A w \in Range(epWait[m]) :
                 Told(w, st, why) \in Range(queue') \/ w \in Range(epWait'[m])
           /\ \A d \in Modules \ {m} : epWait'[d] = epWait[d]
           /\ Range(epWait'[m]) \subseteq Range(epWait[m])
           /\ \A c : Parked(queue', epWait', c) <=> Parked(q, epWait, c)
           /\ \A c : OnceParked(q, epWait, c) => OnceParked(queue', epWait', c)
<1>0. CASE Strands(q, m)
  <2>1. queue' = q /\ epWait' = epWait
      BY <1>0 DEF Strands
  <2>2. QED
      BY <2>1 DEF EvalInv, TypeInv, TypeOK
<1>. SUFFICES ASSUME Joins(q, m, st, why)
     PROVE  /\ queue' \in Seq(Jobs) /\ epWait' \in [Modules -> Seq(Waiters)]
            /\ Range(queue') = Range(q) \cup {Told(w, st, why) : w \in Range(epWait[m])}
            /\ \A d \in Modules \ {m} : epWait'[d] = epWait[d]
            /\ Range(epWait'[m]) = {}
            /\ \A c : Parked(queue', epWait', c) <=> Parked(q, epWait, c)
            /\ \A c : OnceParked(q, epWait, c) => OnceParked(queue', epWait', c)
    BY <1>0 DEF Settles
<1>. DEFINE r == Reactions(m, st, why)
<1>1. epWait \in [Modules -> Seq(Waiters)]
    BY DEF EvalInv, TypeInv, TypeOK
<1>2. /\ r \in Seq(Jobs)
      /\ \A c : Holds(r, c) <=> Holds(epWait[m], c)
      /\ \A c : OnceIn(r, c) <=> OnceIn(epWait[m], c)
      /\ \A j \in Range(r) : \E w \in Range(epWait[m]) : j = Told(w, st, why)
      /\ \A w \in Range(epWait[m]) : \E j \in Range(r) : j = Told(w, st, why)
    BY <1>1, ReactionsOf
<1>. HIDE DEF r
<1>3. queue' = q \o r /\ epWait' = [epWait EXCEPT ![m] = <<>>]
    BY DEF Joins, r
<1>4. queue' \in Seq(Jobs) /\ Range(queue') = Range(q) \cup Range(r)
    BY <1>2, <1>3, ConcatProperties, RangeConcatenation
<1>5. <<>> \in Seq(Waiters) /\ Range(<<>>) = {}
    BY DEF Range
<1>6. epWait' \in [Modules -> Seq(Waiters)]
    BY <1>1, <1>3, <1>5
<1>7. (\A d \in Modules \ {m} : epWait'[d] = epWait[d]) /\ Range(epWait'[m]) = {}
    BY <1>1, <1>3, <1>5
<1>8. ASSUME NEW c
      PROVE  /\ Parked(queue', epWait', c) <=> Parked(q, epWait, c)
             /\ OnceParked(q, epWait, c) => OnceParked(queue', epWait', c)
  <2>1. Holds(r, c) <=> Holds(epWait[m], c)
      BY <1>2
  <2>2. OnceIn(r, c) <=> OnceIn(epWait[m], c)
      BY <1>2
  <2>3. LET v == [epWait EXCEPT ![m] = <<>>]
        IN  /\ Parked(q \o r, v, c) <=> Parked(q, epWait, c)
            /\ OnceParked(q, epWait, c) => OnceParked(q \o r, v, c)
      BY <1>1, <1>2, <2>1, <2>2, ParkedSettle
  <2>4. QED
      BY <1>3, <2>3
<1>9. Range(r) = {Told(w, st, why) : w \in Range(epWait[m])}
    BY <1>2
<1>10. QED
    BY <1>4, <1>6, <1>7, <1>8, <1>9

(* Everyone but m: outcomes, jobs and accounts.                            *)
LEMMA SettleOthers ==
    ASSUME EvalInv, NEW q \in Seq(Jobs), NEW m \in Modules, NEW st \in Ends,
           NEW why \in Reasons \cup {"none"}, Settles(q, m, st, why), Live(m),
           Range(q) \subseteq Range(queue)
    PROVE  /\ OutcomesStay /\ RootsStay
           /\ \A j \in Range(queue') : JobOK(j)' /\ (j.do = "fetched" => j \in Range(queue))
           /\ \A d \in Modules : \A w \in Range(epWait'[d]) : WaiterOK(d, w)'
           /\ \A d \in Modules \ {m} : ep'[d] = ep[d] /\ reason'[d] = reason[d]
<1>1. /\ status \in [Modules -> Statuses] /\ reason \in [Modules -> Reasons \cup {"none"}]
      /\ ep \in [Modules -> {"none", "pending", "fulfilled", "rejected"}]
    BY DEF EvalInv, TypeInv, TypeOK
<1>2. status[m] = "evaluating"
    BY DEF Live
<1>3. \A d \in Modules \ {m} : ep'[d] = ep[d] /\ reason'[d] = reason[d]
    BY <1>1 DEF Settles, Joins, Strands
<1>4. OutcomesStay
    BY <1>2, <1>3 DEF OutcomesStay, Settles, Startable
<1>5. RootsStay
    BY DEF RootsStay, Settles
<1>6. \A j \in Range(queue) : JobOK(j)'
    BY <1>4, <1>5, JobsStayOK DEF Settles
<1>7. \A d \in Modules : \A w \in Range(epWait[d]) : WaiterOK(d, w)'
    BY <1>5, WaitersStayOK DEF Settles
<1>8. /\ Range(queue') \subseteq Range(q) \cup {Told(w, st, why) : w \in Range(epWait[m])}
      /\ \A d \in Modules \ {m} : epWait'[d] = epWait[d]
      /\ Range(epWait'[m]) \subseteq Range(epWait[m])
  <2>1. Range(queue') \subseteq Range(q) \cup {Told(w, st, why) : w \in Range(epWait[m])}
      BY SettleLists
  <2>2. \A d \in Modules \ {m} : epWait'[d] = epWait[d]
      BY SettleLists
  <2>3. Range(epWait'[m]) \subseteq Range(epWait[m])
      BY SettleLists
  <2>4. QED
      BY <2>1, <2>2, <2>3
<1>9. ASSUME NEW w \in Range(epWait[m])
      PROVE  JobOK(Told(w, st, why))' /\ Told(w, st, why).do # "fetched"
  <2>1. w \in Waiters /\ WaiterOK(m, w) /\ runs' = runs /\ op' = op
      BY WaiterTypes DEF EvalInv, ChainInv, Settles
  <2>2. st = "fulfilled" => status'[m] = "evaluated"
      BY DEF Settles
  <2>3. QED
      BY <2>1, <2>2 DEF JobOK, Told, Job, WaiterOK, Waiters, Ends
<1>10. QED
    BY <1>3, <1>4, <1>5, <1>6, <1>7, <1>8, <1>9

(* Whoever called for m or waits for it learns what became of it.          *)
LEMMA SettleAccounts ==
    ASSUME EvalInv, NEW q \in Seq(Jobs), NEW m \in Modules, NEW st \in Ends,
           NEW why \in Reasons \cup {"none"}, Settles(q, m, st, why), Live(m),
           Range(q) \subseteq Range(queue),
           \A j \in Range(queue) : j.x # m => j \in Range(q),
           \A f \in Range(stack) : f.at = "step" /\ f.m # m => f \in Range(stack'),
           NEW a \in Modules, a # m, NEW d \in Modules, Accounted(a, d)
    PROVE  Accounted(a, d)'
<1>1. OutcomesStay
    BY SettleOthers
<1>2. /\ \A w \in Range(epWait[m]) :
            Told(w, st, why) \in Range(queue') \/ w \in Range(epWait'[m])
      /\ \A e \in Modules \ {m} : epWait'[e] = epWait[e]
      /\ Range(q) \subseteq Range(queue')
    BY SettleLists
<1>3. runs' = runs /\ deps' = deps
    BY DEF Settles
<1>4. CASE d = m /\ Holds(epWait[m], a)
  <2>1. PICK w \in Range(epWait[m]) : w.x = a
      BY <1>4 DEF Holds
  <2>2. w \in Waiters /\ WaiterOK(m, w)
      BY WaiterTypes DEF EvalInv, ChainInv
  <2>3. w.do = "dep" /\ runs'[a] = 0
      BY <2>1, <2>2, <1>3, EvalConstants DEF Waiters, WaiterOK
  <2>4. CASE st = "fulfilled"
      BY <1>4, <2>4 DEF Accounted, Settles
  <2>5. CASE st = "rejected"
    <3>1. Told(w, st, why) = Job("evalFail", a, why)
        BY <2>1, <2>3, <2>5 DEF Told
    <3>2. status'[m] = "errored" /\ reason'[m] = why
        BY <2>5 DEF Settles, EvalInv, TypeInv, TypeOK
    <3>3. CASE Told(w, st, why) \in Range(queue')
      <4>1. Fails(a, m)'
          BY <2>3, <3>1, <3>2, <3>3 DEF Fails, Job
      <4>2. QED
          BY <1>4, <4>1 DEF Accounted
    <3>4. CASE w \in Range(epWait'[m])
      <4>1. Holds(epWait'[m], a)
          BY <2>1, <3>4 DEF Holds
      <4>2. QED
          BY <1>4, <4>1 DEF Accounted, WaitsFor
    <3>5. QED
        BY <1>2, <3>3, <3>4
  <2>6. QED
      BY <2>4, <2>5 DEF Ends
<1>5. CASE d # m \/ ~Holds(epWait[m], a)
  <2>1. Holds(epWait[d], a) => Holds(epWait'[d], a)
      BY <1>2, <1>5
  <2>2. \A j \in Range(queue) : j.x = a => j \in Range(queue')
      BY <1>2
  <2>3. \A f \in Range(stack) : f.at = "step" /\ f.m = a /\ f.called =>
            f \in Range(stack') /\ deps'[a] = deps[a]
      BY <1>3
  <2>4. QED
      BY <1>1, <1>3, <2>1, <2>2, <2>3, AccountStays
<1>6. QED
    BY <1>4, <1>5

(* The module that settles: how far its evaluation had come decides.       *)
LEMMA SettleModule ==
    ASSUME EvalInv, NEW q \in Seq(Jobs), NEW m \in Modules, NEW st \in Ends,
           NEW why \in Reasons \cup {"none"}, Settles(q, m, st, why),
           Live(m), UNCHANGED bpWait, starter'[m] = starter[m],
           st = "fulfilled" => bp[m] = "fulfilled"
    PROVE  ModuleOK(m)'
<1>1. ModuleOK(m) /\ ep \in [Modules -> {"none", "pending", "fulfilled", "rejected"}]
    BY DEF EvalInv, ChainInv, TypeInv, TypeOK
<1>2. ep'[m] = st \/ ep'[m] = "pending"
    BY <1>1 DEF Settles, Joins, Strands, Live
<1>3. QED
    BY <1>1, <1>2 DEF ModuleOK, Settles, Startable, Ends

-----------------------------------------------------------------------------
(* What does not move.                                                     *)
LEMMA ParksStay ==
    ASSUME EvalInv, UNCHANGED <<queue, epWait>>
    PROVE  ParkMoves({}, {})
BY DEF EvalInv, PlaceInv, OnePlace, ParkMoves

(* Unchanged bodies leave no suspended one and make none.                  *)
LEMMA FibersStay ==
    ASSUME UNCHANGED <<bp, bpWait>>
    PROVE  FiberMoves({}, {})
BY DEF FiberMoves, Fiber

(* Only modules not yet evaluated link, and still above everything else.   *)
LEMMA LinksStay ==
    ASSUME EvalInv, NEW from, NEW to, StackMoves(from, to),
           \A f \in Range(stack') :
              f \in Range(stack) \/ ~Links(f) \/ (f.m \in Modules /\ Startable(f.m)'),
           \A m \in Modules : Startable(m) => Startable(m)'
    PROVE  LinkInv'
<1>1. ASSUME NEW f \in Range(stack'), Links(f) PROVE Startable(f.m)'
  <2>1. CASE f \in Range(stack)
    <3>1. f.m \in Modules /\ Startable(f.m)
        BY <1>1, <2>1, FrameTypesOf DEF EvalInv, LinkInv, Links
    <3>2. QED
        BY <3>1
  <2>2. QED
      BY <1>1, <2>1
<1>2. QED
    BY <1>1 DEF LinkInv, StackMoves

(* What an import is told.                                                 *)
Operations ==
    [root : Modules \cup {NoModule}, by : Modules \cup {Host},
     st : {"idle", "loading", "loaded", "fulfilled", "rejected"},
     why : Reasons \cup {"none"}]

(* An import changes its state and keeps its root.                         *)
LEMMA OpSet ==
    ASSUME EvalInv, NEW o \in Imports, NEW st \in {"loaded", "fulfilled", "rejected"},
           NEW why \in Reasons \cup {"none"}, op[o].st # "idle",
           op' = [op EXCEPT ![o].st = st, ![o].why = why]
    PROVE  /\ op' \in [Imports -> Operations]
           /\ \A p \in Imports : op'[p].st # "idle" => op'[p].root \in Modules
           /\ op'[o].root = op[o].root /\ op'[o].st = st
           /\ \A p \in Imports \ {o} : op'[p] = op[p]
           /\ RootsStay
<1>1. op \in [Imports -> Operations]
    BY DEF EvalInv, TypeInv, TypeOK, Operations
<1>2. op'[o] = [op[o] EXCEPT !.st = st, !.why = why]
    BY <1>1
<1>3. \A p \in Imports \ {o} : op'[p] = op[p]
    BY <1>1
<1>4. op'[o].root = op[o].root /\ op'[o].st = st
    BY <1>1, <1>2 DEF Operations
<1>5. op'[o] \in Operations
    BY <1>1, <1>2 DEF Operations
<1>6. \A p \in Imports : op[p].st # "idle" => op[p].root \in Modules
    BY DEF EvalInv, TypeInv
<1>7. QED
    BY <1>1, <1>3, <1>4, <1>5, <1>6 DEF RootsStay

(* The types that every step needs.                                        *)
LEMMA Wellknown ==
    ASSUME EvalInv
    PROVE  /\ stack \in Seq(Frames) /\ queue \in Seq(Jobs) /\ Jobs = ModJobs \cup RootJobs
           /\ epWait \in [Modules -> Seq(Waiters)]
           /\ reason \in [Modules -> Reasons \cup {"none"}]
           /\ specs \in [Modules -> Seq(Modules)]
           /\ deps \in [Modules -> Seq(Modules \cup {NoModule})]
BY EvalConstants DEF EvalInv, TypeInv, TypeOK, Jobs

(* A job joins the queue.                                                  *)
LEMMA JobJoins ==
    ASSUME EvalInv, NEW j \in Jobs, ~Parked(queue, epWait, j.x),
           queue' = Append(queue, j), epWait' = epWait
    PROVE  /\ ParkMoves({}, {j.x})
           /\ queue' \in Seq(Jobs) /\ Range(queue') = Range(queue) \cup {j}
<1>1. Append(queue, j) \in Seq(Jobs) /\ Range(Append(queue, j)) = Range(queue) \cup {j}
    BY Wellknown, ListAppend
<1>2. ASSUME NEW c \in Chains
      PROVE  /\ OnceParked(queue', epWait', c)
             /\ Parked(queue', epWait', c) <=> Parked(queue, epWait, c) \/ c \in {j.x}
  <2>1. OnceParked(queue, epWait, c)
      BY DEF EvalInv, PlaceInv, OnePlace
  <2>2. /\ Parked(Append(queue, j), epWait, c) <=> j.x = c \/ Parked(queue, epWait, c)
        /\ OnceParked(Append(queue, j), epWait, c)
      BY <2>1, Wellknown, ParkedPut
  <2>3. QED
      BY <2>2
<1>3. QED
    BY <1>1, <1>2 DEF ParkMoves

(* The job at the head of the queue is taken.                              *)
LEMMA JobLeaves ==
    ASSUME EvalInv, queue # <<>>, queue' = Tail(queue), epWait' = epWait
    PROVE  /\ ParkMoves({Head(queue).x}, {})
           /\ queue' \in Seq(Jobs) /\ Range(queue) = {Head(queue)} \cup Range(queue')
<1>1. queue' \in Seq(Jobs) /\ Range(queue) = {Head(queue)} \cup Range(queue')
    BY HeadJob DEF EvalInv
<1>2. QED
    BY <1>1, HeadAlone DEF ParkMoves

=============================================================================
