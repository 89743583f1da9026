------------------------ MODULE InterpreterCounts ------------------------
(***************************************************************************)
(* What is proved about the numbers of handlers the loader finds: that an  *)
(* instruction runs with as many handlers of its frame as were counted for *)
(* it, and that no handler cuts the stack above the operands of its frame. *)
(* The loader does not establish either alone.  The first also asks that a *)
(* finally block is left with as many handlers wherever it returns to      *)
(* (CountsSettled), the second that operands stay where a newer handler is *)
(* set (DepthsLayered).                                                    *)
(***************************************************************************)
EXTENDS InterpreterProofs

---------------------------------------------------------------------------
(* The handlers of a frame, counted.                                       *)

(* Handlers of frame i among the m oldest.                                 *)
Count(i, m) == Cardinality({j \in 1..m : trys[j].frames = i})

(* A frame has finitely many handlers.                                     *)
LEMMA CountNat ==
    ASSUME NEW m \in Nat, NEW i
    PROVE  /\ Count(i, m) \in Nat /\ IsFiniteSet({j \in 1..m : trys[j].frames = i})
<1> DEFINE S == {j \in 1..m : trys[j].frames = i}
<1>1. IsFiniteSet(1..m) /\ S \in SUBSET (1..m)
    BY FS_Interval
<1>2. IsFiniteSet(S)
    BY <1>1, FS_Subset
<1>3. Cardinality(S) \in Nat
    BY <1>2, FS_CardinalityType
<1>4. QED
    BY <1>2, <1>3 DEF Count

LEMMA CountNext ==
    ASSUME NEW m \in Nat, NEW i
    PROVE  Count(i, m + 1) = Count(i, m) + (IF trys[m + 1].frames = i THEN 1 ELSE 0)
<1> DEFINE S(n) == {j \in 1..n : trys[j].frames = i}
<1>1. 1..(m + 1) = 1..m \cup {m + 1} /\ m + 1 \notin 1..m
    OBVIOUS
<1>2. CASE trys[m + 1].frames = i
    <2>1. S(m + 1) = S(m) \cup {m + 1} /\ m + 1 \notin S(m)
        BY <1>1, <1>2
    <2>2. IsFiniteSet(S(m))
        BY CountNat
    <2>3. PICK T, e : T = S(m) /\ e = m + 1
        OBVIOUS
    <2>4. Cardinality(T \cup {e}) = Cardinality(T) + 1
        BY <2>1, <2>2, <2>3, FS_AddElement
    <2>5. QED
        BY <1>2, <2>1, <2>3, <2>4 DEF Count
<1>3. CASE trys[m + 1].frames # i
    <2>1. S(m + 1) = S(m)
        BY <1>1, <1>3
    <2>2. Count(i, m + 1) = Count(i, m)
        BY <2>1 DEF Count
    <2>3. Count(i, m) \in Nat
        BY CountNat
    <2>4. QED
        BY <1>3, <2>2, <2>3
<1>4. QED
    BY <1>2, <1>3

(* What is true of the handlers is true of those a step leaves.            *)
LEMMA CountNextPrime ==
    ASSUME NEW m \in Nat, NEW i
    PROVE  Count(i, m + 1)' = Count(i, m)' + (IF trys'[m + 1].frames = i THEN 1 ELSE 0)
<1>1. ASSUME TRUE
      PROVE  \A k \in Nat : \A f :
                 Count(f, k + 1) = Count(f, k) + (IF trys[k + 1].frames = f THEN 1 ELSE 0)
    BY CountNext
<1>2. [](\A k \in Nat : \A f :
             Count(f, k + 1) = Count(f, k) + (IF trys[k + 1].frames = f THEN 1 ELSE 0))
    BY <1>1, PTL
<1>3. (\A k \in Nat : \A f :
             Count(f, k + 1) = Count(f, k) + (IF trys[k + 1].frames = f THEN 1 ELSE 0))'
    BY <1>2, PTL
<1>4. QED
    BY <1>3

(* Handlers of other frames do not count.                                  *)
LEMMA CountRest ==
    ASSUME NEW m \in Nat, NEW l \in Nat, m <= l, NEW i,
           \A j \in (m + 1)..l : trys[j].frames # i
    PROVE  Count(i, l) = Count(i, m)
<1>1. {j \in 1..l : trys[j].frames = i} = {j \in 1..m : trys[j].frames = i}
    <2>1. \A j \in 1..l : j \in 1..m \/ j \in (m + 1)..l
        OBVIOUS
    <2>2. \A j \in 1..m : j \in 1..l
        OBVIOUS
    <2>3. QED
        BY <2>1, <2>2
<1>2. QED
    BY <1>1 DEF Count

(* A frame that no handler names has none.                                 *)
LEMMA CountNone ==
    ASSUME NEW l \in Nat, NEW i, \A j \in 1..l : trys[j].frames # i
    PROVE  Count(i, l) = 0
<1>1. {j \in 1..l : trys[j].frames = i} = {}
    OBVIOUS
<1>2. QED
    BY <1>1, FS_EmptySet DEF Count

(* A frame that has handlers is named by one.                              *)
LEMMA CountSome ==
    ASSUME NEW l \in Nat, NEW i, Count(i, l) # 0
    PROVE  \E j \in 1..l : trys[j].frames = i
BY CountNone

(* The older a handler, the fewer come before it.                          *)
LEMMA CountLess ==
    ASSUME NEW l \in Nat, NEW k \in 1..l, NEW i, trys[k].frames = i
    PROVE  Count(i, k - 1) < Count(i, l)
<1> DEFINE S(n) == {j \in 1..n : trys[j].frames = i}
<1>1. k - 1 \in Nat /\ k - 1 + 1 = k /\ k \in Nat
    OBVIOUS
<1>2. Count(i, k) = Count(i, k - 1) + 1
    BY <1>1, CountNext
<1>3. S(k) \subseteq S(l)
    <2>1. \A j \in 1..k : j \in 1..l
        OBVIOUS
    <2>2. QED
        BY <2>1
<1>4. IsFiniteSet(S(l))
    BY CountNat
<1>5. PICK T, U : T = S(l) /\ U = S(k)
    OBVIOUS
<1>6. Cardinality(U) <= Cardinality(T)
    BY <1>3, <1>4, <1>5, FS_Subset
<1>7. Count(i, k) <= Count(i, l)
    BY <1>5, <1>6 DEF Count
<1>8. Count(i, k) \in Nat /\ Count(i, k - 1) \in Nat /\ Count(i, l) \in Nat
    BY <1>1, CountNat
<1>9. QED
    BY <1>2, <1>7, <1>8

(* A step that keeps the oldest handlers keeps their counts.               *)
LEMMA CountSame ==
    ASSUME NEW m \in Nat, \A j \in 1..m : trys'[j].frames = trys[j].frames, NEW i
    PROVE  Count(i, m)' = Count(i, m)
<1>1. {j \in 1..m : trys'[j].frames = i} = {j \in 1..m : trys[j].frames = i}
    OBVIOUS
<1>2. QED
    BY <1>1 DEF Count

---------------------------------------------------------------------------
(* Each frame, and each handler, is where the loader found it with as many *)
(* handlers as the frame has, or had when the handler was set.             *)

Own(i) == Count(i, Len(trys))

FrameCounted(i) == <<frames[i].ip, TopOf(i) - FloorOf(i), Own(i)>> \in ShapesOf(i)

(* The loader found the TRY_PUSH that has set it.                          *)
HandlerPlaced(k) ==
    LET t == trys[k]
        f == FrameFun(t.frames)
    IN  \E p \in ShapesOf(t.frames) :
           /\ f.code[p[1]].op = "TRY_PUSH" /\ f.code[p[1]].x = t.target
           /\ p[2] = t.sp - FloorOf(t.frames)
           /\ p[3] = Count(t.frames, k - 1)

Counted ==
    IF status = "done" THEN trys = <<>>
    ELSE /\ \A i \in DOMAIN frames : FrameCounted(i)
         /\ \A k \in DOMAIN trys : HandlerPlaced(k)

(* Where a handler goes was found with the handlers before it.             *)
LEMMA HandlerCounted ==
    ASSUME Inv, NEW k \in DOMAIN trys, HandlerPlaced(k)
    PROVE  <<trys[k].target, trys[k].sp + 1 - FloorOf(trys[k].frames),
             Count(trys[k].frames, k - 1)>> \in ShapesOf(trys[k].frames)
<1>1. PICK t : t = trys[k]
    OBVIOUS
<1>2. PICK i \in DOMAIN frames : i = t.frames
    BY <1>1 DEF Inv, HandlersOk, HandlerOk
<1>3. PICK c : c = Count(i, k - 1)
    OBVIOUS
<1>4. PICK p \in ShapesOf(i) :
          /\ FrameFun(i).code[p[1]].op = "TRY_PUSH" /\ FrameFun(i).code[p[1]].x = t.target
          /\ p[2] = t.sp - FloorOf(i) /\ p[3] = c
    BY <1>1, <1>2, <1>3 DEF HandlerPlaced
<1>5. t.sp \in Nat /\ FloorOf(i) \in Nat
    BY <1>1, <1>2, AtFrame DEF Inv, HandlersOk, HandlerOk
<1>6. <<t.target, p[2] + 1, c>> \in Successors(FrameFun(i), p)
    BY <1>4 DEF Successors, Ends, Jumps
<1>7. Successors(FrameFun(i), p) \subseteq ShapesOf(i)
    BY AtShape
<1>8. p[2] + 1 = t.sp + 1 - FloorOf(i)
    BY <1>4, <1>5
<1>9. QED
    BY <1>1, <1>2, <1>3, <1>6, <1>7, <1>8

(* The running instruction, with the handlers of its frame.                *)
LEMMA HereCounted ==
    ASSUME Inv, Counted, status # "done"
    PROVE  /\ <<Frame.ip, Depth, Own(Len(frames))>> \in ShapesOf(Len(frames))
           /\ Successors(Fun, <<Frame.ip, Depth, Own(Len(frames))>>) \subseteq ShapesOf(Len(frames))
<1>1. PICK n \in DOMAIN frames : n = Len(frames)
    BY Sizes
<1>2. FrameCounted(n)
    BY DEF Counted
<1>3. TopOf(n) - FloorOf(n) = Depth /\ Frame = frames[n] /\ Fun = FrameFun(n)
    BY <1>1, Here DEF TopOf
<1>4. PICK s : s = <<Frame.ip, Depth, Own(n)>>
    OBVIOUS
<1>5. s \in ShapesOf(n)
    BY <1>2, <1>3, <1>4 DEF FrameCounted
<1>6. Successors(FrameFun(n), s) \subseteq ShapesOf(n)
    BY <1>5, AtShape
<1>7. QED
    BY <1>1, <1>3, <1>4, <1>5, <1>6

(* The frames below n and their handlers stay as they are.                 *)
LEMMA BelowCounted ==
    ASSUME Inv, Counted, status # "done", prog' = prog,
           NEW n \in DOMAIN frames, Len(frames') \in Nat, n <= Len(frames'),
           \A i \in 1..n : frames'[i].fn = frames[i].fn /\ frames'[i].base = frames[i].base,
           \A i \in 1..n : i # n => frames'[i].ip = frames[i].ip,
           NEW q \in Nat, q <= Len(trys),
           \A j \in 1..q : trys'[j] = trys[j] /\ trys[j].frames <= n,
           \A j \in (q + 1)..Len(trys) : trys[j].frames >= n,
           Len(trys') \in Nat, q <= Len(trys'),
           \A j \in (q + 1)..Len(trys') : trys'[j].frames >= n
    PROVE  /\ \A i \in 1..n : i # n => FrameCounted(i)'
           /\ \A k \in 1..q : HandlerPlaced(k)'
           /\ \A i \in 1..n : /\ ShapesOf(i)' = ShapesOf(i) /\ FloorOf(i)' = FloorOf(i)
                              /\ FrameFun(i)' = FrameFun(i)
<1>1. DOMAIN frames = 1..Len(frames) /\ Len(frames) \in Nat /\ n \in Nat
      /\ DOMAIN trys = 1..Len(trys) /\ Len(trys) \in Nat
    BY Sizes
<1>2. \A j \in DOMAIN trys : trys[j].frames \in 1..Len(frames)
    BY <1>1 DEF Inv, HandlersOk, HandlerOk
<1>3. \A i \in 1..n : /\ ShapesOf(i)' = ShapesOf(i) /\ FloorOf(i)' = FloorOf(i)
                      /\ FrameFun(i)' = FrameFun(i)
    BY DEF ShapesOf, FloorOf, FrameFun
<1>4. \A i \in 1..n : \A m \in 0..q : Count(i, m)' = Count(i, m)
    <2> TAKE i \in 1..n
    <2> TAKE m \in 0..q
    <2>1. m \in Nat /\ \A j \in 1..m : j \in 1..q
        OBVIOUS
    <2>2. QED
        BY <2>1, CountSame
<1>5. ASSUME NEW i \in 1..n, i # n PROVE FrameCounted(i)'
    <2>0. i \in Nat /\ n \in Nat /\ i < n
        BY <1>1, <1>5
    <2>1. i \in DOMAIN frames /\ i + 1 \in 1..n /\ i # Len(frames) /\ i # Len(frames')
        <3>1. i <= Len(frames) /\ n <= Len(frames) /\ i >= 1
            BY <1>1, <2>0
        <3>2. i \in 1..Len(frames) /\ i + 1 \in 1..n
            BY <1>1, <2>0, <3>1
        <3>3. PICK a, b \in Nat : a = Len(frames) /\ b = Len(frames') /\ n <= a /\ n <= b
            BY <1>1, <3>1
        <3>4. i # a /\ i # b
            BY <2>0, <3>3
        <3>5. QED
            BY <1>1, <3>2, <3>3, <3>4
    <2>2. TopOf(i)' = TopOf(i)
        BY <2>1 DEF TopOf
    <2>3. Count(i, Len(trys)) = Count(i, q)
        <3>1. \A j \in (q + 1)..Len(trys) : trys[j].frames # i
            <4> SUFFICES ASSUME NEW j \in (q + 1)..Len(trys), trys[j].frames = i PROVE FALSE
                OBVIOUS
            <4>1. i >= n
                OBVIOUS
            <4>2. PICK a \in Nat, b \in Nat : a = i /\ b = n
                BY <2>0
            <4>3. QED
                BY <2>0, <4>1, <4>2
        <3>2. QED
            BY <1>1, <3>1, CountRest
    <2>4. Own(i)' = Count(i, q)'
        <3>1. \A j \in (q + 1)..Len(trys') : trys'[j].frames # i
            <4> SUFFICES ASSUME NEW j \in (q + 1)..Len(trys'), trys'[j].frames = i PROVE FALSE
                OBVIOUS
            <4>1. i >= n
                OBVIOUS
            <4>2. PICK a \in Nat, b \in Nat : a = i /\ b = n
                BY <2>0
            <4>3. QED
                BY <2>0, <4>1, <4>2
        <3>2. {j \in 1..Len(trys') : trys'[j].frames = i} = {j \in 1..q : trys'[j].frames = i}
            <4>1. \A j \in 1..Len(trys') : j \in 1..q \/ j \in (q + 1)..Len(trys')
                OBVIOUS
            <4>2. \A j \in 1..q : j \in 1..Len(trys')
                OBVIOUS
            <4>3. QED
                BY <3>1, <4>1, <4>2
        <3>3. QED
            BY <3>2 DEF Own, Count
    <2>5. Own(i)' = Own(i)
        BY <1>4, <2>3, <2>4 DEF Own
    <2>6. FrameCounted(i)
        BY <2>1 DEF Counted
    <2>7. QED
        BY <1>3, <1>5, <2>2, <2>5, <2>6 DEF FrameCounted
<1>6. ASSUME NEW k \in 1..q PROVE HandlerPlaced(k)'
    <2>1. k \in DOMAIN trys /\ k - 1 \in 0..q
        BY <1>1
    <2>2. PICK t : t = trys[k] /\ t = trys'[k]
        OBVIOUS
    <2>3. PICK i \in 1..n : i = t.frames
        BY <1>2, <2>1, <2>2
    <2>4. Count(i, k - 1)' = Count(i, k - 1)
        BY <1>4, <2>1
    <2>5. HandlerPlaced(k)
        BY <2>1 DEF Counted
    <2>6. PICK p \in ShapesOf(i) :
              /\ FrameFun(i).code[p[1]].op = "TRY_PUSH" /\ FrameFun(i).code[p[1]].x = t.target
              /\ p[2] = t.sp - FloorOf(i) /\ p[3] = Count(i, k - 1)
        BY <2>2, <2>3, <2>5 DEF HandlerPlaced
    <2>7. /\ p \in ShapesOf(i)'
          /\ FrameFun(i)'.code[p[1]].op = "TRY_PUSH" /\ FrameFun(i)'.code[p[1]].x = t.target
          /\ p[2] = t.sp - FloorOf(i)' /\ p[3] = Count(i, k - 1)'
        BY <1>3, <2>4, <2>6
    <2>8. QED
        BY <2>2, <2>3, <2>7 DEF HandlerPlaced
<1>7. QED
    BY <1>3, <1>5, <1>6

(* The running frame has moved to ip.                                      *)
LEMMA Went ==
    ASSUME Inv, prog' = prog, NEW ip, Go(ip)
    PROVE  \E n \in Nat :
              /\ n = Len(frames) /\ DOMAIN frames = 1..n /\ n \in 1..n
              /\ Len(frames') = n /\ DOMAIN frames' = 1..n
              /\ \A i \in 1..n : /\ frames'[i].fn = frames[i].fn
                                 /\ frames'[i].base = frames[i].base
                                 /\ frames'[i].ip = IF i = n THEN ip ELSE frames[i].ip
                                 /\ ShapesOf(i)' = ShapesOf(i) /\ FloorOf(i)' = FloorOf(i)
                                 /\ FrameFun(i)' = FrameFun(i)
<1>1. PICK n \in DOMAIN frames : n = Len(frames) /\ DOMAIN frames = 1..n /\ n \in Nat
    BY Sizes
<1>2. Sq(frames) /\ frames' = [frames EXCEPT ![n] = [frames[n] EXCEPT !.ip = ip]]
    BY <1>1 DEF Inv, FramesOk, Go
<1>3. FrameOk(frames[n])
    BY DEF Inv, FramesOk
<1>4. PICK v : v = [frames[n] EXCEPT !.ip = ip]
    OBVIOUS
<1>5. v.ip = ip /\ v.fn = frames[n].fn /\ v.base = frames[n].base
    BY <1>3, <1>4 DEF FrameOk
<1>6. /\ Sq(frames') /\ Len(frames') = n
      /\ \A i \in 1..n : frames'[i] = IF i = n THEN v ELSE frames[i]
    <2>1. frames' = [frames EXCEPT ![n] = v]
        BY <1>2, <1>4
    <2>2. /\ Sq([frames EXCEPT ![n] = v]) /\ Len([frames EXCEPT ![n] = v]) = Len(frames)
          /\ \A i \in DOMAIN frames :
                [frames EXCEPT ![n] = v][i] = IF i = n THEN v ELSE frames[i]
        BY <1>2, SqExcept
    <2>3. QED
        BY <1>1, <2>1, <2>2
<1>7. DOMAIN frames' = 1..n
    BY <1>6, SqFacts
<1>8. \A i \in 1..n : /\ frames'[i].fn = frames[i].fn
                      /\ frames'[i].base = frames[i].base
                      /\ frames'[i].ip = IF i = n THEN ip ELSE frames[i].ip
    BY <1>5, <1>6
<1>9. \A i \in 1..n : /\ ShapesOf(i)' = ShapesOf(i) /\ FloorOf(i)' = FloorOf(i)
                      /\ FrameFun(i)' = FrameFun(i)
    BY <1>8 DEF ShapesOf, FloorOf, FrameFun
<1>10. QED
    BY <1>1, <1>6, <1>7, <1>8, <1>9

(* It has moved to where the loader found it with the handlers it now has, *)
(* and any it has set are where the loader found them.                     *)
LEMMA MovedCounted ==
    ASSUME Inv, Counted, status # "done", status' # "done", prog' = prog,
           NEW ip, Go(ip), NEW top, top = Len(frames),
           NEW q \in Nat, q <= Len(trys), NEW l \in Nat, q <= l, Len(trys') = l,
           DOMAIN trys' = 1..l,
           \A j \in 1..q : trys'[j] = trys[j],
           \A j \in (q + 1)..Len(trys) : trys[j].frames >= top,
           \A j \in (q + 1)..l : trys'[j].frames >= top /\ HandlerPlaced(j)',
           <<ip, Len(stack') - FloorOf(top), Own(top)'>> \in ShapesOf(top)
    PROVE  Counted'
<1>1. PICK n \in Nat :
          /\ n = Len(frames) /\ DOMAIN frames = 1..n /\ n \in 1..n
          /\ Len(frames') = n /\ DOMAIN frames' = 1..n
          /\ \A i \in 1..n : /\ frames'[i].fn = frames[i].fn
                             /\ frames'[i].base = frames[i].base
                             /\ frames'[i].ip = IF i = n THEN ip ELSE frames[i].ip
                             /\ ShapesOf(i)' = ShapesOf(i) /\ FloorOf(i)' = FloorOf(i)
                             /\ FrameFun(i)' = FrameFun(i)
    BY Went
<1>2. PICK m \in Nat : m = Len(trys) /\ DOMAIN trys = 1..m
    BY Sizes
<1>3. \A j \in 1..m : trys[j].frames \in 1..n
    BY <1>1, <1>2 DEF Inv, HandlersOk, HandlerOk
<1>4. /\ \A i \in 1..n : i # n => FrameCounted(i)'
      /\ \A k \in 1..q : HandlerPlaced(k)'
    <2>0. n \in DOMAIN frames /\ Len(frames') \in Nat /\ n <= Len(frames')
        BY <1>1
    <2>1. /\ \A i \in 1..n : frames'[i].fn = frames[i].fn /\ frames'[i].base = frames[i].base
          /\ \A i \in 1..n : i # n => frames'[i].ip = frames[i].ip
        BY <1>1
    <2>2. \A j \in 1..q : trys'[j] = trys[j] /\ trys[j].frames <= n
        <3> TAKE j \in 1..q
        <3>1. j \in 1..m
            BY <1>2
        <3>2. trys[j].frames \in 1..n
            BY <1>3, <3>1
        <3>3. QED
            BY <1>1, <3>2
    <2>3. /\ \A j \in (q + 1)..Len(trys) : trys[j].frames >= n
          /\ \A j \in (q + 1)..Len(trys') : trys'[j].frames >= n
          /\ Len(trys') \in Nat /\ q <= Len(trys')
        BY <1>1
    <2>4. QED
        BY <2>0, <2>1, <2>2, <2>3, BelowCounted
<1>5. FrameCounted(n)'
    <2>1. n \in 1..n /\ frames'[n].ip = ip /\ ShapesOf(n)' = ShapesOf(n)
          /\ FloorOf(n)' = FloorOf(n)
        BY <1>1
    <2>2. TopOf(n)' = Len(stack')
        BY <1>1 DEF TopOf
    <2>3. <<ip, Len(stack') - FloorOf(n), Own(n)'>> \in ShapesOf(n)
        BY <1>1
    <2>4. QED
        BY <2>1, <2>2, <2>3 DEF FrameCounted
<1>6. \A i \in DOMAIN frames' : FrameCounted(i)'
    BY <1>1, <1>4, <1>5
<1>7. \A k \in DOMAIN trys' : HandlerPlaced(k)'
    <2> TAKE k \in DOMAIN trys'
    <2>1. k \in 1..q \/ k \in (q + 1)..l
        OBVIOUS
    <2>2. QED
        BY <1>4, <2>1
<1>8. QED
    BY <1>6, <1>7 DEF Counted

(* Its handlers are as they were.                                          *)
LEMMA TopCounted ==
    ASSUME Inv, Counted, status # "done", status' # "done", prog' = prog, trys' = trys,
           NEW ip, Go(ip),
           <<ip, Len(stack') - FloorOf(Len(frames)), Own(Len(frames))>> \in ShapesOf(Len(frames))
    PROVE  Counted'
<1>1. PICK q \in Nat : q = Len(trys) /\ DOMAIN trys = 1..q
    BY Sizes
<1>2. \A j \in (q + 1)..q : FALSE
    OBVIOUS
<1>3. PICK n \in Nat : n = Len(frames) /\ Len(frames') = n
    BY Went
<1>4. Own(n)' = Own(n)
    BY DEF Own, Count
<1>5. <<ip, Len(stack') - FloorOf(n), Own(n)'>> \in ShapesOf(n)
    BY <1>3, <1>4
<1>6. QED
    BY <1>1, <1>2, <1>3, <1>5, MovedCounted

(* It has gone where the verifier takes the instruction to go.             *)
LEMMA FollowsCounted ==
    ASSUME Inv, Counted, status # "done", status' # "done", prog' = prog, trys' = trys,
           Len(stack') \in Nat, NEW ip, Go(ip),
           Follows(ip, Len(stack') - FloorOf(Len(frames)))
    PROVE  Counted'
<1>1. PICK d, t : d = Len(stack') - FloorOf(Len(frames)) /\ t = Own(Len(frames))
    OBVIOUS
<1>2. <<ip, d, t>> \in Successors(Fun, <<Frame.ip, Depth, t>>)
    BY <1>1 DEF Follows
<1>3. <<ip, d, t>> \in ShapesOf(Len(frames))
    BY <1>1, <1>2, HereCounted
<1>4. QED
    BY <1>1, <1>3, TopCounted

(* The instructions that do neither of what the verifier treats apart.     *)
Apart == Ends \cup {"JUMP", "GOSUB", "TRY_PUSH", "TRY_POP"}

(* The next instruction, at the depth the opcode leaves.                   *)
LEMMA OnwardCounted ==
    ASSUME Inv, Counted, status # "done", status' # "done", prog' = prog, trys' = trys,
           Go(Frame.ip + 1), I.op \notin Apart,
           Delta(I) \in Int, Len(stack') = Len(stack) + Delta(I), Depth + Delta(I) >= 0
    PROVE  Counted'
<1>1. Follows(Frame.ip + 1, Depth + Delta(I))
    BY NextFollows DEF Apart
<1>2. PICK f, d : f = FloorOf(Len(frames)) /\ d = Delta(I)
    OBVIOUS
<1>3. f \in Nat /\ Len(stack) - f = Depth /\ Len(stack) \in Nat /\ Depth \in Nat
    BY <1>2, StackFacts
<1>4. Len(stack') - f = Depth + d /\ Len(stack') \in Nat
    BY <1>2, <1>3
<1>5. Follows(Frame.ip + 1, Len(stack') - FloorOf(Len(frames)))
    BY <1>1, <1>2, <1>4
<1>6. QED
    BY <1>4, <1>5, FollowsCounted

(* Neither frames nor handlers change, nor the height of the stack.        *)
LEMMA SameCounted ==
    ASSUME Inv, Counted, UNCHANGED <<prog, frames, trys>>, Len(stack') = Len(stack),
           status # "done", status' # "done"
    PROVE  Counted'
<1>1. \A i : FrameCounted(i) <=> FrameCounted(i)'
    BY DEF FrameCounted, TopOf, FloorOf, FrameFun, ShapesOf, Own, Count
<1>2. \A k : HandlerPlaced(k) <=> HandlerPlaced(k)'
    BY DEF HandlerPlaced, FloorOf, FrameFun, ShapesOf, Count
<1>3. QED
    BY <1>1, <1>2 DEF Counted

(* The stack after an instruction that goes on to the next.                *)
Onward ==
    /\ status = "run" /\ status' # "done" /\ prog' = prog /\ trys' = trys
    /\ I.op \notin Apart /\ Go(Frame.ip + 1)
    /\ Delta(I) \in Int /\ Len(stack') = Len(stack) + Delta(I) /\ Depth + Delta(I) >= 0

(* The instructions that only compute go on to the next.                   *)
LEMMA StackOnward ==
    ASSUME Inv, Compute \/ SetUpval \/ SetGlobal \/ CloseUpvals \/ Suspend
    PROVE  Onward
<1>1. /\ Len(stack) \in Nat /\ Depth \in Nat /\ Depth >= MinIn(I) /\ Sq(stack)
    BY StackFacts DEF Good
<1>2. status = "run" /\ status' # "done" /\ prog' = prog /\ trys' = trys /\ Go(Frame.ip + 1)
    BY DEF Compute, SetUpval, SetGlobal, CloseUpvals, Suspend, Can, Running, Advance, control
<1>3. CASE Compute
    <2>1. I.op \in StackOps /\ Raised = NoError /\ stack' = StackAfter
        BY <1>3 DEF Compute, Can, Advance
    <2>2. I.op \notin Apart
        BY <2>1 DEF StackOps, Calculated, Apart, Ends
    <2>3. QED
        BY <1>2, <2>1, <2>2, StackAfterOk DEF Onward
<1>4. CASE ~Compute
    <2>1. I.op \in {"SET_UPVAL", "SET_GLOBAL", "CLOSE_UPVALS", "AWAIT"}
        BY <1>4 DEF SetUpval, SetGlobal, CloseUpvals, Suspend, Can
    <2>2. Delta(I) = 0 /\ I.op \notin Apart
        BY <2>1, DepthTable DEF Unary1, Apart, Ends
    <2>3. Len(stack') = Len(stack)
        <3>1. CASE SetUpval
            <4>1. PICK k, v : stack' = stack \/ stack' = [stack EXCEPT ![k] = v]
                BY <3>1 DEF SetUpval, Advance
            <4>2. QED
                BY <1>1, <4>1, SqExcept
        <3>2. CASE SetGlobal \/ CloseUpvals \/ Suspend
            BY <3>2 DEF SetGlobal, CloseUpvals, Suspend, Advance
        <3>3. QED
            BY <1>4, <3>1, <3>2
    <2>4. Delta(I) \in Int /\ Len(stack') = Len(stack) + Delta(I) /\ Depth + Delta(I) >= 0
        BY <1>1, <2>2, <2>3
    <2>5. QED
        BY <1>2, <2>2, <2>4 DEF Onward
<1>5. QED
    BY <1>3, <1>4

(* A value takes the place of the n on top.                                *)
LEMMA Replaced ==
    ASSUME Inv, NEW n \in Nat, n <= Len(stack), NEW v, stack' = Append(Drop(n), v)
    PROVE  Len(stack') = Len(stack) - n + 1
<1>1. Good(Drop(n), NC, NO) /\ Len(Drop(n)) = Len(stack) - n
    BY Operands
<1>2. PICK s : s = Drop(n)
    OBVIOUS
<1>3. Len(Append(s, v)) = Len(s) + 1
    BY <1>1, <1>2, SqAppend DEF Good
<1>4. QED
    BY <1>1, <1>2, <1>3

(* So do those that make, read or write objects and closures.              *)
LEMMA ObjectOnward ==
    ASSUME Inv, \/ NewObject \/ NewArray \/ ArrayRest \/ Write
                \/ GetPrototype \/ SetPrototype \/ MakeClosure
    PROVE  Onward
<1>1. /\ Len(stack) \in Nat /\ Depth \in Nat /\ Depth >= MinIn(I) /\ Len(stack) >= Depth + 2
      /\ Sq(stack)
    BY StackFacts DEF Good
<1>2. status = "run" /\ status' # "done" /\ prog' = prog /\ trys' = trys /\ Go(Frame.ip + 1)
    BY DEF NewObject, NewArray, ArrayRest, Allocate, Write, GetPrototype, SetPrototype,
           MakeClosure, Can, Running, Advance, control
<1>3. CASE Write
    <2>1. /\ I.op \in {"ARRAY_APPEND", "ARRAY_SPREAD", "OBJ_SPREAD", "DEFINE_PROP", "SET_PROP",
                       "SET_PROP_ATOM", "DELETE_PROP"}
          /\ Raised = NoError /\ ~SetsPrototype /\ stack' = Written[2]
        BY <1>3 DEF Write, Can, Advance
    <2>2. I.op \notin Apart
        BY <2>1 DEF Apart, Ends
    <2>3. QED
        BY <1>2, <2>1, <2>2, WrittenOk DEF Onward
<1>4. CASE NewObject \/ MakeClosure
    <2>1. I.op \in {"NEW_OBJECT", "CLOSURE"}
        BY <1>4 DEF NewObject, MakeClosure, Can
    <2>2. PICK v : stack' = Append(stack, v)
        BY <1>4 DEF NewObject, MakeClosure, Allocate, Advance
    <2>3. Delta(I) = 1 /\ I.op \notin Apart
        BY <2>1, DepthTable DEF Pushes, Apart, Ends
    <2>4. Len(stack') = Len(stack) + 1
        BY <1>1, <2>2, SqAppend
    <2>5. Delta(I) \in Int /\ Len(stack') = Len(stack) + Delta(I) /\ Depth + Delta(I) >= 0
        BY <1>1, <2>3, <2>4
    <2>6. QED
        BY <1>2, <2>3, <2>5 DEF Onward
<1>5. CASE NewArray \/ ArrayRest \/ GetPrototype
    <2>1. I.op \in {"NEW_ARRAY", "ARRAY_REST", "GET_PROP", "GET_PROP_ATOM"}
        BY <1>5 DEF NewArray, ArrayRest, GetPrototype, Can
    <2>2. I.op \notin Apart
        BY <2>1 DEF Apart, Ends
    <2>3. PICK n \in Nat : /\ MinIn(I) = n /\ Delta(I) = 1 - n
                           /\ \E v : stack' = Append(Drop(n), v)
        <3>1. CASE NewArray
            <4>1. I.op = "NEW_ARRAY" /\ I.x \in Nat
                BY <3>1, CountsNat DEF NewArray, Can
            <4>2. MinIn(I) = I.x /\ Delta(I) = 1 - I.x
                BY <4>1, DepthTable
            <4>3. \E v : stack' = Append(Drop(I.x), v)
                BY <3>1 DEF NewArray, Allocate, Advance
            <4>4. QED
                BY <4>1, <4>2, <4>3
        <3>2. CASE ArrayRest
            <4>1. I.op = "ARRAY_REST"
                BY <3>2 DEF ArrayRest, Can
            <4>2. MinIn(I) = 2 /\ Delta(I) = 1 - 2
                BY <4>1, DepthTable
            <4>3. \E v : stack' = Append(Drop(2), v)
                BY <3>2 DEF ArrayRest, Allocate, Advance
            <4>4. QED
                BY <4>2, <4>3
        <3>3. CASE GetPrototype
            <4>1. PICK n \in {1, 2} : n = IF I.op = "GET_PROP" THEN 2 ELSE 1
                OBVIOUS
            <4>2. I.op \in {"GET_PROP", "GET_PROP_ATOM"} /\ \E v : stack' = Append(Drop(n), v)
                BY <3>3, <4>1 DEF GetPrototype, Advance, Can
            <4>3. MinIn(I) = n /\ Delta(I) = 1 - n
                BY <4>1, <4>2, DepthTable DEF Unary1
            <4>4. n \in Nat
                OBVIOUS
            <4>5. QED
                BY <4>2, <4>3, <4>4
        <3>4. QED
            BY <1>5, <3>1, <3>2, <3>3
    <2>4. n <= Len(stack)
        BY <1>1, <2>3
    <2>5. Len(stack') = Len(stack) - n + 1
        BY <2>3, <2>4, Replaced
    <2>6. Delta(I) \in Int /\ Len(stack') = Len(stack) + Delta(I) /\ Depth + Delta(I) >= 0
        BY <1>1, <2>3, <2>5
    <2>7. QED
        BY <1>2, <2>2, <2>6 DEF Onward
<1>6. CASE SetPrototype
    <2>1. PICK n \in {2, 3} : n = IF I.op = "SET_PROP_ATOM" THEN 2 ELSE 3
        OBVIOUS
    <2>2. /\ I.op \in {"DEFINE_PROP", "SET_PROP", "SET_PROP_ATOM"}
          /\ stack' = IF I.op = "DEFINE_PROP" THEN Drop(2) ELSE Append(Drop(n), Peek(0))
        BY <1>6, <2>1 DEF SetPrototype, Can, Advance
    <2>3. MinIn(I) = n /\ Delta(I) = 1 - n /\ I.op \notin Apart
        BY <2>1, <2>2, DepthTable DEF Apart, Ends
    <2>4. n \in Nat /\ n <= Len(stack) /\ 2 <= Len(stack)
        BY <1>1, <2>3
    <2>5. Len(stack') = Len(stack) - n + 1
        <3>1. CASE I.op = "DEFINE_PROP"
            <4>1. Len(Drop(2)) = Len(stack) - 2 /\ n = 3
                BY <2>1, <2>4, <3>1, Operands
            <4>2. QED
                BY <1>1, <2>2, <3>1, <4>1
        <3>2. CASE I.op # "DEFINE_PROP"
            BY <2>2, <2>4, <3>2, Replaced
        <3>3. QED
            BY <3>1, <3>2
    <2>6. Delta(I) \in Int /\ Len(stack') = Len(stack) + Delta(I) /\ Depth + Delta(I) >= 0
        BY <1>1, <2>1, <2>3, <2>5
    <2>7. QED
        BY <1>2, <2>3, <2>6 DEF Onward
<1>7. QED
    BY <1>3, <1>4, <1>5, <1>6

(* A call of the host that returns.                                        *)
LEMMA ReturnsOnward ==
    ASSUME Inv, I.op \in CallOps, Raised = NoError, NEW v, Returns(v), prog' = prog,
           status = "run"
    PROVE  Onward
<1>1. PICK n \in Nat : n = CalleeAt - 1 /\ n <= Len(stack) /\ n >= 1 /\ n + 1 = CalleeAt
    <2>1. CalleeAt \in Nat /\ CalleeAt + 1 <= Len(stack) /\ CalleeAt >= 3
        BY CallStack
    <2>2. PICK c \in Nat : c = CalleeAt /\ c + 1 <= Len(stack) /\ c >= 3
        BY <2>1
    <2>3. c - 1 \in Nat /\ c - 1 <= Len(stack) /\ c - 1 >= 1 /\ c - 1 + 1 = c
        BY <2>2, StackFacts
    <2>4. QED
        BY <2>2, <2>3
<1>2. stack' = Append(SubSeq(stack, 1, n), v) /\ Go(Frame.ip + 1) /\ UNCHANGED <<trys, status>>
    BY <1>1 DEF Returns, Advance
<1>3. Good(SubSeq(stack, 1, n), NC, NO) /\ Len(SubSeq(stack, 1, n)) = n
    <2>1. /\ Good(SubSeq(stack, 1, n), NC, NO)
          /\ Len(SubSeq(stack, 1, n)) = IF 1 <= n THEN n - 1 + 1 ELSE 0
        BY <1>1, StackFacts, GoodSub
    <2>2. QED
        BY <1>1, <2>1
<1>4. PICK s : s = SubSeq(stack, 1, n)
    OBVIOUS
<1>5. Len(stack') = n + 1
    BY <1>2, <1>3, <1>4, SqAppend DEF Good
<1>6. /\ Delta(I) \in Int /\ CalleeAt = Len(stack) + Delta(I) /\ Depth + Delta(I) >= 0
      /\ I.op \notin Apart
    BY CallStack DEF Apart, Ends, CallOps
<1>7. Len(stack') = Len(stack) + Delta(I)
    BY <1>1, <1>5, <1>6
<1>8. QED
    BY <1>2, <1>6, <1>7 DEF Onward

(* Going on keeps every count.                                             *)
LEMMA OnwardKeeps ==
    ASSUME Inv, Counted, Onward
    PROVE  Counted'
<1>1. status # "done"
    BY DEF Onward
<1>2. QED
    BY <1>1, OnwardCounted DEF Onward

(* A jump goes to a place the loader found with the handlers it has.       *)
LEMMA JumpCounted ==
    ASSUME Inv, Counted, Jump
    PROVE  Counted'
<1>1. /\ I.op \in Jumps \ {"TRY_PUSH"} /\ Raised = NoError
      /\ prog' = prog /\ trys' = trys /\ status = "run" /\ status' = "run"
      /\ stack' = Branch.stack /\ Go(Branch.ip)
    BY DEF Jump, Can, Running, control
<1>2. PICK s, ip : s = Branch.stack /\ ip = Branch.ip
    OBVIOUS
<1>3. Good(s, NC, NO) /\ Follows(ip, Len(s) - FloorOf(Len(frames)))
    BY <1>1, <1>2, BranchOk
<1>4. Len(stack') \in Nat /\ Go(ip) /\ Follows(ip, Len(stack') - FloorOf(Len(frames)))
    BY <1>1, <1>2, <1>3, GoodFacts
<1>5. QED
    BY <1>1, <1>4, FollowsCounted

(* RET_SUB tests the depth; the number of handlers agrees.                 *)
LEMMA RetSubCounted ==
    ASSUME Inv, Vouched, CountsSettled, Counted, RetSub
    PROVE  Counted'
<1>1. /\ I.op = "RET_SUB" /\ Raised = NoError
      /\ prog' = prog /\ trys' = trys /\ status = "run" /\ status' = "run"
      /\ stack' = Drop(1) /\ Go(Peek(0)[2])
    BY DEF RetSub, Can, Running, control
<1>2. PICK ip : ip = Peek(0)[2]
    OBVIOUS
<1>3. PICK n \in DOMAIN frames : n = Len(frames)
    BY Sizes
<1>4. /\ Fun = Protos[Frame.fn] /\ I = Fun.code[Frame.ip] /\ Frame.ip \in DOMAIN Fun.code
      /\ Frame.fn \in DOMAIN Protos /\ Proved = Verified[prog][Frame.fn]
      /\ ShapesOf(n) = Proved.shapes
    BY <1>3, Here, AtFrame DEF Proved, ShapesOf
<1>5. loaded
    BY <1>1, <1>4 DEF Vouched, Plain
<1>6. <<ip, Depth - 1>> \in Proved.rets
    BY <1>1, <1>2, <1>5, NotRaised DEF RetSubFault, Error, NoError
<1>7. PICK c : c = Own(n)
    OBVIOUS
<1>8. PICK s : s = <<Frame.ip, Depth, c>> /\ s \in Proved.shapes
    <2>1. <<Frame.ip, Depth, c>> \in ShapesOf(n)
        BY <1>1, <1>3, <1>7, HereCounted
    <2>2. QED
        BY <1>4, <2>1
<1>9. PICK r \in Proved.rets : r = <<ip, Depth - 1>>
    BY <1>6
<1>10. <<r[1], r[2], s[3]>> \in Proved.shapes
    <2>1. ReturnsAgree(Fun, Proved)
        BY <1>4 DEF CountsSettled, Protos
    <2>2. Fun.code[s[1]].op = "RET_SUB" /\ r[2] = s[2] - 1
        BY <1>1, <1>4, <1>8, <1>9
    <2>3. QED
        BY <1>8, <2>1, <2>2 DEF ReturnsAgree
<1>11. <<ip, Depth - 1, c>> \in ShapesOf(n)
    BY <1>4, <1>8, <1>9, <1>10
<1>12. PICK f : f = FloorOf(Len(frames))
    OBVIOUS
<1>13. f \in Nat /\ Len(stack) - f = Depth /\ Len(stack) \in Nat /\ Len(stack) >= 1
    BY <1>12, StackFacts
<1>14. Len(stack') = Len(stack) - 1
    <2>1. 1 \in Nat /\ 1 <= Len(stack)
        BY <1>13
    <2>2. QED
        BY <1>1, <2>1, Operands
<1>15. Len(stack') - f = Depth - 1
    BY <1>13, <1>14
<1>16. <<ip, Len(stack') - FloorOf(Len(frames)), Own(Len(frames))>> \in ShapesOf(Len(frames))
    BY <1>3, <1>7, <1>11, <1>12, <1>15
<1>17. QED
    BY <1>1, <1>2, <1>16, TopCounted

(* TRY_PUSH sets one more handler, and records the depth it was set at.    *)
LEMMA TryPushCounted ==
    ASSUME Inv, Counted, TryPush
    PROVE  Counted'
<1> DEFINE t == [frames |-> Len(frames), sp |-> Len(stack), target |-> I.x]
<1>1. /\ I.op = "TRY_PUSH" /\ prog' = prog /\ status = "run" /\ status' = "run"
      /\ stack' = stack /\ Go(Frame.ip + 1) /\ trys' = Append(trys, t)
    BY DEF TryPush, Can, Running, Advance, control
<1>2. PICK n \in Nat :
          /\ n = Len(frames) /\ DOMAIN frames = 1..n /\ n \in 1..n /\ Len(frames') = n
          /\ \A i \in 1..n : /\ ShapesOf(i)' = ShapesOf(i) /\ FloorOf(i)' = FloorOf(i)
                             /\ FrameFun(i)' = FrameFun(i)
    <2>1. PICK ip : ip = Frame.ip + 1 /\ Go(ip) /\ prog' = prog
        BY <1>1
    <2>2. QED
        BY <2>1, Went
<1>3. PICK q \in Nat : q = Len(trys) /\ DOMAIN trys = 1..q
    BY Sizes
<1>4. Sq(trys)
    BY DEF Inv, HandlersOk
<1> HIDE DEF t
<1>5. /\ Sq(trys') /\ Len(trys') = q + 1
      /\ \A j \in 1..q : trys'[j] = trys[j]
      /\ trys'[q + 1] = t
    BY <1>1, <1>3, <1>4, SqAppend
<1>6. DOMAIN trys' = 1..(q + 1)
    BY <1>3, <1>5, SqFacts
<1>7. t.frames = n /\ t.sp = Len(stack) /\ t.target = I.x
    BY <1>2 DEF t
<1>8. PICK c \in Nat : c = Own(n)
    BY <1>3, CountNat DEF Own
<1>9. \A m \in 0..q : Count(n, m)' = Count(n, m)
    <2> TAKE m \in 0..q
    <2>1. m \in Nat /\ \A j \in 1..m : trys'[j].frames = trys[j].frames
        BY <1>5
    <2>2. QED
        BY <2>1, CountSame
<1>10. Count(n, q)' = c
    BY <1>3, <1>8, <1>9 DEF Own
<1>11. Own(n)' = c + 1
    <2>1. Count(n, q + 1)' = Count(n, q)' + (IF trys'[q + 1].frames = n THEN 1 ELSE 0)
        BY <1>3, CountNextPrime
    <2>2. QED
        BY <1>5, <1>7, <1>10, <2>1 DEF Own
<1>12. PICK f, d : f = FloorOf(n) /\ d = Depth
    OBVIOUS
<1>13. f \in Nat /\ Len(stack) - f = d /\ d \in Nat
    BY <1>2, <1>12, StackFacts
<1>14. PICK p : p = <<Frame.ip, d, c>>
    OBVIOUS
<1>15. p \in ShapesOf(n) /\ Successors(Fun, p) \subseteq ShapesOf(n) /\ Fun = FrameFun(n)
       /\ Fun.code[Frame.ip] = I
    BY <1>1, <1>2, <1>8, <1>12, <1>14, HereCounted, Here
<1>16. HandlerPlaced(q + 1)'
    <2>1. /\ ShapesOf(n)' = ShapesOf(n) /\ FloorOf(n)' = FloorOf(n)
          /\ FrameFun(n)' = FrameFun(n)
        BY <1>2
    <2>2. /\ p \in ShapesOf(n)' /\ FrameFun(n)'.code[p[1]].op = "TRY_PUSH"
          /\ FrameFun(n)'.code[p[1]].x = t.target
        BY <1>1, <1>7, <1>14, <1>15, <2>1
    <2>3. p[2] = t.sp - FloorOf(n)' /\ p[3] = Count(n, q)'
        BY <1>7, <1>10, <1>12, <1>13, <1>14, <2>1
    <2>4. Count(n, q + 1 - 1)' = Count(n, q)'
        BY <1>3
    <2>5. PICK u : u = trys'[q + 1]
        OBVIOUS
    <2>6. u = t /\ u.frames = n
        BY <1>5, <1>7, <2>5
    <2>7. QED
        BY <2>2, <2>3, <2>4, <2>5, <2>6 DEF HandlerPlaced
<1>17. <<Frame.ip + 1, Len(stack') - FloorOf(n), Own(n)'>> \in ShapesOf(n)
    <2>1. Delta(I) = 0 /\ I.op \notin Ends /\ I.op \in Jumps
        BY <1>1, DepthTable DEF Ends, Jumps
    <2>2. <<Frame.ip + 1, d + 0, c + 1>> \in Successors(Fun, p)
        BY <1>1, <1>14, <1>15, <2>1 DEF Successors
    <2>3. <<Frame.ip + 1, d, c + 1>> \in ShapesOf(n)
        BY <1>13, <1>15, <2>2
    <2>4. Len(stack') - FloorOf(n) = d
        BY <1>1, <1>12, <1>13
    <2>5. QED
        BY <1>2, <1>11, <2>3, <2>4
<1>18. \A j \in (q + 1)..Len(trys) : trys[j].frames >= n
    BY <1>3
<1>19. \A j \in (q + 1)..(q + 1) : trys'[j].frames >= n /\ HandlerPlaced(j)'
    <2> TAKE j \in (q + 1)..(q + 1)
    <2>1. j = q + 1
        OBVIOUS
    <2>2. trys'[j].frames = n
        BY <1>5, <1>7, <2>1
    <2>3. QED
        BY <1>2, <1>16, <2>1, <2>2
<1>20. PICK l, ip : l = q + 1 /\ ip = Frame.ip + 1
    OBVIOUS
<1>21. /\ Go(ip) /\ Len(trys') = l /\ DOMAIN trys' = 1..l /\ q <= l /\ q <= Len(trys)
       /\ <<ip, Len(stack') - FloorOf(n), Own(n)'>> \in ShapesOf(n)
    BY <1>1, <1>3, <1>5, <1>6, <1>17, <1>20
<1>22. \A j \in (q + 1)..l : trys'[j].frames >= n /\ HandlerPlaced(j)'
    BY <1>19, <1>20
<1>23. n = Len(frames) /\ status # "done" /\ status' # "done"
    BY <1>1, <1>2
<1>24. \A j \in 1..q : trys'[j] = trys[j]
    BY <1>5
<1>25. prog' = prog
    BY <1>1
<1>26. QED
    BY <1>18, <1>21, <1>22, <1>23, <1>24, <1>25, MovedCounted

(* The frames above n and the handlers above q are gone, and n has gone    *)
(* where the loader found it with the handlers that are left.              *)
LEMMA CutCounted ==
    ASSUME Inv, Counted, status # "done", status' # "done", prog' = prog,
           NEW n \in DOMAIN frames, Sq(frames'), Len(frames') = n,
           \A i \in 1..n : frames'[i].fn = frames[i].fn /\ frames'[i].base = frames[i].base,
           \A i \in 1..n : i # n => frames'[i].ip = frames[i].ip,
           NEW ip, frames'[n].ip = ip,
           NEW q \in Nat, q <= Len(trys), Sq(trys'), Len(trys') = q,
           \A j \in 1..q : trys'[j] = trys[j] /\ trys[j].frames <= n,
           \A j \in (q + 1)..Len(trys) : trys[j].frames >= n,
           <<ip, Len(stack') - FloorOf(n), Count(n, q)>> \in ShapesOf(n)
    PROVE  Counted'
<1>1. n \in Nat /\ n \in 1..n
    BY Sizes
<1>2. DOMAIN frames' = 1..n /\ DOMAIN trys' = 1..q
    BY SqFacts
<1>3. \A j \in (q + 1)..q : FALSE
    OBVIOUS
<1>4. /\ \A i \in 1..n : i # n => FrameCounted(i)'
      /\ \A k \in 1..q : HandlerPlaced(k)'
      /\ \A i \in 1..n : /\ ShapesOf(i)' = ShapesOf(i) /\ FloorOf(i)' = FloorOf(i)
                         /\ FrameFun(i)' = FrameFun(i)
    <2>1. Len(frames') \in Nat /\ n <= Len(frames') /\ Len(trys') \in Nat /\ q <= Len(trys')
        BY <1>1
    <2>2. \A j \in (q + 1)..Len(trys') : trys'[j].frames >= n
        BY <1>3
    <2>3. QED
        BY <2>1, <2>2, BelowCounted
<1>5. Own(n)' = Count(n, q)
    <2>1. Count(n, q)' = Count(n, q)
        BY CountSame
    <2>2. QED
        BY <2>1 DEF Own
<1>6. FrameCounted(n)'
    <2>1. TopOf(n)' = Len(stack')
        BY DEF TopOf
    <2>2. ShapesOf(n)' = ShapesOf(n) /\ FloorOf(n)' = FloorOf(n)
        BY <1>1, <1>4
    <2>3. QED
        BY <1>5, <2>1, <2>2 DEF FrameCounted
<1>7. QED
    BY <1>2, <1>4, <1>6 DEF Counted

(* The verifier counts no handlers below none, so TRY_POP pops one that    *)
(* its own frame has set.                                                  *)
LEMMA TryPopCounted ==
    ASSUME Inv, Counted, TryPop
    PROVE  Counted'
<1>1. /\ I.op = "TRY_POP" /\ prog' = prog /\ status = "run" /\ status' = "run"
      /\ stack' = stack /\ Go(Frame.ip + 1) /\ trys' = Front(trys) /\ trys # <<>>
    BY NotRaised DEF TryPop, Can, Running, Advance, control
<1>2. PICK n \in Nat :
          /\ n = Len(frames) /\ DOMAIN frames = 1..n /\ n \in 1..n /\ Len(frames') = n
          /\ DOMAIN frames' = 1..n
          /\ \A i \in 1..n : /\ frames'[i].fn = frames[i].fn
                             /\ frames'[i].base = frames[i].base
                             /\ frames'[i].ip = IF i = n THEN Frame.ip + 1 ELSE frames[i].ip
    BY <1>1, Went
<1>3. PICK l \in Nat : l = Len(trys) /\ DOMAIN trys = 1..l
    BY Sizes
<1>4. Sq(trys)
    BY DEF Inv, HandlersOk
<1>5. PICK q \in Nat : /\ q = l - 1 /\ q <= l /\ q + 1 = l /\ Sq(trys') /\ Len(trys') = q
                       /\ \A j \in 1..q : trys'[j] = trys[j]
    BY <1>1, <1>3, <1>4, FrontOk
<1>6. \A j \in 1..l : trys[j].frames \in 1..n
    BY <1>2, <1>3 DEF Inv, HandlersOk, HandlerOk
<1>7. PICK c \in Nat : c = Own(n)
    BY <1>3, CountNat DEF Own
<1>8. PICK d \in Nat : d = Depth
    BY StackFacts
<1>9. PICK s : s = <<Frame.ip, d, c>>
    OBVIOUS
<1>10. /\ Successors(Fun, s) \subseteq ShapesOf(n) /\ Fun = FrameFun(n)
       /\ Fun.code[Frame.ip] = I
    BY <1>1, <1>2, <1>7, <1>8, <1>9, HereCounted, Here
<1>11. Delta(I) = 0 /\ I.op \notin Ends /\ I.op \notin Jumps
    BY <1>1, DepthTable DEF Ends, Jumps
<1>12. <<Frame.ip + 1, d + 0, c - 1>> \in Successors(Fun, s)
    BY <1>1, <1>9, <1>10, <1>11 DEF Successors
<1>13. PICK u \in ShapesOf(n) : u = <<Frame.ip + 1, d, c - 1>>
    BY <1>8, <1>10, <1>12
<1>14. c - 1 >= 0
    <2>1. ShapeOk(FrameFun(n), u)
        BY <1>2, <1>13, AtFrame DEF Accepted, VerifyPass2, ShapesOf
    <2>2. u[3] \in 0..256
        BY <2>1 DEF ShapeOk, MaxTryDepth
    <2>3. QED
        BY <1>7, <1>13, <2>2
<1>15. trys[l].frames = n
    <2>1. PICK j \in 1..l : trys[j].frames = n
        BY <1>3, <1>7, <1>14, CountSome DEF Own
    <2>2. j = l \/ trys[j].frames <= trys[l].frames
        BY <1>3, <2>1 DEF Inv, HandlersOk
    <2>3. trys[l].frames \in 1..n
        BY <1>6, <2>1
    <2>4. QED
        BY <2>1, <2>2, <2>3
<1>16. Count(n, q) = c - 1
    <2>1. Count(n, q + 1) = Count(n, q) + 1
        BY <1>5, <1>15, CountNext
    <2>2. Count(n, q) \in Nat
        BY CountNat
    <2>3. QED
        BY <1>3, <1>5, <1>7, <2>1, <2>2 DEF Own
<1>17. Len(stack') - FloorOf(n) = d
    BY <1>1, <1>2, <1>8, StackFacts
<1>18. PICK ip : ip = Frame.ip + 1
    OBVIOUS
<1>19. <<ip, Len(stack') - FloorOf(n), Count(n, q)>> \in ShapesOf(n)
    BY <1>13, <1>16, <1>17, <1>18
<1>20. /\ \A j \in 1..q : trys'[j] = trys[j] /\ trys[j].frames <= n
       /\ \A j \in (q + 1)..Len(trys) : trys[j].frames >= n
    <2>1. \A j \in 1..q : trys[j].frames \in 1..n
        BY <1>3, <1>5, <1>6
    <2>2. \A j \in (q + 1)..l : trys[j].frames = n
        BY <1>5, <1>15
    <2>3. QED
        BY <1>2, <1>3, <1>5, <2>1, <2>2
<1>21. n \in DOMAIN frames /\ status # "done" /\ status' # "done" /\ q <= Len(trys)
    BY <1>1, <1>2, <1>3, <1>5
<1>22. Sq(frames')
    <2>1. Sq(frames) /\ frames' = [frames EXCEPT ![n] = [frames[n] EXCEPT !.ip = ip]]
        BY <1>1, <1>2, <1>18 DEF Inv, FramesOk, Go
    <2>2. QED
        BY <2>1, SqExcept
<1>23. frames'[n].ip = ip
    BY <1>2, <1>18
<1>24. \A i \in 1..n : i # n => frames'[i].ip = frames[i].ip
    BY <1>2
<1>25. \A i \in 1..n : frames'[i].fn = frames[i].fn /\ frames'[i].base = frames[i].base
    BY <1>2
<1>26. QED
    BY <1>1, <1>2, <1>5, <1>19, <1>20, <1>21, <1>22, <1>23, <1>24, <1>25, CutCounted

(* An error goes to the newest handler, with the handlers before it.       *)
LEMMA ErrorCounted ==
    ASSUME Inv, Counted, status # "done", NEW e, OnError(e), prog' = prog
    PROVE  Counted'
<1>1. CASE trys = <<>>
    <2>1. UNCHANGED <<prog, frames, trys>> /\ stack' = stack /\ status' = "error"
        BY <1>1 DEF OnError
    <2>2. QED
        BY <2>1, SameCounted
<1>2. CASE trys # <<>>
    <2>1. PICK l \in Nat : /\ l = Len(trys) /\ DOMAIN trys = 1..l /\ l \in 1..l /\ Sq(trys)
                           /\ Last(trys) = trys[l]
        BY <1>2, Sizes, FrontOk DEF Inv, HandlersOk
    <2>2. PICK t : t = trys[l]
        OBVIOUS
    <2>3. PICK n \in DOMAIN frames : n = t.frames
        BY <2>1, <2>2 DEF Inv, HandlersOk, HandlerOk
    <2>4. PICK sp \in Nat : sp = t.sp
        BY <2>1, <2>2 DEF Inv, HandlersOk, HandlerOk
    <2>5. /\ frames' = [SubSeq(frames, 1, n) EXCEPT ![n].ip = t.target]
          /\ stack' = Append(CutTo(sp), e) /\ trys' = Front(trys) /\ status' = "run"
        BY <1>2, <2>1, <2>2, <2>3, <2>4 DEF OnError, HandlersLeft
    <2>6. Len(stack') = sp + 1
        <3>1. Good(CutTo(sp), NC, NO) /\ Len(CutTo(sp)) = sp
            BY CutLive
        <3>2. PICK c : c = CutTo(sp)
            OBVIOUS
        <3>3. QED
            BY <2>5, <3>1, <3>2, SqAppend DEF Good
    <2>7. PICK q \in Nat : /\ q = l - 1 /\ q <= l /\ q + 1 = l /\ Sq(trys') /\ Len(trys') = q
                           /\ \A j \in 1..q : trys'[j] = trys[j]
        BY <1>2, <2>1, <2>5, FrontOk
    <2>8. <<t.target, sp + 1 - FloorOf(n), Count(n, q)>> \in ShapesOf(n)
        <3>1. HandlerPlaced(l)
            BY <2>1 DEF Counted
        <3>2. QED
            BY <2>1, <2>2, <2>3, <2>4, <2>7, <3>1, HandlerCounted
    <2>9. n \in Nat /\ n >= 1 /\ n <= Len(frames) /\ n \in 1..n /\ Len(frames) \in Nat
        BY Sizes
    <2>10. PICK kept : kept = SubSeq(frames, 1, n)
        OBVIOUS
    <2>11. Sq(kept) /\ Len(kept) = n /\ \A i \in 1..n : kept[i] = frames[i]
        <3>1. Sq(frames)
            BY DEF Inv, FramesOk
        <3>2. /\ Sq(SubSeq(frames, 1, n))
              /\ Len(SubSeq(frames, 1, n)) = IF 1 <= n THEN n - 1 + 1 ELSE 0
              /\ \A i \in 1..Len(SubSeq(frames, 1, n)) :
                    SubSeq(frames, 1, n)[i] = frames[1 + i - 1]
            BY <2>9, <3>1, SqSub
        <3>3. Len(kept) = n
            BY <2>9, <2>10, <3>2
        <3>4. QED
            BY <2>9, <2>10, <3>2, <3>3
    <2>12. PICK v : v = [kept[n] EXCEPT !.ip = t.target]
        OBVIOUS
    <2>13. v.ip = t.target /\ v.fn = frames[n].fn /\ v.base = frames[n].base
        BY <2>9, <2>11, <2>12 DEF Inv, FramesOk, FrameOk
    <2>14. /\ Sq(frames') /\ Len(frames') = n
           /\ \A i \in 1..n : frames'[i] = IF i = n THEN v ELSE kept[i]
        <3>1. frames' = [kept EXCEPT ![n] = v]
            BY <2>5, <2>10, <2>12
        <3>2. /\ Sq([kept EXCEPT ![n] = v]) /\ Len([kept EXCEPT ![n] = v]) = Len(kept)
              /\ \A i \in DOMAIN kept : [kept EXCEPT ![n] = v][i] = IF i = n THEN v ELSE kept[i]
            BY <2>11, SqExcept
        <3>3. DOMAIN kept = 1..n
            BY <2>11, SqFacts
        <3>4. QED
            BY <2>11, <3>1, <3>2, <3>3
    <2>15. /\ \A i \in 1..n : frames'[i].fn = frames[i].fn /\ frames'[i].base = frames[i].base
           /\ \A i \in 1..n : i # n => frames'[i].ip = frames[i].ip
        BY <2>11, <2>13, <2>14
    <2>16. PICK ip : ip = t.target
        OBVIOUS
    <2>17. frames'[n].ip = ip /\ status' # "done" /\ q <= Len(trys)
        BY <2>1, <2>5, <2>7, <2>9, <2>13, <2>14, <2>16
    <2>18. <<ip, Len(stack') - FloorOf(n), Count(n, q)>> \in ShapesOf(n)
        <3>1. PICK h, f : h = Len(stack') /\ f = FloorOf(n)
            OBVIOUS
        <3>2. h - f = sp + 1 - f
            <4>1. f \in Nat
                BY <3>1, AtFrame
            <4>2. QED
                BY <2>6, <3>1, <4>1
        <3>3. QED
            BY <2>8, <2>16, <3>1, <3>2
    <2>19. /\ \A j \in 1..q : trys'[j] = trys[j] /\ trys[j].frames <= n
           /\ \A j \in (q + 1)..Len(trys) : trys[j].frames >= n
        <3>1. \A j \in 1..q : trys[j].frames <= n
            <4> TAKE j \in 1..q
            <4>1. j \in 1..l /\ j < l
                BY <2>7
            <4>2. QED
                BY <2>1, <2>2, <2>3, <4>1 DEF Inv, HandlersOk
        <3>2. \A j \in (q + 1)..l : trys[j].frames = n
            BY <2>2, <2>3, <2>7
        <3>3. QED
            BY <2>1, <2>7, <2>9, <3>1, <3>2
    <2>20. QED
        BY <2>7, <2>14, <2>15, <2>17, <2>18, <2>19, CutCounted
<1>3. QED
    BY <1>1, <1>2

(* A return leaves the caller and its handlers as the call has found them. *)
LEMMA ReturnCounted ==
    ASSUME Inv, Counted, ReturnOp
    PROVE  Counted'
<1>1. PICK v : v = IF Frame.construct /\ Peek(0)[1] # "obj" THEN stack[Frame.base] ELSE Peek(0)
    OBVIOUS
<1>2. /\ prog' = prog /\ trys' = HandlersBelow /\ status = "run"
      /\ IF Len(frames) = 1 THEN status' = "done"
         ELSE /\ frames' = Front(frames) /\ status' = status
              /\ stack' = Append(SubSeq(stack, 1, Frame.base - 2), v)
    BY <1>1 DEF ReturnOp, Can, Running, control
<1>3. PICK n \in Nat : n = Len(frames) /\ n >= 1 /\ DOMAIN frames = 1..n /\ n \in DOMAIN frames
    <2>1. PICK m \in Nat : m = Len(frames) /\ DOMAIN frames = 1..m /\ m \in DOMAIN frames
        BY Sizes
    <2>2. m >= 1
        BY <2>1
    <2>3. QED
        BY <2>1, <2>2
<1>4. PICK q \in Nat : /\ q <= Len(trys) /\ Sq(trys') /\ Len(trys') = q
                       /\ \A j \in 1..q : trys'[j] = trys[j] /\ trys[j].frames < n
                       /\ \A j \in (q + 1)..Len(trys) : trys[j].frames >= n
    BY <1>2, <1>3, BelowOk, InvStacked
<1>5. PICK l \in Nat : l = Len(trys) /\ DOMAIN trys = 1..l
    BY Sizes
<1>6. \A j \in 1..l : trys[j].frames \in 1..n
    BY <1>3, <1>5 DEF Inv, HandlersOk, HandlerOk
<1>7. CASE n = 1
    <2>1. status' = "done"
        BY <1>2, <1>3, <1>7
    <2>2. q = 0
        <3> SUFFICES ASSUME q # 0 PROVE FALSE
            OBVIOUS
        <3>1. 1 \in 1..q /\ 1 \in 1..l
            BY <1>4, <1>5
        <3>2. trys[1].frames \in 1..n /\ trys[1].frames < n
            BY <1>4, <1>6, <3>1
        <3>3. QED
            BY <1>7, <3>2
    <2>3. trys' = <<>>
        BY <1>4, <2>2, EmptySeq DEF Sq
    <2>4. QED
        BY <2>1, <2>3 DEF Counted
<1>8. CASE n # 1
    <2>1. PICK k \in Nat : k = n - 1 /\ k + 1 = n /\ k >= 1 /\ k \in DOMAIN frames /\ k \in 1..k
        BY <1>3, <1>8
    <2>2. PICK base \in Nat : base = Frame.base /\ base >= 2 /\ base = frames[n].base
        BY <1>3, Here
    <2>3. base <= Len(stack) /\ Len(stack) \in Nat
        <3>1. PICK f : f = FloorOf(Len(frames))
            OBVIOUS
        <3>2. f = base + Fun.nLocals /\ Fun.nLocals \in Nat
            BY <2>2, <3>1, Here
        <3>3. Len(stack) >= f /\ Len(stack) \in Nat
            BY <3>1, StackFacts
        <3>4. QED
            BY <3>2, <3>3
    <2>4. /\ frames' = Front(frames) /\ status' # "done"
          /\ stack' = Append(SubSeq(stack, 1, base - 2), v)
        BY <1>2, <1>3, <1>8, <2>2
    <2>5. Sq(frames) /\ frames # <<>>
        BY DEF Inv, FramesOk
    <2>6. Sq(frames') /\ Len(frames') = k /\ \A i \in 1..k : frames'[i] = frames[i]
        BY <1>3, <2>1, <2>4, <2>5, FrontOk
    <2>7. Len(stack') = base - 1
        <3>1. PICK m \in Nat : m = base - 2 /\ m <= Len(stack)
            BY <2>2, <2>3
        <3>2. /\ Good(SubSeq(stack, 1, m), NC, NO)
              /\ Len(SubSeq(stack, 1, m)) = IF 1 <= m THEN m - 1 + 1 ELSE 0
            BY <3>1, StackFacts, GoodSub
        <3>3. PICK s : s = SubSeq(stack, 1, m)
            OBVIOUS
        <3>4. Sq(s) /\ Len(s) = m
            BY <3>1, <3>2, <3>3 DEF Good
        <3>5. Len(Append(s, v)) = m + 1
            BY <3>4, SqAppend
        <3>6. m + 1 = base - 1
            BY <2>2, <3>1
        <3>7. QED
            BY <2>4, <3>1, <3>3, <3>5, <3>6
    <2>8. TopOf(k) = Len(stack')
        BY <1>3, <2>1, <2>2, <2>7 DEF TopOf
    <2>9. Own(k) = Count(k, q)
        <3>1. \A j \in (q + 1)..l : trys[j].frames # k
            <4> SUFFICES ASSUME NEW j \in (q + 1)..l, trys[j].frames = k PROVE FALSE
                OBVIOUS
            <4>1. k >= n
                BY <1>4, <1>5
            <4>2. QED
                BY <2>1, <4>1
        <3>2. QED
            BY <1>4, <1>5, <3>1, CountRest DEF Own
    <2>10. FrameCounted(k)
        BY <1>2, <2>1 DEF Counted
    <2>11. PICK ip : ip = frames[k].ip
        OBVIOUS
    <2>12. <<ip, Len(stack') - FloorOf(k), Count(k, q)>> \in ShapesOf(k)
        BY <2>8, <2>9, <2>10, <2>11 DEF FrameCounted
    <2>13. /\ \A j \in 1..q : trys'[j] = trys[j] /\ trys[j].frames <= k
           /\ \A j \in (q + 1)..Len(trys) : trys[j].frames >= k
        <3>1. \A j \in 1..q : trys[j].frames <= k
            <4> TAKE j \in 1..q
            <4>1. j \in 1..l
                BY <1>4, <1>5
            <4>2. trys[j].frames \in 1..n /\ trys[j].frames < n
                BY <1>4, <1>6, <4>1
            <4>3. QED
                BY <2>1, <4>2
        <3>2. \A j \in (q + 1)..l : trys[j].frames >= k
            <4> TAKE j \in (q + 1)..l
            <4>1. j \in 1..l
                BY <1>4, <1>5
            <4>2. trys[j].frames \in 1..n /\ trys[j].frames >= n
                BY <1>4, <1>5, <1>6, <4>1
            <4>3. QED
                BY <2>1, <4>2
        <3>3. QED
            BY <1>4, <1>5, <3>1, <3>2
    <2>14. /\ \A i \in 1..k : frames'[i].fn = frames[i].fn /\ frames'[i].base = frames[i].base
           /\ \A i \in 1..k : i # k => frames'[i].ip = frames[i].ip
           /\ frames'[k].ip = ip
        BY <2>1, <2>6, <2>11
    <2>15. status # "done"
        BY <1>2
    <2>16. QED
        BY <1>2, <1>4, <2>1, <2>4, <2>6, <2>12, <2>13, <2>14, <2>15, CutCounted
<1>9. QED
    BY <1>7, <1>8

(* What a call leaves on the stack.                                        *)
LEMMA EnterShape ==
    ASSUME Inv, I.op \in CallOps, Raised = NoError, NEW c \in DOMAIN closures, NEW h, NEW this,
           NEW construct, Enter(c, h, this, construct)
    PROVE  /\ Len(stack') = CalleeAt + 1 + Protos[closures[c].fn].nLocals
           /\ frames' = Append([frames EXCEPT ![Len(frames)].ip = @ + 1],
                               [fn |-> closures[c].fn, closure |-> c, ip |-> 1,
                                base |-> CalleeAt + 1, construct |-> construct])
           /\ trys' = trys /\ status' = status /\ closures[c].fn \in DOMAIN Protos
           /\ CalleeAt + 1 \in Nat
<1> DEFINE f == Protos[closures[c].fn]
           s == SubSeq(stack, 1, CalleeAt) \o <<this>>
           b == Bound(f, Args, Len(h) + 1)
<1>1. closures[c].fn \in DOMAIN Protos
    BY DEF Inv, ClosuresOk, ClosureOk
<1>2. f.nLocals \in Nat
    BY <1>1, Loaded DEF Inv, FunctionRead
<1>3. /\ stack' = s \o b
      /\ frames' = Append([frames EXCEPT ![Len(frames)].ip = @ + 1],
                          [fn |-> closures[c].fn, closure |-> c, ip |-> 1,
                           base |-> Len(s), construct |-> construct])
      /\ trys' = trys /\ status' = status
    BY DEF Enter, Protos
<1>4. PICK at \in Nat : at = CalleeAt /\ at >= 3 /\ at <= Len(stack)
    <2>1. CalleeAt \in Nat /\ CalleeAt >= 3 /\ CalleeAt + 1 <= Len(stack)
        BY CallStack
    <2>2. PICK at \in Nat : at = CalleeAt /\ at >= 3 /\ at + 1 <= Len(stack)
        BY <2>1
    <2>3. at <= Len(stack)
        BY <2>2, StackFacts
    <2>4. QED
        BY <2>2, <2>3
<1>5. Sq(s) /\ Len(s) = at + 1
    <2>1. /\ Good(SubSeq(stack, 1, at), NC, NO)
          /\ Len(SubSeq(stack, 1, at)) = IF 1 <= at THEN at - 1 + 1 ELSE 0
        BY <1>4, StackFacts, GoodSub
    <2>2. PICK low : low = SubSeq(stack, 1, at)
        OBVIOUS
    <2>3. Sq(low) /\ Len(low) = at
        BY <1>4, <2>1, <2>2 DEF Good
    <2>4. PICK one : one = <<this>> /\ Sq(one) /\ Len(one) = 1
        BY SqTuples
    <2>5. Sq(low \o one) /\ Len(low \o one) = at + 1
        BY <2>3, <2>4, SqCat
    <2>6. QED
        BY <1>4, <2>2, <2>4, <2>5
<1>6. Sq(b) /\ Len(b) = f.nLocals
    <2>1. DOMAIN b = 1..f.nLocals /\ b = [i \in 1..f.nLocals |-> b[i]]
        BY DEF Bound
    <2> HIDE DEF b
    <2>2. QED
        BY <1>2, <2>1, SqFunction
<1> HIDE DEF f, s, b
<1>7. Len(stack') = at + 1 + f.nLocals
    <2>1. PICK x, y : x = s /\ y = b
        OBVIOUS
    <2>2. Len(x \o y) = Len(x) + Len(y)
        BY <1>5, <1>6, <2>1, SqCat
    <2>3. QED
        BY <1>3, <1>5, <1>6, <2>1, <2>2
<1>8. QED
    BY <1>1, <1>3, <1>4, <1>5, <1>7 DEF f

(* A call leaves its caller where it will return to, and begins where      *)
(* every function does.                                                    *)
LEMMA EnterCounted ==
    ASSUME Inv, Counted, I.op \in CallOps, Raised = NoError, status = "run", prog' = prog,
           NEW c \in DOMAIN closures, NEW h, NEW this, NEW construct,
           Enter(c, h, this, construct)
    PROVE  Counted'
<1> DEFINE new == [fn |-> closures[c].fn, closure |-> c, ip |-> 1,
                   base |-> CalleeAt + 1, construct |-> construct]
           moved == [frames[Len(frames)] EXCEPT !.ip = @ + 1]
<1>1. /\ Len(stack') = CalleeAt + 1 + Protos[closures[c].fn].nLocals
      /\ frames' = Append([frames EXCEPT ![Len(frames)].ip = @ + 1], new)
      /\ trys' = trys /\ status' = "run" /\ closures[c].fn \in DOMAIN Protos
      /\ CalleeAt + 1 \in Nat
    BY EnterShape
<1>2. PICK n \in Nat : n = Len(frames) /\ n >= 1 /\ DOMAIN frames = 1..n /\ n \in DOMAIN frames
    <2>1. PICK m \in Nat : m = Len(frames) /\ DOMAIN frames = 1..m /\ m \in DOMAIN frames
        BY Sizes
    <2>2. m >= 1
        BY <2>1
    <2>3. QED
        BY <2>1, <2>2
<1>3. moved.fn = frames[n].fn /\ moved.base = frames[n].base /\ moved.ip = Frame.ip + 1
    <2>1. FrameOk(frames[n]) /\ Frame = frames[n]
        BY <1>2, Here DEF Inv, FramesOk
    <2>2. PICK x : x = frames[n]
        OBVIOUS
    <2>3. x = [fn |-> x.fn, closure |-> x.closure, ip |-> x.ip, base |-> x.base,
               construct |-> x.construct] /\ moved = [x EXCEPT !.ip = @ + 1] /\ Frame = x
        BY <1>2, <2>1, <2>2 DEF FrameOk
    <2>4. [x EXCEPT !.ip = @ + 1] =
              [fn |-> x.fn, closure |-> x.closure, ip |-> x.ip + 1, base |-> x.base,
               construct |-> x.construct]
        BY <2>3
    <2>5. QED
        BY <2>2, <2>3, <2>4
<1>4. frames' = Append([frames EXCEPT ![n] = moved], new)
    BY <1>1, <1>2
<1>5. new.fn = closures[c].fn /\ new.ip = 1 /\ new.base = CalleeAt + 1
    OBVIOUS
<1> HIDE DEF new, moved
<1>6. /\ Sq(frames') /\ Len(frames') = n + 1 /\ DOMAIN frames' = 1..(n + 1)
      /\ \A i \in 1..n : frames'[i] = IF i = n THEN moved ELSE frames[i]
      /\ frames'[n + 1] = new
    <2>1. Sq(frames)
        BY DEF Inv, FramesOk
    <2>2. PICK g : g = [frames EXCEPT ![n] = moved]
        OBVIOUS
    <2>3. Sq(g) /\ Len(g) = n /\ \A i \in 1..n : g[i] = IF i = n THEN moved ELSE frames[i]
        <3>1. /\ Sq([frames EXCEPT ![n] = moved])
              /\ Len([frames EXCEPT ![n] = moved]) = Len(frames)
              /\ \A i \in DOMAIN frames :
                    [frames EXCEPT ![n] = moved][i] = IF i = n THEN moved ELSE frames[i]
            BY <2>1, SqExcept
        <3>2. QED
            BY <1>2, <2>2, <3>1
    <2>4. /\ Sq(frames') /\ Len(frames') = n + 1
          /\ \A i \in 1..n : frames'[i] = g[i]
          /\ frames'[n + 1] = new
        BY <1>4, <2>2, <2>3, SqAppend
    <2>5. DOMAIN frames' = 1..(n + 1)
        BY <2>4, SqFacts
    <2>6. QED
        BY <2>3, <2>4, <2>5
<1>7. PICK q \in Nat : q = Len(trys) /\ DOMAIN trys = 1..q
    BY Sizes
<1>8. \A j \in 1..q : trys[j].frames \in 1..n
    BY <1>2, <1>7 DEF Inv, HandlersOk, HandlerOk
<1>9. \A j \in (q + 1)..q : FALSE
    OBVIOUS
<1>10. /\ \A i \in 1..n : i # n => FrameCounted(i)'
       /\ \A k \in 1..q : HandlerPlaced(k)'
       /\ \A i \in 1..n : /\ ShapesOf(i)' = ShapesOf(i) /\ FloorOf(i)' = FloorOf(i)
                          /\ FrameFun(i)' = FrameFun(i)
    <2>1. Len(frames') \in Nat /\ n <= Len(frames')
        BY <1>6
    <2>2. /\ \A i \in 1..n : frames'[i].fn = frames[i].fn /\ frames'[i].base = frames[i].base
          /\ \A i \in 1..n : i # n => frames'[i].ip = frames[i].ip
        BY <1>3, <1>6
    <2>3. q <= Len(trys) /\ Len(trys') \in Nat /\ q <= Len(trys')
        BY <1>1, <1>7
    <2>4. \A j \in 1..q : trys'[j] = trys[j] /\ trys[j].frames <= n
        <3>1. \A j \in 1..q : trys[j].frames <= n
            <4> TAKE j \in 1..q
            <4>1. trys[j].frames \in 1..n
                BY <1>8
            <4>2. QED
                BY <4>1
        <3>2. QED
            BY <1>1, <3>1
    <2>5. /\ \A j \in (q + 1)..Len(trys) : trys[j].frames >= n
          /\ \A j \in (q + 1)..Len(trys') : trys'[j].frames >= n
        BY <1>1, <1>7, <1>9
    <2>6. n \in DOMAIN frames /\ status # "done"
        BY <1>2
    <2>7. QED
        BY <2>1, <2>2, <2>3, <2>4, <2>5, <2>6, BelowCounted
<1>11. PICK s : s = <<Frame.ip, Depth, Own(n)>>
    OBVIOUS
<1>12. Successors(Fun, s) \subseteq ShapesOf(n) /\ Fun.code[Frame.ip] = I
    BY <1>2, <1>11, Here, HereCounted
<1>13. I.op \notin Apart
    BY DEF Apart, CallOps, Ends
<1>14. <<Frame.ip + 1, Depth + Delta(I), Own(n)>> \in ShapesOf(n)
    <2>1. <<Frame.ip + 1, Depth + Delta(I), Own(n)>> \in Successors(Fun, s)
        BY <1>11, <1>12, <1>13 DEF Successors, Apart
    <2>2. QED
        BY <1>12, <2>1
<1>15. FrameCounted(n)'
    <2>1. n # Len(frames') /\ n \in 1..n
        BY <1>2, <1>6
    <2>2. TopOf(n)' = frames'[n + 1].base - 1
        BY <2>1 DEF TopOf
    <2>3. PICK at, f, d : at = CalleeAt /\ f = FloorOf(n) /\ d = Depth + Delta(I)
        OBVIOUS
    <2>4. at \in Nat /\ at - f = d
        BY <1>2, <2>3, CallStack
    <2>5. TopOf(n)' = at
        BY <1>5, <1>6, <2>2, <2>3, <2>4
    <2>6. Own(n)' = Own(n)
        BY <1>1 DEF Own, Count
    <2>7. frames'[n].ip = Frame.ip + 1
        BY <1>3, <1>6, <2>1
    <2>8. ShapesOf(n)' = ShapesOf(n) /\ FloorOf(n)' = FloorOf(n)
        BY <1>10, <2>1
    <2>9. TopOf(n)' - FloorOf(n)' = d
        BY <2>3, <2>4, <2>5, <2>8
    <2>10. QED
        BY <1>14, <2>3, <2>6, <2>7, <2>8, <2>9 DEF FrameCounted
<1>16. FrameCounted(n + 1)'
    <2>1. TopOf(n + 1)' = Len(stack')
        BY <1>6 DEF TopOf
    <2>2. /\ frames'[n + 1].fn = closures[c].fn /\ frames'[n + 1].ip = 1
          /\ frames'[n + 1].base = CalleeAt + 1
        BY <1>5, <1>6
    <2>3. FrameFun(n + 1)' = Protos[closures[c].fn]
        BY <2>2 DEF FrameFun, Protos
    <2>4. FloorOf(n + 1)' = Len(stack')
        BY <1>1, <2>2, <2>3 DEF FloorOf
    <2>5. Len(stack') \in Nat
        <3>1. Protos[closures[c].fn].nLocals \in Nat
            BY <1>1, Loaded DEF Inv, FunctionRead
        <3>2. QED
            BY <1>1, <3>1
    <2>6. TopOf(n + 1)' - FloorOf(n + 1)' = 0
        BY <2>1, <2>4, <2>5
    <2>7. Own(n + 1)' = 0
        <3>1. \A j \in 1..q : trys'[j].frames # n + 1
            BY <1>1, <1>2, <1>8
        <3>2. {j \in 1..Len(trys') : trys'[j].frames = n + 1} = {}
            BY <1>1, <1>7, <3>1
        <3>3. QED
            BY <3>2, FS_EmptySet DEF Own, Count
    <2>8. ShapesOf(n + 1)' = Verified[prog][closures[c].fn].shapes
        BY <2>2 DEF ShapesOf
    <2>9. <<1, 0, 0>> \in Verified[prog][closures[c].fn].shapes
        BY <1>1, Loaded DEF Inv, Accepted
    <2>10. QED
        BY <2>2, <2>6, <2>7, <2>8, <2>9 DEF FrameCounted
<1>17. \A i \in DOMAIN frames' : FrameCounted(i)'
    <2> TAKE i \in DOMAIN frames'
    <2>1. i \in 1..n \/ i = n + 1
        BY <1>6
    <2>2. QED
        BY <1>10, <1>15, <1>16, <2>1
<1>18. QED
    BY <1>1, <1>7, <1>10, <1>17 DEF Counted

(* The program from its first instruction on.                              *)
LEMMA InitCounted ==
    ASSUME Init, Inv
    PROVE  Counted
<1>1. PICK main, l : main = Len(Code[prog].protos) /\ l = Code[prog].protos[main].nLocals
    OBVIOUS
<1>2. /\ frames = <<[fn |-> main, closure |-> 1, ip |-> 1, base |-> 2, construct |-> FALSE]>>
      /\ trys = <<>> /\ status = "run"
    BY <1>1 DEF Init
<1>3. Len(frames) = 1 /\ DOMAIN frames = {1} /\ frames[1].fn = main /\ frames[1].ip = 1
    BY <1>2
<1>4. main \in DOMAIN Protos
    BY <1>3, AtFrame
<1>5. <<1, 0, 0>> \in ShapesOf(1)
    BY <1>3, <1>4, Loaded DEF Inv, Accepted, ShapesOf
<1>6. TopOf(1) - FloorOf(1) = 0
    <2>1. Len(stack) = 2 + l /\ l \in Nat
        <3>1. l \in Nat
            BY <1>1, <1>4, Loaded DEF Inv, FunctionRead, Protos
        <3>2. PICK s, u : s = [i \in 1..l |-> Undefined] /\ u = <<Fn(1), Undefined>>
            OBVIOUS
        <3>3. stack = u \o s
            BY <1>1, <3>2 DEF Init
        <3>4. Sq(s) /\ Len(s) = l
            BY <3>1, <3>2, SqFunction
        <3>5. Sq(u) /\ Len(u) = 2
            BY <3>2, SqTuples
        <3>6. Len(u \o s) = Len(u) + Len(s)
            BY <3>4, <3>5, SqCat
        <3>7. QED
            BY <3>1, <3>3, <3>4, <3>5, <3>6
    <2>2. FloorOf(1) = 2 + l
        BY <1>1, <1>2, <1>3 DEF FloorOf, FrameFun
    <2>3. TopOf(1) = Len(stack)
        BY <1>3 DEF TopOf
    <2>4. QED
        BY <2>1, <2>2, <2>3
<1>7. Own(1) = 0
    <2>1. {j \in 1..Len(trys) : trys[j].frames = 1} = {}
        BY <1>2
    <2>2. QED
        BY <2>1, FS_EmptySet DEF Own, Count
<1>8. FrameCounted(1)
    BY <1>3, <1>5, <1>6, <1>7 DEF FrameCounted
<1>9. QED
    BY <1>2, <1>3, <1>8 DEF Counted

(* Each step of a program the loader vouches for keeps it.                 *)
LEMMA StepCounted ==
    ASSUME Inv, Vouched, CountsSettled, Counted, [Next]_vars
    PROVE  Counted'
<1>1. CASE Compute \/ SetUpval \/ SetGlobal \/ CloseUpvals \/ Suspend
    BY <1>1, StackOnward, OnwardKeeps
<1>2. CASE \/ NewObject \/ NewArray \/ ArrayRest \/ Write
         \/ GetPrototype \/ SetPrototype \/ MakeClosure
    BY <1>2, ObjectOnward, OnwardKeeps
<1>3. CASE Jump
    BY <1>3, JumpCounted
<1>4. CASE RetSub
    BY <1>4, RetSubCounted
<1>5. CASE TryPush
    BY <1>5, TryPushCounted
<1>6. CASE TryPop
    BY <1>6, TryPopCounted
<1>7. CASE ReturnOp
    BY <1>7, ReturnCounted
<1>8. CASE Raise
    <2>1. PICK e : e = Raised
        OBVIOUS
    <2>2. OnError(e) /\ prog' = prog /\ status # "done"
        BY <1>8, <2>1 DEF Raise, Running, control
    <2>3. QED
        BY <2>2, ErrorCounted
<1>9. CASE CallClosure
    <2>1. I.op \in CallOps /\ Raised = NoError /\ Callee[1] = "fn" /\ prog' = prog
          /\ status = "run" /\ Enter(Callee[2], heap, stack[CalleeAt + 1], FALSE)
        BY <1>9 DEF CallClosure, Can, Running, CallOps, Enter, control
    <2>2. Live(Callee, NC, NO)
        BY <2>1, CallStack
    <2>3. PICK c \in DOMAIN closures : c = Callee[2]
        BY <2>1, <2>2, Sizes DEF Live
    <2>4. PICK h, this, construct : Enter(c, h, this, construct)
        BY <2>1, <2>3
    <2>5. QED
        BY <2>1, <2>4, EnterCounted
<1>10. CASE Construct
    <2>1. PICK h, this, construct :
              /\ I.op \in CallOps /\ Raised = NoError /\ Callee[1] = "fn" /\ prog' = prog
              /\ status = "run" /\ Enter(Callee[2], h, this, construct)
        BY <1>10 DEF Construct, Can, Running, CallOps, Enter, control
    <2>2. Live(Callee, NC, NO)
        BY <2>1, CallStack
    <2>3. PICK c \in DOMAIN closures : c = Callee[2]
        BY <2>1, <2>2, Sizes DEF Live
    <2>4. Enter(c, h, this, construct)
        BY <2>1, <2>3
    <2>5. QED
        BY <2>1, <2>4, EnterCounted
<1>11. CASE CallLog \/ CallHostOver
    <2>1. PICK v : Returns(v)
        BY <1>11 DEF CallLog, CallHostOver
    <2>2. I.op \in CallOps /\ Raised = NoError /\ prog' = prog /\ status = "run"
        BY <1>11 DEF CallLog, CallHostOver, Calls, Can, Running, CallOps
    <2>3. QED
        BY <2>1, <2>2, ReturnsOnward, OnwardKeeps
<1>12. CASE CallHost
    <2>1. PICK v : Returns(v) \/ OnError(v)
        BY <1>12 DEF CallHost
    <2>2. I.op \in CallOps /\ Raised = NoError /\ prog' = prog /\ status = "run"
        BY <1>12 DEF CallHost, Calls, Can, Running, CallOps
    <2>3. CASE Returns(v)
        BY <2>2, <2>3, ReturnsOnward, OnwardKeeps
    <2>4. CASE OnError(v)
        <3>1. status # "done"
            BY <2>2
        <3>2. QED
            BY <2>2, <2>4, <3>1, ErrorCounted
    <2>5. QED
        BY <2>1, <2>3, <2>4
<1>13. CASE Resume
    <2>1. prog' = prog /\ status = "suspended"
        BY <1>13 DEF Resume
    <2>2. PICK v : \/ OnError(v)
                   \/ /\ stack' = Append(Drop(1), v) /\ status' = "run"
                      /\ UNCHANGED <<frames, trys>>
        BY <1>13 DEF Resume
    <2>3. CASE OnError(v)
        BY <2>1, <2>3, ErrorCounted
    <2>4. CASE stack' = Append(Drop(1), v) /\ status' = "run" /\ UNCHANGED <<frames, trys>>
        <3>1. 1 \in Nat /\ 1 <= Len(stack) /\ Len(stack) \in Nat
            BY StackFacts
        <3>2. Len(stack') = Len(stack) - 1 + 1
            BY <2>4, <3>1, Replaced
        <3>3. Len(stack') = Len(stack) /\ status # "done" /\ status' # "done"
            BY <2>1, <2>4, <3>1, <3>2
        <3>4. UNCHANGED <<prog, frames, trys>>
            BY <2>1, <2>4
        <3>5. QED
            BY <3>3, <3>4, SameCounted
    <2>5. QED
        BY <2>2, <2>3, <2>4
<1>14. CASE Interrupt \/ UNCHANGED vars
    <2>1. UNCHANGED <<prog, frames, trys, stack, status>>
        BY <1>14 DEF Interrupt, vars
    <2>2. CASE status = "done"
        BY <2>1, <2>2 DEF Counted
    <2>3. CASE status # "done"
        BY <2>1, <2>3, SameCounted
    <2>4. QED
        BY <2>2, <2>3
<1>15. QED
    BY <1>1, <1>2, <1>3, <1>4, <1>5, <1>6, <1>7, <1>8, <1>9, <1>10, <1>11, <1>12, <1>13, <1>14
       DEF Next, Step

---------------------------------------------------------------------------
(* Every instruction is reached with the handlers the loader counted, in a *)
(* program it vouches for whose finally blocks are left alike.             *)
CountedInv == LoadedInv /\ (Vouched /\ CountsSettled => Counted)

LEMMA NextCounted == CountedInv /\ [Next]_vars => CountedInv'
<1> SUFFICES ASSUME CountedInv, [Next]_vars PROVE CountedInv'
    OBVIOUS
<1>1. LoadedInv'
    BY NextLoaded DEF CountedInv
<1>2. UNCHANGED <<prog, loaded>>
    BY SameProgram
<1>3. Vouched' = Vouched
    BY <1>2 DEF Vouched, Loads, Plain, Protos
<1>4. CountsSettled' = CountsSettled
    BY <1>2 DEF CountsSettled
<1>5. CASE Vouched /\ CountsSettled
    <2>1. Inv /\ Counted
        BY <1>5 DEF CountedInv, LoadedInv
    <2>2. Counted'
        BY <1>5, <2>1, StepCounted
    <2>3. QED
        BY <1>1, <2>2 DEF CountedInv
<1>6. CASE ~(Vouched /\ CountsSettled)
    BY <1>1, <1>3, <1>4, <1>6 DEF CountedInv
<1>7. QED
    BY <1>5, <1>6

(* Each frame of a program the loader vouches for, and each of its         *)
(* handlers, is where the loader found it with as many handlers as the     *)
(* frame has, or had when the handler was set, if its finally blocks are   *)
(* left with as many handlers wherever they return to: RET_SUB tests the   *)
(* depth only (verify_pass2, run_fiber, on_error).                         *)
THEOREM CountedHolds == Spec => []CountedInv
<1>1. Init => CountedInv
    <2> SUFFICES ASSUME Init PROVE CountedInv
        OBVIOUS
    <2>1. LoadedInv
        BY InitLoaded
    <2>2. Vouched => Counted
        BY <2>1, InitCounted DEF LoadedInv
    <2>3. QED
        BY <2>1, <2>2 DEF CountedInv
<1>2. CountedInv /\ [Next]_vars => CountedInv'
    BY NextCounted
<1>3. QED
    BY <1>1, <1>2, PTL DEF Spec

(* In such a program every instruction runs at an operand depth and with a *)
(* number of handlers of its frame that the worklist has found for it, on  *)
(* every path, by finally blocks and after errors (verify_pass2).          *)
THEOREM CountsProved == Spec => [](Vouched /\ CountsSettled => DepthsProved)
<1>1. CountedInv => (Vouched /\ CountsSettled => DepthsProved)
    <2> SUFFICES ASSUME Inv, Counted, status = "run"
                 PROVE  <<Frame.ip, Depth, OwnTrys>> \in Proved.shapes
        BY DEF CountedInv, LoadedInv, DepthsProved
    <2>1. PICK n \in DOMAIN frames : n = Len(frames)
        BY Sizes
    <2>2. DOMAIN trys = 1..Len(trys)
        BY Sizes
    <2>3. OwnTrys = Own(n)
        BY <2>1, <2>2 DEF OwnTrys, Own, Count
    <2>4. Proved.shapes = ShapesOf(n)
        BY <2>1, Here DEF Proved, ShapesOf
    <2>5. <<Frame.ip, Depth, Own(n)>> \in ShapesOf(n)
        BY <2>1, HereCounted
    <2>6. QED
        BY <2>3, <2>4, <2>5
<1>2. QED
    BY <1>1, CountedHolds, PTL

(* A handler below the top frame was set no higher than its frame's        *)
(* operands reach.                                                         *)
LEMMA HandlerBelow ==
    ASSUME Inv, Counted, status # "done", DepthsLayered,
           NEW k \in DOMAIN trys, NEW i \in DOMAIN frames, i = trys[k].frames
    PROVE  trys[k].sp <= TopOf(i)
<1>1. PICK t, c : t = trys[k] /\ c = Count(i, k - 1)
    OBVIOUS
<1>2. PICK p \in ShapesOf(i) :
          /\ FrameFun(i).code[p[1]].op = "TRY_PUSH"
          /\ p[2] = t.sp - FloorOf(i) /\ p[3] = c
    BY <1>1 DEF Counted, HandlerPlaced
<1>3. PICK s \in ShapesOf(i) : s[2] = TopOf(i) - FloorOf(i) /\ s[3] = Own(i)
    BY DEF Counted, FrameCounted
<1>4. c < Own(i)
    <2>1. Len(trys) \in Nat /\ k \in 1..Len(trys)
        BY Sizes
    <2>2. QED
        BY <1>1, <2>1, CountLess DEF Own
<1>5. frames[i].fn \in DOMAIN Code[prog].protos
    BY AtFrame DEF Protos
<1>6. Layered(FrameFun(i), Verified[prog][frames[i].fn])
    BY <1>5 DEF DepthsLayered, FrameFun
<1>7. s[3] > p[3]
    <2>1. c \in Nat /\ Own(i) \in Nat
        <3>1. Len(trys) \in Nat /\ k \in 1..Len(trys)
            BY Sizes
        <3>2. k - 1 \in Nat /\ k - 1 <= Len(trys)
            BY <3>1
        <3>3. QED
            BY <1>1, <3>1, <3>2, CountNat DEF Own
    <2>2. QED
        BY <1>2, <1>3, <1>4, <2>1
<1>8. p[2] <= s[2]
    BY <1>2, <1>3, <1>6, <1>7 DEF Layered, ShapesOf
<1>9. t.sp \in Nat /\ FloorOf(i) \in Nat /\ TopOf(i) \in Nat
    BY <1>1, AtFrame DEF Inv, HandlersOk, HandlerOk
<1>10. QED
    BY <1>1, <1>2, <1>3, <1>8, <1>9

(* Each handler cuts the stack to operands of its frame that are still on  *)
(* it.                                                                     *)
LEMMA HandlersCut ==
    ASSUME Inv, Counted, status # "done", DepthsLayered
    PROVE  \A k \in DOMAIN trys :
               LET fr == frames[trys[k].frames]
               IN  /\ trys[k].sp >= fr.base + Code[prog].protos[fr.fn].nLocals
                   /\ trys[k].frames < Len(frames) =>
                          trys[k].sp < frames[trys[k].frames + 1].base
<1> TAKE k \in DOMAIN trys
<1>1. PICK i \in DOMAIN frames : i = trys[k].frames
    BY DEF Inv, HandlersOk, HandlerOk
<1>2. trys[k].sp >= FloorOf(i) /\ trys[k].sp \in Nat
    BY <1>1 DEF Inv, HandlersOk, HandlerOk
<1>3. trys[k].sp <= TopOf(i)
    BY <1>1, HandlerBelow
<1>4. i < Len(frames) => trys[k].sp < frames[i + 1].base
    <2> SUFFICES ASSUME i < Len(frames) PROVE trys[k].sp < frames[i + 1].base
        OBVIOUS
    <2>1. i # Len(frames) /\ i + 1 \in DOMAIN frames
        BY Sizes
    <2>2. TopOf(i) = frames[i + 1].base - 1 /\ frames[i + 1].base \in Nat
        BY <2>1, AtFrame DEF TopOf
    <2>3. QED
        BY <1>2, <1>3, <2>2
<1>5. QED
    BY <1>1, <1>2, <1>4 DEF FloorOf, FrameFun

(* In such a program, if it also keeps its operands while a newer handler  *)
(* is set, no handler would cut the stack of its frame above the operands  *)
(* that are on it: unwinding to it never raises the stack into a frame     *)
(* that has gone (on_error, JS_OP_RETURN).                                 *)
THEOREM HandlersWithin == Spec => [](Vouched /\ CountsSettled /\ DepthsLayered => HandlersLive)
<1>1. CountedInv => (Vouched /\ CountsSettled /\ DepthsLayered => HandlersLive)
    <2> SUFFICES ASSUME Inv, Counted, DepthsLayered PROVE HandlersLive
        BY DEF CountedInv, LoadedInv
    <2>1. HandlersOrdered
        <3>1. \A i \in DOMAIN trys : i > 1 => i - 1 \in DOMAIN trys /\ i - 1 < i
            BY Sizes
        <3>2. QED
            BY <3>1 DEF HandlersOrdered, Inv, HandlersOk, HandlerOk
    <2>2. CASE status = "done"
        <3>1. DOMAIN trys = {}
            BY <2>2 DEF Counted
        <3>2. QED
            BY <3>1, <2>1 DEF HandlersLive
    <2>3. CASE status # "done"
        BY <2>1, <2>3, HandlersCut DEF HandlersLive
    <2>4. QED
        BY <2>2, <2>3
<1>2. QED
    BY <1>1, CountedHolds, PTL
=============================================================================
