-------------------------- MODULE DmaBufMgrProofs --------------------------
(***************************************************************************)
(* Proofs about DmaBufMgr, for a bitmap of any number of words of any      *)
(* width and any set of request sizes.                                     *)
(***************************************************************************)
EXTENDS DmaBufMgr, NatFacts

LEMMA CacheLinesBound ==
  ASSUME NEW b \in Nat
  PROVE  CacheLines(b) \in Nat /\ CacheLines(b) >= 2
BY DEF CacheLines, LineBytes

LEMMA SizesBound == \A n \in Sizes : n \in Nat /\ n >= 2
BY HeapAssumption, CacheLinesBound DEF Sizes

LEMMA LinesNat == Lines \in Nat
BY HeapAssumption DEF Lines

LEMMA NatProduct ==
  ASSUME NEW x \in Nat, NEW y \in Nat
  PROVE  x * y \in Nat
OBVIOUS

LEMMA NatDivision ==
  ASSUME NEW w \in Nat \ {0}, NEW h \in Nat \ {0}, NEW x \in Nat, x < w * h
  PROVE  x \div w \in 0..h-1
<1>1. x \div w \in Nat /\ w * (x \div w) <= x
  OBVIOUS
<1>2. ASSUME x \div w >= h PROVE w * (x \div w) >= w * h
  BY <1>1, <1>2
<1>3. w * (x \div w) \in Int /\ w * h \in Int
  BY <1>1
<1> QED
  BY <1>1, <1>2, <1>3

-----------------------------------------------------------------------------
(* Type correctness.                                                       *)

LEMMA SearchLineBound ==
  ASSUME TypeOK
  PROVE  SearchLine \in 0..Lines
<1>1. searchPos \in Nat /\ searchPos <= HeapWords /\ WordBits \in Nat /\ HeapWords \in Nat
  BY HeapAssumption DEF TypeOK
<1>2. searchPos * WordBits \in Nat
  BY <1>1, NatProduct
<1>3. searchPos * WordBits <= HeapWords * WordBits
  BY <1>1
<1>4. HeapWords * WordBits = Lines
  BY <1>1 DEF Lines
<1> QED
  BY <1>2, <1>3, <1>4, LinesNat DEF SearchLine

LEMMA FoundZeros ==
  ASSUME TypeOK, NEW n \in Sizes, NEW p \in 0..Lines-1, Found(p, n)
  PROVE  p + n <= Lines - 1 /\ \A k \in p..p+n : k \notin used
<1>1. n \in Nat /\ SearchLine \in 0..Lines /\ Lines \in Nat
  BY SizesBound, SearchLineBound, LinesNat
<1>2. ZerosAt(p, n, SearchLine, Lines - 1) \/ ZerosAt(p, n, 0, SearchLine - 1)
  BY DEF Found, FirstZeros
<1> QED
  BY <1>1, <1>2 DEF ZerosAt

\* What an allocation hands out.
Given(p, n) == [start |-> p + 1, size |-> n]

LEMMA AllocFoundEffect ==
  ASSUME TypeOK, AllocFound
  PROVE  \E n \in Sizes, p \in 0..Lines-1 :
           /\ p + n <= Lines - 1 /\ \A k \in p..p+n : k \notin used
           /\ used' = used \cup Marked(Given(p, n))
           /\ live' = live \cup {Given(p, n)} /\ leaked' = leaked
           /\ searchPos' \in 0..HeapWords-1
           /\ request.op = "alloc" /\ request' = NoRequest /\ lock' = NoCaller
<1> DEFINE n == request.size
<1>1. n \in Sizes /\ request.op = "alloc"
  BY DEF TypeOK, AllocFound, Requests, NoRequest
<1>2. PICK p \in 0..Lines-1 :
        /\ Found(p, n)
        /\ used' = used \cup Marked(Given(p, n))
        /\ live' = live \cup {Given(p, n)}
        /\ searchPos' = (p + n) \div WordBits
  BY DEF AllocFound, Given, NextSearch
<1>3. p + n <= Lines - 1 /\ \A k \in p..p+n : k \notin used
  BY <1>1, <1>2, FoundZeros
<1>4. searchPos' \in 0..HeapWords-1
  <2>1. p + n \in Nat /\ p + n < WordBits * HeapWords
    BY <1>1, <1>3, SizesBound, LinesNat DEF Lines
  <2> QED
    BY <1>2, <2>1, HeapAssumption, NatDivision
<1>5. request' = NoRequest /\ lock' = NoCaller /\ leaked' = leaked
  BY DEF AllocFound, Release
<1> QED
  BY <1>1, <1>2, <1>3, <1>4, <1>5

LEMMA InitTypeOK == Init => TypeOK
BY HeapAssumption, LinesNat DEF Init, TypeOK, NoRequest

LEMMA StepTypeOK == TypeOK /\ [Next]_vars => TypeOK'
<1> SUFFICES ASSUME TypeOK, [Next]_vars PROVE TypeOK'
  OBVIOUS
<1> USE HeapAssumption
<1>1. ASSUME NEW c \in Callers, AllocEnter(c) PROVE TypeOK'
  <2>1. request' \in Requests /\ request'.op = "alloc"
    BY <1>1 DEF AllocEnter, Requests, Sizes
  <2> QED
    BY <1>1, <2>1 DEF TypeOK, AllocEnter
<1>2. ASSUME NEW c \in Callers, FreeEnter(c) PROVE TypeOK'
  <2>1. request' \in Requests /\ request'.op = "free"
    BY <1>2 DEF FreeEnter, Requests, TypeOK
  <2> QED
    BY <1>2, <2>1 DEF TypeOK, FreeEnter
<1>3. ASSUME NEW c \in Callers, FreeBusy(c) PROVE TypeOK'
  <2>1. PICK b \in live : live' = live \ {b} /\ leaked' = leaked \cup {b}
    BY <1>3 DEF FreeBusy
  <2>2. UNCHANGED <<used, searchPos, lock, request>>
    BY <1>3 DEF FreeBusy
  <2>3. live \subseteq Blocks /\ leaked \subseteq Blocks
    BY DEF TypeOK
  <2>4. live' \subseteq Blocks /\ leaked' \subseteq Blocks
    BY <2>1, <2>3
  <2>5. /\ used' \subseteq 0..Lines-1 /\ searchPos' \in 0..HeapWords-1
        /\ lock' \in Callers \cup {NoCaller}
        /\ request' \in Requests \cup {NoRequest}
        /\ (request'.op = "none") <=> (lock' = NoCaller)
    BY <2>2 DEF TypeOK
  <2> QED
    BY <2>4, <2>5 DEF TypeOK
<1>4. CASE AllocFound
  <2>1. PICK n \in Sizes, p \in 0..Lines-1 :
           /\ p + n <= Lines - 1
           /\ used' = used \cup Marked(Given(p, n))
           /\ live' = live \cup {Given(p, n)} /\ leaked' = leaked
           /\ searchPos' \in 0..HeapWords-1
           /\ request' = NoRequest /\ lock' = NoCaller
    BY <1>4, AllocFoundEffect
  <2>2. Given(p, n) \in Blocks /\ Marked(Given(p, n)) \subseteq 0..Lines-1
    BY <2>1, SizesBound, LinesNat DEF Given, Blocks, Marked
  <2>3. NoRequest.op = "none"
    BY DEF NoRequest
  <2> QED
    BY <2>1, <2>2, <2>3 DEF TypeOK
<1>5. CASE AllocFails
  BY <1>5 DEF TypeOK, AllocFails, Release, NoRequest
<1>6. CASE Free
  <2>1. /\ used' \subseteq used /\ searchPos' = 0 /\ lock' = NoCaller
        /\ request' = NoRequest /\ NoRequest.op = "none"
        /\ UNCHANGED <<live, leaked>>
    BY <1>6 DEF Free, Restart, Release, NoRequest
  <2>2. 0 \in 0..HeapWords-1
    OBVIOUS
  <2> QED
    BY <2>1, <2>2 DEF TypeOK
<1>7. CASE UNCHANGED vars
  BY <1>7 DEF TypeOK, vars
<1> QED
  BY <1>1, <1>2, <1>3, <1>4, <1>5, <1>6, <1>7 DEF Next

(* The bitmap, the search position and the block lists keep their types;   *)
(* in particular no search starts outside the bitmap.                      *)
THEOREM TypeCorrect == Spec => []TypeOK
BY InitTypeOK, StepTypeOK, PTL DEF Spec

-----------------------------------------------------------------------------
(* Blocks and the bitmap.                                                  *)

\* A block is in one place: held, leaked, or being freed.
OnePlace ==
  /\ live \cap leaked = {}
  /\ request.op = "free" => request.block \notin live \cup leaked

Inv == TypeOK /\ OnePlace /\ NoOverlap /\ BitmapExact

LEMMA TakenTyped ==
  ASSUME TypeOK
  PROVE  \A b \in Taken : /\ b \in Blocks /\ b.start \in Nat
                         /\ b.size \in Nat /\ b.size >= 2
<1>1. \A b \in Taken : b \in Blocks
  BY DEF TypeOK, Taken, Requests, NoRequest
<1> QED
  BY <1>1, SizesBound, LinesNat DEF Blocks

LEMMA NewBlockApart ==
  ASSUME Inv, NEW n \in Sizes, NEW p \in 0..Lines-1,
         p + n <= Lines - 1, \A k \in p..p+n : k \notin used, NEW c \in Taken
  PROVE  Apart(Given(p, n), c) /\ Apart(c, Given(p, n))
<1>1. /\ c.start \in Nat /\ c.size \in Nat /\ c.size >= 2
      /\ c.start + c.size <= Lines
      /\ n \in Nat /\ n >= 2 /\ Lines \in Nat
  BY TakenTyped, SizesBound, LinesNat DEF Inv, NoOverlap
<1>2. \A k \in c.start .. c.start + c.size - 2 : k \in used
  BY <1>1 DEF Inv, BitmapExact, Marked
<1>3. CASE c.start > p + n
  BY <1>1, <1>3 DEF Apart, Given
<1>4. CASE c.start <= p + n
  <2>1. c.start < p
    BY <1>1, <1>2, <1>4
  <2>2. c.start + c.size - 2 < p
    BY <1>1, <1>2, <2>1
  <2> QED
    BY <1>1, <2>2 DEF Apart, Given
<1> QED
  BY <1>1, <1>3, <1>4

\* Counting ones from the start of a block finds its marked lines, no more.
LEMMA RunIsBlock ==
  ASSUME Inv, NEW b \in Taken
  PROVE  RunFrom(b.start) = Marked(b)
<1>1. /\ b.start \in Nat /\ b.size \in Nat /\ b.size >= 2
      /\ b.start + b.size <= Lines /\ Lines \in Nat
      /\ used \subseteq 0..Lines-1
  BY TakenTyped, LinesNat DEF Inv, NoOverlap, TypeOK
<1> DEFINE t == b.start + b.size - 1
<1>2. t \notin used
  <2> SUFFICES ASSUME t \in used PROVE FALSE
    OBVIOUS
  <2>1. PICK c \in Taken : t \in Marked(c)
    BY <1>1 DEF Inv, BitmapExact
  <2>2. c.start \in Nat /\ c.size \in Nat
    BY TakenTyped DEF Inv
  <2>3. c.start <= t /\ t <= c.start + c.size - 2
    BY <1>1, <2>1, <2>2 DEF Marked
  <2>4. c # b
    BY <1>1, <2>3
  <2>5. Apart(b, c)
    BY <2>4 DEF Inv, NoOverlap
  <2> QED
    BY <1>1, <2>2, <2>3, <2>5 DEF Apart
<1>3. ASSUME NEW k \in RunFrom(b.start) PROVE k \in Marked(b)
  <2>1. k \in 0..Lines-1 /\ k >= b.start /\ \A j \in b.start..k : j \in used
    BY <1>1 DEF RunFrom
  <2>2. k < t
    BY <1>1, <1>2, <2>1
  <2> QED
    BY <1>1, <2>1, <2>2 DEF Marked
<1>4. ASSUME NEW k \in Marked(b) PROVE k \in RunFrom(b.start)
  <2>1. k \in Int /\ b.start <= k /\ k <= b.start + b.size - 2
    BY <1>1 DEF Marked
  <2>2. \A j \in b.start..k : j \in Marked(b) /\ j \in 0..Lines-1
    BY <1>1, <2>1 DEF Marked
  <2>3. \A j \in b.start..k : j \in used
    BY <2>2 DEF Inv, BitmapExact
  <2> QED
    BY <1>1, <2>1, <2>3 DEF RunFrom
<1> QED
  BY <1>3, <1>4

\* What each step does to the blocks taken.
LEMMA TakenStep ==
  ASSUME Inv, Next
  PROVE  \/ Taken' = Taken /\ used' = used
         \/ \E n \in Sizes, p \in 0..Lines-1 :
              /\ p + n <= Lines - 1 /\ \A k \in p..p+n : k \notin used
              /\ Taken' = Taken \cup {Given(p, n)}
              /\ used' = used \cup Marked(Given(p, n))
         \/ \E b \in Taken : Taken' = Taken \ {b} /\ used' = used \ Marked(b)
<1> USE HeapAssumption
<1>0. TypeOK /\ OnePlace /\ NoRequest.op = "none"
  BY DEF Inv, NoRequest
<1>1. ASSUME NEW c \in Callers, AllocEnter(c) PROVE Taken' = Taken /\ used' = used
  <2>1. request.op = "none" /\ request'.op = "alloc" /\ UNCHANGED <<used, live, leaked>>
    BY <1>0, <1>1 DEF AllocEnter, TypeOK
  <2> QED
    BY <2>1 DEF Taken
<1>2. ASSUME NEW c \in Callers, FreeEnter(c) PROVE Taken' = Taken /\ used' = used
  <2>1. PICK b \in live : /\ request'.op = "free" /\ request'.block = b
                          /\ live' = live \ {b}
    BY <1>2 DEF FreeEnter
  <2>2. request.op = "none" /\ UNCHANGED <<used, leaked>>
    BY <1>0, <1>2 DEF FreeEnter, TypeOK
  <2> QED
    BY <2>1, <2>2 DEF Taken
<1>3. ASSUME NEW c \in Callers, FreeBusy(c) PROVE Taken' = Taken /\ used' = used
  BY <1>3 DEF FreeBusy, Taken
<1>4. CASE AllocFound
  <2>1. PICK n \in Sizes, p \in 0..Lines-1 :
           /\ p + n <= Lines - 1 /\ \A k \in p..p+n : k \notin used
           /\ used' = used \cup Marked(Given(p, n))
           /\ live' = live \cup {Given(p, n)} /\ leaked' = leaked
           /\ request.op = "alloc" /\ request' = NoRequest
    BY <1>0, <1>4, AllocFoundEffect
  <2>2. Taken' = Taken \cup {Given(p, n)}
    BY <1>0, <2>1 DEF Taken
  <2> QED
    BY <2>1, <2>2
<1>5. CASE AllocFails
  BY <1>0, <1>5 DEF AllocFails, Release, Taken
<1>6. CASE Free
  <2>1. /\ request.op = "free" /\ request' = NoRequest
        /\ used' = used \ RunFrom(request.block.start) /\ UNCHANGED <<live, leaked>>
    BY <1>6 DEF Free, Release
  <2>2. request.block \in Taken
    BY <2>1 DEF Taken
  <2>3. used' = used \ Marked(request.block)
    BY <2>1, <2>2, RunIsBlock
  <2>4. Taken' = Taken \ {request.block}
    BY <1>0, <2>1 DEF Taken, OnePlace
  <2> QED
    BY <2>2, <2>3, <2>4
<1> QED
  BY <1>1, <1>2, <1>3, <1>4, <1>5, <1>6 DEF Next

LEMMA InitInv == Init => Inv
<1> SUFFICES ASSUME Init PROVE Inv
  OBVIOUS
<1>1. TypeOK
  BY InitTypeOK
<1>2. Taken = {} /\ used = {} /\ request.op = "none" /\ live = {} /\ leaked = {}
  BY DEF Init, Taken, NoRequest
<1>3. OnePlace
  BY <1>2 DEF OnePlace
<1>4. NoOverlap /\ BitmapExact
  BY <1>2 DEF NoOverlap, BitmapExact
<1> QED
  BY <1>1, <1>3, <1>4 DEF Inv

\* A new block has at least two lines, so it is none of the old ones.
LEMMA NewBlockNew ==
  ASSUME Inv, NEW n \in Sizes, NEW p \in 0..Lines-1,
         p + n <= Lines - 1, \A k \in p..p+n : k \notin used
  PROVE  Given(p, n) \notin Taken
<1> SUFFICES ASSUME Given(p, n) \in Taken PROVE FALSE
  OBVIOUS
<1>1. Apart(Given(p, n), Given(p, n))
  BY NewBlockApart
<1> QED
  BY <1>1, SizesBound, LinesNat DEF Apart, Given

LEMMA StepOnePlace == Inv /\ [Next]_vars => OnePlace'
<1> SUFFICES ASSUME Inv, [Next]_vars PROVE OnePlace'
  OBVIOUS
<1>0. /\ TypeOK /\ OnePlace /\ NoRequest.op = "none"
      /\ live \cap leaked = {}
      /\ request.op = "free" => request.block \notin live \cup leaked
  BY DEF Inv, OnePlace, NoRequest
<1>1. ASSUME NEW c \in Callers, AllocEnter(c) PROVE OnePlace'
  <2>1. request'.op = "alloc" /\ UNCHANGED <<live, leaked>>
    BY <1>1 DEF AllocEnter
  <2> QED
    BY <1>0, <2>1 DEF OnePlace
<1>2. ASSUME NEW c \in Callers, FreeEnter(c) PROVE OnePlace'
  <2>1. PICK b \in live : request'.block = b /\ live' = live \ {b}
    BY <1>2 DEF FreeEnter
  <2>2. leaked' = leaked
    BY <1>2 DEF FreeEnter
  <2> QED
    BY <1>0, <2>1, <2>2 DEF OnePlace
<1>3. ASSUME NEW c \in Callers, FreeBusy(c) PROVE OnePlace'
  <2>1. PICK b \in live : live' = live \ {b} /\ leaked' = leaked \cup {b}
    BY <1>3 DEF FreeBusy
  <2>2. request' = request
    BY <1>3 DEF FreeBusy
  <2> QED
    BY <1>0, <2>1, <2>2 DEF OnePlace
<1>4. CASE AllocFound
  <2>1. PICK n \in Sizes, p \in 0..Lines-1 :
           /\ p + n <= Lines - 1 /\ \A k \in p..p+n : k \notin used
           /\ live' = live \cup {Given(p, n)} /\ leaked' = leaked
           /\ request' = NoRequest
    BY <1>0, <1>4, AllocFoundEffect
  <2>2. Given(p, n) \notin leaked
    BY <2>1, NewBlockNew DEF Taken
  <2> QED
    BY <1>0, <2>1, <2>2 DEF OnePlace
<1>5. CASE AllocFails \/ Free
  <2>1. request' = NoRequest /\ UNCHANGED <<live, leaked>>
    BY <1>5 DEF AllocFails, Free, Release
  <2> QED
    BY <1>0, <2>1 DEF OnePlace
<1>6. CASE UNCHANGED vars
  BY <1>0, <1>6 DEF OnePlace, vars
<1> QED
  BY <1>1, <1>2, <1>3, <1>4, <1>5, <1>6 DEF Next

\* Handing a block out or taking one back keeps the others apart.
LEMMA StepNoOverlap == Inv /\ Next => NoOverlap'
<1> SUFFICES ASSUME Inv, Next PROVE NoOverlap'
  OBVIOUS
<1>1. /\ \A b, c \in Taken : b = c \/ Apart(b, c)
      /\ \A b \in Taken : b.start >= 1 /\ b.start + b.size <= Lines
  BY DEF Inv, NoOverlap
<1>2. ASSUME \A b \in Taken' : b \in Taken PROVE NoOverlap'
  BY <1>1, <1>2 DEF NoOverlap
<1>3. ASSUME NEW n \in Sizes, NEW p \in 0..Lines-1,
             p + n <= Lines - 1, \A k \in p..p+n : k \notin used,
             Taken' = Taken \cup {Given(p, n)}
      PROVE  NoOverlap'
  <2> DEFINE g == Given(p, n)
  <2>1. \A c \in Taken : Apart(g, c) /\ Apart(c, g)
    BY <1>3, NewBlockApart
  <2>2. g.start >= 1 /\ g.start + g.size <= Lines
    BY <1>3, SizesBound, LinesNat DEF Given
  <2>3. Taken' = Taken \cup {g}
    BY <1>3
  <2> HIDE DEF g
  <2>4. \A b, c \in Taken' : b = c \/ Apart(b, c)
    BY <1>1, <2>1, <2>3
  <2>5. \A b \in Taken' : b.start >= 1 /\ b.start + b.size <= Lines
    BY <1>1, <2>2, <2>3
  <2> QED
    BY <2>4, <2>5 DEF NoOverlap
<1> QED
  BY TakenStep, <1>2, <1>3

LEMMA StepBitmapExact == Inv /\ Next => BitmapExact'
<1> SUFFICES ASSUME Inv, Next PROVE BitmapExact'
  OBVIOUS
<1>1. \A k \in 0..Lines-1 : k \in used <=> \E b \in Taken : k \in Marked(b)
  BY DEF Inv, BitmapExact
<1>2. ASSUME Taken' = Taken, used' = used PROVE BitmapExact'
  BY <1>1, <1>2 DEF BitmapExact
<1>3. ASSUME NEW g, Taken' = Taken \cup {g}, used' = used \cup Marked(g)
      PROVE  BitmapExact'
  BY <1>1, <1>3 DEF BitmapExact
<1>4. ASSUME NEW b \in Taken, Taken' = Taken \ {b}, used' = used \ Marked(b)
      PROVE  BitmapExact'
  <2>1. \A c \in Taken : c # b => \A k \in Marked(c) : k \notin Marked(b)
    <3> SUFFICES ASSUME NEW c \in Taken, c # b, NEW k \in Marked(c), k \in Marked(b)
                 PROVE  FALSE
      OBVIOUS
    <3>1. Apart(b, c)
      BY DEF Inv, NoOverlap
    <3>2. b.start \in Nat /\ b.size \in Nat /\ c.start \in Nat /\ c.size \in Nat
      BY TakenTyped DEF Inv
    <3> QED
      BY <3>1, <3>2 DEF Apart, Marked
  <2> QED
    BY <1>1, <1>4, <2>1 DEF BitmapExact
<1> QED
  BY TakenStep, <1>2, <1>3, <1>4

LEMMA StepInv == Inv /\ [Next]_vars => Inv'
<1> SUFFICES ASSUME Inv, [Next]_vars PROVE Inv'
  OBVIOUS
<1>1. TypeOK' /\ OnePlace'
  BY StepTypeOK, StepOnePlace DEF Inv
<1>2. CASE Next
  BY <1>1, <1>2, StepNoOverlap, StepBitmapExact DEF Inv
<1>3. CASE UNCHANGED vars
  <2>1. Taken' = Taken /\ used' = used
    BY <1>3 DEF vars, Taken
  <2>2. NoOverlap' /\ BitmapExact'
    BY <2>1 DEF Inv, NoOverlap, BitmapExact
  <2> QED
    BY <1>1, <2>2 DEF Inv
<1> QED
  BY <1>2, <1>3

(* No two blocks share a cache line, for every heap and every sequence of  *)
(* allocations, frees and frees that failed.                               *)
THEOREM ApartCorrect == Spec => []NoOverlap
<1>1. Inv => NoOverlap
  BY DEF Inv
<1> QED
  BY <1>1, InitInv, StepInv, PTL DEF Spec

(* The bitmap is exactly the marked lines of the blocks taken, so a free   *)
(* that counts ones clears its own block and nothing else.                 *)
THEOREM BitmapCorrect == Spec => []BitmapExact
<1>1. Inv => BitmapExact
  BY DEF Inv
<1> QED
  BY <1>1, InitInv, StepInv, PTL DEF Spec

-----------------------------------------------------------------------------
(* Refinement: the manager implements the allocator of BlockPool.          *)

LEMMA PoolInit == Init => Pool!Init
BY DEF Init, Pool!Init, Taken, NoRequest

LEMMA PoolStep == Inv /\ [Next]_vars => [Pool!Next]_Taken
<1> SUFFICES ASSUME Inv, [Next]_vars, Taken' # Taken PROVE Pool!Next
  OBVIOUS
<1>1. Next
  BY DEF vars, Taken
<1>2. ASSUME NEW n \in Sizes, NEW p \in 0..Lines-1,
             p + n <= Lines - 1, \A k \in p..p+n : k \notin used,
             Taken' = Taken \cup {Given(p, n)}
      PROVE  Pool!Next
  <2> DEFINE g == Given(p, n)
  <2>1. \A c \in Taken : Apart(g, c)
    BY <1>2, NewBlockApart
  <2>2. g \in Pool!Blocks /\ g.start + g.size <= Lines
    BY <1>2, SizesBound, LinesNat DEF Given, Pool!Blocks
  <2>3. Pool!Give(g)
    BY <1>2, <2>1, <2>2 DEF Pool!Give, Pool!Apart, Apart
  <2> QED
    BY <2>2, <2>3 DEF Pool!Next
<1>3. ASSUME NEW b \in Taken, Taken' = Taken \ {b} PROVE Pool!Next
  BY <1>3 DEF Pool!Next, Pool!TakeBack
<1> QED
  BY <1>1, TakenStep, <1>2, <1>3

(* The buffer manager implements the abstract allocator.                   *)
THEOREM ImplementsPool == Spec => PoolSpec
<1>1. Init /\ [][Next]_vars => []Inv
  BY InitInv, StepInv, PTL
<1> QED
  BY <1>1, PoolInit, PoolStep, PTL DEF Spec, PoolSpec, Pool!Spec
-----------------------------------------------------------------------------
(* What a search misses.                                                   *)

\* A search that meets enough zeros in a stretch meets a first place of them.
LEMMA FirstExists ==
  ASSUME NEW first \in Nat, NEW last \in Int, NEW n, NEW p,
         ZerosAt(p, n, first, last)
  PROVE  \E q \in first..last : FirstZeros(q, n, first, last)
<1> DEFINE T == {q \in first..last : ZerosAt(q, n, first, last)}
<1>1. T \subseteq Nat /\ p \in T
  BY DEF ZerosAt
<1>2. PICK q \in T : \A k \in T : q <= k
  <2> HIDE DEF T
  <2> QED
    BY <1>1, LeastNat
<1>3. q \in first..last /\ ZerosAt(q, n, first, last)
  OBVIOUS
<1>4. ASSUME NEW k \in first..q-1, ZerosAt(k, n, first, last) PROVE FALSE
  <2>1. k \in T /\ ~(q <= k)
    BY <1>3, <1>4
  <2> QED
    BY <1>2, <2>1
<1> QED
  BY <1>3, <1>4 DEF FirstZeros

LEMMA RefusedFits ==
  ASSUME TypeOK, AllocFails, NEW p \in 0..Lines-1, Fits(p, request.size)
  PROVE  p < SearchLine /\ SearchLine <= p + request.size
<1> DEFINE n == request.size
<1>1. n \in Nat /\ SearchLine \in 0..Lines /\ Lines \in Nat
  <2>1. n \in Sizes
    BY DEF TypeOK, AllocFails, Requests, NoRequest
  <2> QED
    BY <2>1, SizesBound, SearchLineBound, LinesNat
<1>2. \A q \in 0..Lines-1 : ~Found(q, n)
  BY DEF AllocFails
<1>3. ASSUME NEW q, ZerosAt(q, n, SearchLine, Lines - 1) PROVE FALSE
  <2>1. PICK r \in SearchLine..Lines-1 : FirstZeros(r, n, SearchLine, Lines - 1)
    BY <1>1, <1>3, FirstExists
  <2>2. r \in 0..Lines-1
    BY <1>1
  <2> QED
    BY <1>2, <2>1, <2>2 DEF Found
<1>4. CASE p >= SearchLine
  <2>1. ZerosAt(p, n, SearchLine, Lines - 1)
    BY <1>1, <1>4 DEF ZerosAt, Fits
  <2> QED
    BY <1>3, <2>1
<1>5. CASE p < SearchLine /\ p + n < SearchLine
  <2>1. ZerosAt(p, n, 0, SearchLine - 1)
    BY <1>1, <1>5 DEF ZerosAt, Fits
  <2>2. PICK r \in 0..SearchLine-1 : FirstZeros(r, n, 0, SearchLine - 1)
    BY <1>1, <2>1, FirstExists
  <2>3. r \in 0..Lines-1
    BY <1>1
  <2> QED
    BY <1>2, <1>3, <2>2, <2>3 DEF Found
<1> QED
  BY <1>1, <1>4, <1>5

(* No allocation is refused for want of memory the search could have seen, *)
(* whatever blocks are taken and wherever the search begins.               *)
THEOREM SearchCorrect == Spec => SearchComplete
<1> DEFINE A == AllocFails => \A p \in 0..Lines-1 : Fits(p, request.size) =>
                  p < SearchLine /\ SearchLine <= p + request.size
<1>1. TypeOK => A
  BY RefusedFits
<1>2. TypeOK /\ [Next]_vars => [A]_vars
  BY <1>1
<1> HIDE DEF A
<1>3. Spec => [][A]_vars
  BY <1>2, TypeCorrect, PTL DEF Spec
<1> QED
  BY <1>3 DEF A, SearchComplete

\* A free restarts the search; so an empty heap is searched from the top.
EmptyFromTop == Taken = {} => searchPos = 0

LEMMA InitEmptyFromTop == Init => EmptyFromTop
BY DEF Init, EmptyFromTop

LEMMA StepEmptyFromTop == Inv /\ EmptyFromTop /\ [Next]_vars => EmptyFromTop'
<1> SUFFICES ASSUME Inv, EmptyFromTop, [Next]_vars, Taken' = {} PROVE searchPos' = 0
  BY DEF EmptyFromTop
<1>1. CASE Taken = {} /\ searchPos' = searchPos
  BY <1>1 DEF EmptyFromTop
<1>2. CASE AllocFound
  <2>1. live' # {}
    BY <1>2 DEF AllocFound
  <2> QED
    BY <2>1 DEF Taken
<1>3. CASE Free
  BY <1>3 DEF Free, Restart
<1>4. ASSUME NEW c \in Callers, AllocEnter(c) \/ FreeEnter(c) \/ FreeBusy(c)
      PROVE  searchPos' = 0
  <2>1. Taken = {}
    <3>1. CASE AllocEnter(c)
      <4>1. live' = live /\ leaked' = leaked /\ request.op # "free"
        BY <1>4, <3>1 DEF AllocEnter, Inv, TypeOK
      <4> QED
        BY <4>1 DEF Taken
    <3>2. CASE FreeEnter(c)
      BY <3>2 DEF FreeEnter, Taken
    <3>3. CASE FreeBusy(c)
      BY <3>3 DEF FreeBusy, Taken
    <3> QED
      BY <1>4, <3>1, <3>2, <3>3
  <2>2. searchPos' = searchPos
    BY <1>4 DEF AllocEnter, FreeEnter, FreeBusy
  <2> QED
    BY <2>1, <2>2 DEF EmptyFromTop
<1>5. CASE AllocFails
  <2>1. /\ searchPos' = searchPos /\ live' = live /\ leaked' = leaked
        /\ request.op = "alloc"
    BY <1>5 DEF AllocFails
  <2> QED
    BY <2>1 DEF Taken, EmptyFromTop
<1>6. CASE UNCHANGED vars
  BY <1>6 DEF vars, Taken, EmptyFromTop
<1> QED
  BY <1>2, <1>3, <1>4, <1>5, <1>6 DEF Next

LEMMA EmptyServes ==
  ASSUME Inv, EmptyFromTop, AllocFails, live = {}, leaked = {}
  PROVE  request.size >= Lines
<1> SUFFICES ASSUME request.size < Lines PROVE FALSE
  <2>1. request.size \in Sizes
    BY DEF Inv, TypeOK, AllocFails, Requests, NoRequest
  <2> QED
    BY <2>1, SizesBound, LinesNat
<1>1. Taken = {}
  BY DEF AllocFails, Taken
<1>2. \A k \in 0..Lines-1 : k \notin used
  BY <1>1 DEF Inv, BitmapExact
<1>3. request.size \in Nat
  <2>1. request.size \in Sizes
    BY DEF Inv, TypeOK, AllocFails, Requests, NoRequest
  <2> QED
    BY <2>1, SizesBound
<1>4. 0 \in 0..Lines-1 /\ Fits(0, request.size)
  BY <1>2, <1>3, LinesNat DEF Fits
<1>5. 0 < SearchLine
  BY <1>4, RefusedFits DEF Inv
<1>6. SearchLine = 0
  BY <1>1, HeapAssumption DEF EmptyFromTop, SearchLine
<1> QED
  BY <1>5, <1>6

(* A heap whose blocks have all come back serves every request again that  *)
(* it served when it was new.                                              *)
THEOREM EmptyCorrect == Spec => EmptyHeapServes
<1> DEFINE A == AllocFails /\ live = {} /\ leaked = {} => request.size >= Lines
<1>1. Inv /\ EmptyFromTop /\ [Next]_vars => [A]_vars
  BY EmptyServes
<1> HIDE DEF A
<1>2. Spec => [][A]_vars
  BY <1>1, InitInv, StepInv, InitEmptyFromTop, StepEmptyFromTop, PTL DEF Spec
<1> QED
  BY <1>2 DEF A, EmptyHeapServes
=============================================================================
