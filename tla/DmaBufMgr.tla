----------------------------- MODULE DmaBufMgr -----------------------------
(***************************************************************************)
(* The DMA buffer manager of cyfxtx.c: CyU3PDmaBufferAlloc and             *)
(* CyU3PDmaBufferFree over a bitmap with one bit for each cache line.      *)
(*                                                                         *)
(* The bit of the last line of a block stays 0, so that a block ends where *)
(* its run of ones ends; a search for n lines therefore looks for n + 1    *)
(* zeros and skips the first, which may be the last line of a neighbour.   *)
(* A search starts at the word where the last one succeeded, wraps once,   *)
(* and forgets the zeros it has counted when it wraps.                     *)
(*                                                                         *)
(* Both operations run under one mutex, which a caller waits for no longer *)
(* than a timeout (or not at all outside a thread).  The leak checks       *)
(* (CyU3PBufEnableChecks) are off: nothing in the repository enables them. *)
(***************************************************************************)
EXTENDS Integers, FiniteSets

CONSTANTS
  Callers,    \* threads and drivers that allocate
  NoCaller,   \* the mutex is free
  Bytes,      \* the sizes asked for, in bytes
  WordBits,   \* status bits in a word (32 in the code)
  HeapWords,  \* statusSize, the words of the bitmap
  MaxLeaks    \* bound: frees that fail for want of the mutex

LineBytes == 32  \* FX3_CACHE_LINE_SZ

ASSUME HeapAssumption ==
  /\ WordBits \in Nat \ {0}
  /\ HeapWords \in Nat \ {0}
  /\ WordBits * HeapWords \in Nat
  /\ Bytes \subseteq Nat
  /\ MaxLeaks \in Nat
  /\ NoCaller \notin Callers

Lines == WordBits * HeapWords

(* The lines a request takes: at least two, or the block would leave no 1  *)
(* in the bitmap at all.                                                   *)
\* A mistake: a block of one line is allowed.
CacheLinesExact(bytes) == (bytes + LineBytes - 1) \div LineBytes

CacheLines(bytes) ==
  IF bytes <= LineBytes THEN 2 ELSE (bytes + LineBytes - 1) \div LineBytes

Sizes == {CacheLines(b) : b \in Bytes}

NoBlock == [start |-> 0, size |-> 0]
Blocks == [start : 0..Lines-1, size : Sizes]

VARIABLES
  used,       \* the lines whose bit in usedStatus is 1
  searchPos,  \* the word the next search starts at
  lock,       \* who holds the mutex
  request,    \* what the holder asked for: a size to allocate or a block to free
  live,       \* blocks their callers still hold
  leaked      \* blocks given up by a CyU3PDmaBufferFree that failed

vars == <<used, searchPos, lock, request, live, leaked>>

Requests == [op : {"alloc"}, size : Sizes, block : {NoBlock}]
              \cup [op : {"free"}, size : {0}, block : Blocks]
NoRequest == [op |-> "none", size |-> 0, block |-> NoBlock]

Init ==
  /\ used = {}
  /\ searchPos = 0
  /\ lock = NoCaller
  /\ request = NoRequest
  /\ live = {}
  /\ leaked = {}

-----------------------------------------------------------------------------
(* CyU3PMutexGet.  The mutex is free: the caller goes on.  A request that  *)
(* does not get it in time is refused: an allocation returns 0 and changes *)
(* nothing, a free returns -1 and the block stays marked.                  *)
AllocEnter(c) ==
  /\ lock = NoCaller
  /\ lock' = c
  /\ \E b \in Bytes :
       request' = [op |-> "alloc", size |-> CacheLines(b), block |-> NoBlock]
  /\ UNCHANGED <<used, searchPos, live, leaked>>

FreeEnter(c) ==
  /\ lock = NoCaller
  /\ lock' = c
  /\ \E b \in live :
       /\ request' = [op |-> "free", size |-> 0, block |-> b]
       /\ live' = live \ {b}
  /\ UNCHANGED <<used, searchPos, leaked>>

FreeBusy(c) ==
  /\ lock \notin {NoCaller, c}
  /\ Cardinality(leaked) < MaxLeaks
  /\ \E b \in live :
       /\ live' = live \ {b}
       /\ leaked' = leaked \cup {b}
  /\ UNCHANGED <<used, searchPos, lock, request>>

-----------------------------------------------------------------------------
(* n + 1 zeros from line p, inside the stretch first..last.                *)
\* A mistake: n zeros are enough.
ZerosAtShort(p, n, first, last) ==
  /\ p \in first..last
  /\ p + n <= last
  /\ \A k \in p..p+n-1 : k \notin used

\* A mistake: the search stops one zero before the end of the stretch.
ZerosAtInside(p, n, first, last) ==
  /\ p \in first..last
  /\ p + n < last
  /\ \A k \in p..p+n : k \notin used

ZerosAt(p, n, first, last) ==
  /\ p \in first..last
  /\ p + n <= last
  /\ \A k \in p..p+n : k \notin used

FirstZeros(p, n, first, last) ==
  /\ ZerosAt(p, n, first, last)
  /\ \A q \in first..p-1 : ~ZerosAt(q, n, first, last)

(* The search: from the word searchPos to the end of the bitmap, then from *)
(* its start up to that word.  p is the zero that is skipped.              *)
SearchLine == searchPos * WordBits

Found(p, n) ==
  \/ FirstZeros(p, n, SearchLine, Lines - 1)
  \/ /\ \A q \in SearchLine..Lines-1 : ~ZerosAt(q, n, SearchLine, Lines - 1)
     /\ FirstZeros(p, n, 0, SearchLine - 1)

\* The lines of a block whose bits are set: all but its last.
Marked(b) == b.start .. b.start + b.size - 2

\* A mistake: the next search starts at the line behind the block.
NextSearchBehind(p, n) == (p + n + 1) \div WordBits

NextSearch(p, n) == (p + n) \div WordBits

Release ==
  /\ lock' = NoCaller
  /\ request' = NoRequest

AllocFound ==
  /\ request.op = "alloc"
  /\ \E p \in 0..Lines-1 :
       /\ Found(p, request.size)
       /\ LET b == [start |-> p + 1, size |-> request.size] IN
            /\ used' = used \cup Marked(b)
            /\ live' = live \cup {b}
       /\ searchPos' = NextSearch(p, request.size)
  /\ Release
  /\ UNCHANGED leaked

AllocFails ==
  /\ request.op = "alloc"
  /\ \A p \in 0..Lines-1 : ~Found(p, request.size)
  /\ Release
  /\ UNCHANGED <<used, searchPos, live, leaked>>

(* CyU3PDmaBufferFree clears the run of ones that begins at the block.     *)
RunFrom(s) == {k \in used : k >= s /\ \A j \in s..k : j \in used}

\* A mistake: the search position is left where it was.
RestartNot == UNCHANGED searchPos

Restart == searchPos' = 0

Free ==
  /\ request.op = "free"
  /\ used' = used \ RunFrom(request.block.start)
  /\ Restart
  /\ Release
  /\ UNCHANGED <<live, leaked>>

Next ==
  \/ \E c \in Callers : AllocEnter(c) \/ FreeEnter(c) \/ FreeBusy(c)
  \/ AllocFound
  \/ AllocFails
  \/ Free

Spec == Init /\ [][Next]_vars

-----------------------------------------------------------------------------
(* Properties.                                                             *)

\* Blocks whose lines are not free: held, leaked, or about to be freed.
Taken == live \cup leaked
           \cup (IF request.op = "free" THEN {request.block} ELSE {})

TypeOK ==
  /\ used \subseteq 0..Lines-1
  /\ searchPos \in 0..HeapWords-1
  /\ lock \in Callers \cup {NoCaller}
  /\ request \in Requests \cup {NoRequest}
  /\ (request.op = "none") <=> (lock = NoCaller)
  /\ live \subseteq Blocks
  /\ leaked \subseteq Blocks

Apart(b, c) == b.start + b.size <= c.start \/ c.start + c.size <= b.start

(* No two blocks share a cache line - not even the unmarked last line of   *)
(* one - and none leaves the heap, whatever has been freed in between.     *)
NoOverlap ==
  /\ \A b, c \in Taken : b = c \/ Apart(b, c)
  /\ \A b \in Taken : b.start >= 1 /\ b.start + b.size <= Lines

(* The bitmap is exactly the blocks: counting ones from a block's start    *)
(* neither frees a line of a neighbour nor leaves one of its own behind.   *)
BitmapExact ==
  \A k \in 0..Lines-1 : k \in used <=> \E b \in Taken : k \in Marked(b)

(* An allocation is refused only when every stretch of zeros long enough   *)
(* for it runs across the line where the search began; a search from the   *)
(* top of the heap misses none.                                            *)
Fits(p, n) == p + n <= Lines - 1 /\ \A k \in p..p+n : k \notin used

SearchComplete ==
  [][AllocFails => \A p \in 0..Lines-1 : Fits(p, request.size) =>
       p < SearchLine /\ SearchLine <= p + request.size]_vars

(* A heap whose blocks have all been freed again serves any request it     *)
(* could serve at first.                                                   *)
EmptyHeapServes ==
  [][AllocFails /\ live = {} /\ leaked = {} => request.size >= Lines]_vars

(* The manager implements an allocator.                                    *)
Pool == INSTANCE BlockPool WITH held <- Taken
PoolSpec == Pool!Spec
=============================================================================
