------------------------------- MODULE MemFns ------------------------------
(***************************************************************************)
(* CyU3PMemSet, CyU3PMemCopy and CyU3PMemCmp of cyfxtx.c, one assignment   *)
(* of a byte per step.                                                     *)
(*                                                                         *)
(* The loops are unrolled: as long as a whole block is left it is done in  *)
(* one turn, the rest byte by byte.  CyU3PMemCopy goes up or down          *)
(* according to which of its two regions lies higher, which makes it right *)
(* for regions that overlap; inside a block the order of the assignments   *)
(* matters as well.                                                        *)
(***************************************************************************)
EXTENDS Integers

CONSTANTS
  Unroll,  \* bytes of a block (8 in cyfxtx.c)
  Size,    \* bytes of memory
  MaxByte  \* greatest value of a byte (255)

ASSUME MemAssumption ==
  Unroll \in Nat \ {0} /\ Size \in Nat /\ MaxByte \in Nat

Addrs == 0..(Size - 1)
Bytes == 0..MaxByte

VARIABLES
  mem,    \* the memory
  op,     \* the loop that runs, or "returned"
  dest,   \* dest of MemCopy, ptr of MemSet, ptr1 of MemCmp
  src,    \* src of MemCopy, ptr2 of MemCmp
  count,  \* bytes left outside the block under way
  k,      \* going up, bytes of the block done; going down, bytes left of it
  result  \* of MemCmp

(* History variables: no action reads them, but for args.data, the byte    *)
(* of MemSet, which never changes.                                         *)
VARIABLES
  args,  \* the arguments of the last call
  was    \* the memory when it was called

memVars == <<mem, op, dest, src, count, k, result, args, was>>

Fns == {"set", "copy", "cmp"}
NoArgs == [fn |-> "set", dest |-> 0, src |-> 0, count |-> 0, data |-> 0]

Init ==
  /\ mem \in [Addrs -> Bytes]
  /\ op = "returned"
  /\ dest = 0 /\ src = 0 /\ count = 0 /\ k = 0 /\ result = 0
  /\ args = NoArgs /\ was = mem

\* A region of n bytes from p lies in memory.
Region(p, n) == p + n <= Size

\* A call's loop, and where its pointers begin.
Enter(fn, d, s, n, b, loop, at) ==
  /\ op = "returned"
  /\ Region(d, n) /\ Region(s, n)
  /\ op' = loop
  /\ dest' = d + at /\ src' = s + at /\ count' = n /\ k' = 0 /\ result' = 0
  /\ args' = [fn |-> fn, dest |-> d, src |-> s, count |-> n, data |-> b]
  /\ was' = mem
  /\ UNCHANGED mem

MemSet(d, n, b) == Enter("set", d, d, n, b, "set", 0)

\* A mistake: it always copies up.
MemCopyUp(d, s, n) == Enter("copy", d, s, n, 0, "up", 0)

MemCopy(d, s, n) ==
  \/ d > s  /\ Enter("copy", d, s, n, 0, "down", n)
  \/ d <= s /\ Enter("copy", d, s, n, 0, "up", 0)

MemCmp(d, s, n) == Enter("cmp", d, s, n, 0, "cmp", 0)

-----------------------------------------------------------------------------
(* Going up: MemSet, and MemCopy to a lower address.                       *)

\* What is stored i bytes up.
Value(i) == IF op = "set" THEN args.data ELSE mem[src + i]

\* A mistake: the last byte of a block is not written.
BlockUpShort ==
  /\ op \in {"set", "up"} /\ count >= Unroll
  /\ mem' = [mem EXCEPT ![dest + k] = Value(k)]
  /\ IF k + 2 >= Unroll
     THEN /\ dest' = dest + Unroll /\ src' = src + Unroll
          /\ count' = count - Unroll /\ k' = 0
     ELSE k' = k + 1 /\ UNCHANGED <<dest, src, count>>
  /\ UNCHANGED <<op, result, args, was>>

\* An assignment of the block; the last one moves on by a block.
BlockUp ==
  /\ op \in {"set", "up"} /\ count >= Unroll
  /\ mem' = [mem EXCEPT ![dest + k] = Value(k)]
  /\ IF k + 1 = Unroll
     THEN /\ dest' = dest + Unroll /\ src' = src + Unroll
          /\ count' = count - Unroll /\ k' = 0
     ELSE k' = k + 1 /\ UNCHANGED <<dest, src, count>>
  /\ UNCHANGED <<op, result, args, was>>

ByteUp ==
  /\ op \in {"set", "up"} /\ 0 < count /\ count < Unroll
  /\ mem' = [mem EXCEPT ![dest] = Value(0)]
  /\ dest' = dest + 1 /\ src' = src + 1 /\ count' = count - 1
  /\ UNCHANGED <<op, k, result, args, was>>

-----------------------------------------------------------------------------
(* Going down: MemCopy to a higher address.                                *)

\* A mistake: a block is begun for any rest.
BlockDownAny ==
  /\ op = "down" /\ k = 0 /\ count > 0
  /\ dest' = dest - Unroll /\ src' = src - Unroll /\ count' = count - Unroll
  /\ k' = Unroll
  /\ UNCHANGED <<mem, op, result, args, was>>

\* The pointers go down by a block, then the block is assigned from its end.
BlockDown ==
  /\ op = "down" /\ k = 0 /\ count >= Unroll
  /\ dest' = dest - Unroll /\ src' = src - Unroll /\ count' = count - Unroll
  /\ k' = Unroll
  /\ UNCHANGED <<mem, op, result, args, was>>

AssignDown ==
  /\ op = "down" /\ k > 0
  /\ k' = k - 1
  /\ mem' = [mem EXCEPT ![dest + k'] = mem[src + k']]
  /\ UNCHANGED <<op, dest, src, count, result, args, was>>

ByteDown ==
  /\ op = "down" /\ k = 0 /\ 0 < count /\ count < Unroll
  /\ dest' = dest - 1 /\ src' = src - 1 /\ count' = count - 1
  /\ mem' = [mem EXCEPT ![dest'] = mem[src']]
  /\ UNCHANGED <<op, k, result, args, was>>

-----------------------------------------------------------------------------
\* A mistake: it goes on after a difference.
CompareOn ==
  /\ op = "cmp" /\ count > 0
  /\ count' = count - 1
  /\ dest' = dest + 1 /\ src' = src + 1
  /\ result' = IF mem[dest] # mem[src] THEN mem[dest] - mem[src] ELSE result
  /\ UNCHANGED <<mem, op, k, args, was>>

\* MemCmp returns at the first difference.
Compare ==
  /\ op = "cmp" /\ count > 0
  /\ count' = count - 1
  /\ IF mem[dest] # mem[src]
     THEN /\ result' = mem[dest] - mem[src]
          /\ op' = "returned"
          /\ UNCHANGED <<dest, src>>
     ELSE /\ dest' = dest + 1 /\ src' = src + 1
          /\ UNCHANGED <<op, result>>
  /\ UNCHANGED <<mem, k, args, was>>

Return ==
  /\ op # "returned" /\ count = 0 /\ k = 0
  /\ op' = "returned"
  /\ UNCHANGED <<mem, dest, src, count, k, result, args, was>>

Call ==
  \E d \in Addrs, n \in 0..Size :
    \/ \E b \in Bytes : MemSet(d, n, b)
    \/ \E s \in Addrs : MemCopy(d, s, n) \/ MemCmp(d, s, n)

Next ==
  \/ Call
  \/ BlockUp \/ ByteUp
  \/ BlockDown \/ AssignDown \/ ByteDown
  \/ Compare \/ Return

Spec == Init /\ [][Next]_memVars

-----------------------------------------------------------------------------
(* Properties.                                                             *)

TypeOK ==
  /\ mem \in [Addrs -> Bytes]
  /\ op \in {"returned", "set", "up", "down", "cmp"}
  /\ dest \in 0..Size /\ src \in 0..Size /\ count \in 0..Size
  /\ k \in 0..Unroll
  /\ result \in -MaxByte..MaxByte
  /\ args \in [fn : Fns, dest : 0..Size, src : 0..Size, count : 0..Size, data : Bytes]
  /\ was \in [Addrs -> Bytes]

InDest(a) == args.dest <= a /\ a < args.dest + args.count

(* CyU3PMemCopy moves a region to another, overlapping or not, and leaves  *)
(* the rest of memory alone, whatever the count leaves over of a block.    *)
CopyExact ==
  op = "returned" /\ args.fn = "copy" =>
    \A a \in Addrs :
      mem[a] = IF InDest(a) THEN was[args.src + (a - args.dest)] ELSE was[a]

(* CyU3PMemSet fills the region, all of it and nothing else.               *)
SetExact ==
  op = "returned" /\ args.fn = "set" =>
    \A a \in Addrs : mem[a] = IF InDest(a) THEN args.data ELSE was[a]

\* Byte i of the two regions MemCmp compares.
Differ(i) == was[args.dest + i] # was[args.src + i]

(* CyU3PMemCmp returns 0 for equal regions, otherwise the difference of    *)
(* the first bytes that differ, and changes nothing.                       *)
CmpExact ==
  op = "returned" /\ args.fn = "cmp" =>
    /\ mem = was
    /\ \/ result = 0 /\ \A i \in 0..(args.count - 1) : ~Differ(i)
       \/ \E i \in 0..(args.count - 1) :
            /\ Differ(i) /\ \A j \in 0..(i - 1) : ~Differ(j)
            /\ result = was[args.dest + i] - was[args.src + i]
=============================================================================
