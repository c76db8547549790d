---------------------------- MODULE MemFnsProofs ---------------------------
(***************************************************************************)
(* The memory functions are right for a block, a memory and bytes of any   *)
(* size.                                                                   *)
(*                                                                         *)
(* The loop invariant says how far the loop has come: going up, the bytes  *)
(* below Done have their new value and all others their old one; going     *)
(* down, the bytes from Left on.  The direction makes the source byte of   *)
(* the next assignment one that still has its old value.                   *)
(***************************************************************************)
EXTENDS MemFns, TLAPS

\* What byte a of the destination gets.
Wanted(a) ==
  IF args.fn = "set" THEN args.data ELSE was[args.src + (a - args.dest)]

Fits == Region(args.dest, args.count) /\ Region(args.src, args.count)

Done == args.count - count + k
Left == count + k

UpInv ==
  op \in {"set", "up"} =>
    /\ args.fn = IF op = "set" THEN "set" ELSE "copy"
    /\ op = "up" => args.dest <= args.src
    /\ count <= args.count
    /\ dest = args.dest + (args.count - count)
    /\ src = args.src + (args.count - count)
    /\ k < Unroll /\ (k > 0 => count >= Unroll)
    /\ \A a \in Addrs :
         mem[a] = IF args.dest <= a /\ a < args.dest + Done THEN Wanted(a) ELSE was[a]

DownInv ==
  op = "down" =>
    /\ args.fn = "copy"
    /\ args.src < args.dest
    /\ count + k <= args.count
    /\ dest = args.dest + count
    /\ src = args.src + count
    /\ \A a \in Addrs :
         mem[a] = IF args.dest + Left <= a /\ a < args.dest + args.count
                  THEN Wanted(a) ELSE was[a]

CmpInv ==
  op = "cmp" =>
    /\ args.fn = "cmp"
    /\ mem = was
    /\ k = 0 /\ result = 0
    /\ count <= args.count
    /\ dest = args.dest + (args.count - count)
    /\ src = args.src + (args.count - count)
    /\ \A i \in 0..(args.count - count - 1) : ~Differ(i)

Exact == CopyExact /\ SetExact /\ CmpExact

IInv == TypeOK /\ Fits /\ UpInv /\ DownInv /\ CmpInv /\ Exact

(* Records.                                                                *)
LEMMA ArgsType ==
  ASSUME TypeOK
  PROVE  /\ args.fn \in Fns
         /\ args.dest \in Nat /\ args.dest <= Size
         /\ args.src \in Nat /\ args.src <= Size
         /\ args.count \in Nat /\ args.count <= Size
         /\ args.data \in Bytes
BY MemAssumption DEF TypeOK

LEMMA InitInv == Init => IInv
<1> SUFFICES ASSUME Init PROVE IInv
  OBVIOUS
<1> USE MemAssumption DEF Init, NoArgs
<1>1. TypeOK
  BY DEF TypeOK, Fns, Bytes, Addrs
<1>2. Fits
  BY DEF Fits, Region
<1>3. UpInv /\ DownInv /\ CmpInv
  BY DEF UpInv, DownInv, CmpInv
<1>4. Exact
  <2>1. args.fn = "set" /\ args.dest = 0 /\ args.count = 0 /\ mem = was
    OBVIOUS
  <2>2. \A a \in Addrs : ~InDest(a)
    BY <2>1 DEF InDest, Addrs
  <2> QED BY <2>1, <2>2 DEF Exact, CopyExact, SetExact, CmpExact
<1> QED BY <1>1, <1>2, <1>3, <1>4 DEF IInv

(* A call begins its loop with nothing done.                               *)
LEMMA CallInv == IInv /\ Call => IInv'
<1> SUFFICES ASSUME IInv, Call PROVE IInv'
  OBVIOUS
<1> USE MemAssumption
<1>0. TypeOK
  BY DEF IInv
<1>1. PICK fn \in Fns, d \in Addrs, s \in Addrs, n \in 0..Size, b \in Bytes,
           loop \in {"set", "up", "down", "cmp"}, at \in 0..Size :
        /\ Enter(fn, d, s, n, b, loop, at)
        /\ \/ fn = "set" /\ loop = "set" /\ at = 0
           \/ fn = "copy" /\ loop = "down" /\ at = n /\ d > s
           \/ fn = "copy" /\ loop = "up" /\ at = 0 /\ d <= s
           \/ fn = "cmp" /\ loop = "cmp" /\ at = 0
  BY DEF Call, MemSet, MemCopy, MemCmp, Fns, Bytes
<1>2. /\ op' = loop /\ dest' = d + at /\ src' = s + at /\ count' = n /\ k' = 0
      /\ result' = 0 /\ mem' = mem /\ was' = mem
      /\ args' = [fn |-> fn, dest |-> d, src |-> s, count |-> n, data |-> b]
      /\ d + n <= Size /\ s + n <= Size
  BY <1>1 DEF Enter, Region
<1>3. /\ args'.fn = fn /\ args'.dest = d /\ args'.src = s /\ args'.count = n
      /\ args'.data = b
  BY <1>2
<1>4. d \in 0..Size /\ s \in 0..Size /\ d + at \in 0..Size /\ s + at \in 0..Size
  BY <1>1, <1>2 DEF Addrs
<1>5. TypeOK'
  <2>1. args' \in [fn : Fns, dest : 0..Size, src : 0..Size, count : 0..Size, data : Bytes]
    BY <1>2, <1>4
  <2> QED BY <1>0, <1>2, <1>4, <2>1 DEF TypeOK
<1>6. Fits'
  BY <1>2, <1>3 DEF Fits, Region
<1>7. UpInv'
  BY <1>1, <1>2, <1>3 DEF UpInv, Done, Addrs
<1>8. DownInv'
  BY <1>1, <1>2, <1>3 DEF DownInv, Left, Addrs
<1>9. CmpInv'
  BY <1>1, <1>2, <1>3 DEF CmpInv
<1>10. Exact'
  BY <1>2 DEF Exact, CopyExact, SetExact, CmpExact
<1> QED BY <1>5, <1>6, <1>7, <1>8, <1>9, <1>10 DEF IInv

(* Going up, the byte read lies at or above the byte written.              *)
LEMMA BlockUpInv == IInv /\ BlockUp => IInv'
<1> SUFFICES ASSUME IInv, BlockUp PROVE IInv'
  OBVIOUS
<1> USE MemAssumption
<1>0. TypeOK /\ Fits /\ UpInv
  BY DEF IInv
<1>1. /\ op \in {"set", "up"} /\ count >= Unroll
      /\ mem' = [mem EXCEPT ![dest + k] = Value(k)]
      /\ op' = op /\ result' = result /\ args' = args /\ was' = was
      /\ \/ /\ k + 1 = Unroll /\ dest' = dest + Unroll /\ src' = src + Unroll
            /\ count' = count - Unroll /\ k' = 0
         \/ k + 1 # Unroll /\ k' = k + 1 /\ dest' = dest /\ src' = src /\ count' = count
  BY DEF BlockUp
<1>2. /\ args.dest \in Nat /\ args.src \in Nat /\ args.count \in Nat
      /\ args.data \in Bytes /\ count \in Nat /\ k \in Nat /\ dest \in Nat /\ src \in Nat
      /\ mem \in [Addrs -> Bytes] /\ was \in [Addrs -> Bytes]
  BY <1>0, ArgsType DEF TypeOK
<1>3. /\ args.dest + args.count <= Size /\ args.src + args.count <= Size
  BY <1>0 DEF Fits, Region
<1>4. /\ args.fn = IF op = "set" THEN "set" ELSE "copy"
      /\ op = "up" => args.dest <= args.src
      /\ count <= args.count
      /\ dest = args.dest + (args.count - count)
      /\ src = args.src + (args.count - count)
      /\ k < Unroll
      /\ \A a \in Addrs :
           mem[a] = IF args.dest <= a /\ a < args.dest + Done THEN Wanted(a) ELSE was[a]
  BY <1>0, <1>1 DEF UpInv
<1>5. dest + k = args.dest + Done /\ src + k = args.src + Done
  BY <1>2, <1>4 DEF Done
<1>6. dest + k \in Addrs /\ src + k \in Addrs
  <2>1. dest + k < args.dest + args.count /\ src + k < args.src + args.count
    BY <1>1, <1>2, <1>4
  <2>2. dest + k \in Nat /\ src + k \in Nat
    BY <1>2
  <2> QED BY <1>2, <1>3, <2>1, <2>2 DEF Addrs
<1>7. Value(k) = Wanted(dest + k) /\ Value(k) \in Bytes
  <2>1. CASE op = "set"
    BY <2>1, <1>2, <1>4 DEF Value, Wanted
  <2>2. CASE op = "up"
    <3>1. mem[src + k] = was[src + k]
      BY <2>2, <1>2, <1>4, <1>5, <1>6
    <3>2. args.src + ((dest + k) - args.dest) = src + k
      BY <1>2, <1>4
    <3>3. Value(k) = mem[src + k] /\ Wanted(dest + k) = was[src + k]
      BY <2>2, <3>2, <1>4 DEF Value, Wanted
    <3> QED BY <3>1, <3>3, <1>2, <1>6
  <2> QED BY <1>1, <2>1, <2>2
<1>8. Done' = Done + 1
  BY <1>1, <1>2 DEF Done
<1>9. \A a \in Addrs :
        mem'[a] = IF args.dest <= a /\ a < args.dest + Done' THEN Wanted(a) ELSE was[a]
  <2> SUFFICES ASSUME NEW a \in Addrs
               PROVE  mem'[a] = IF args.dest <= a /\ a < args.dest + Done'
                                THEN Wanted(a) ELSE was[a]
    OBVIOUS
  <2>0. a \in Int /\ Done \in Nat
    BY <1>2, <1>4 DEF Addrs, Done
  <2>1. CASE a = dest + k
    BY <2>0, <2>1, <1>1, <1>2, <1>5, <1>6, <1>7, <1>8
  <2>2. CASE a # dest + k
    <3>1. mem'[a] = mem[a]
      BY <2>2, <1>1, <1>2
    <3>2. (args.dest <= a /\ a < args.dest + Done')
            <=> (args.dest <= a /\ a < args.dest + Done)
      BY <2>0, <2>2, <1>2, <1>5, <1>8
    <3> QED BY <3>1, <3>2, <1>4
  <2> QED BY <2>1, <2>2
<1>10. TypeOK'
  <2>1. mem' \in [Addrs -> Bytes]
    BY <1>1, <1>2, <1>7
  <2>2. dest' \in 0..Size /\ src' \in 0..Size /\ count' \in 0..Size /\ k' \in 0..Unroll
    BY <1>1, <1>2, <1>3, <1>4
  <2> QED BY <1>0, <1>1, <2>1, <2>2 DEF TypeOK
<1>11. UpInv'
  <2>1. \A a \in Addrs : Wanted(a)' = Wanted(a)
    BY <1>1 DEF Wanted
  <2>2. \A a \in Addrs :
          mem'[a] = IF args'.dest <= a /\ a < args'.dest + Done'
                    THEN Wanted(a)' ELSE was'[a]
    BY <1>1, <1>9, <2>1
  <2>3. /\ count' <= args'.count
        /\ dest' = args'.dest + (args'.count - count')
        /\ src' = args'.src + (args'.count - count')
        /\ k' < Unroll /\ (k' > 0 => count' >= Unroll)
    BY <1>1, <1>2, <1>4
  <2> QED BY <1>1, <1>4, <2>2, <2>3 DEF UpInv
<1>12. Fits' /\ DownInv' /\ CmpInv' /\ Exact'
  BY <1>0, <1>1 DEF Fits, Region, DownInv, CmpInv, Exact, CopyExact, SetExact, CmpExact
<1> QED BY <1>10, <1>11, <1>12 DEF IInv

LEMMA ByteUpInv == IInv /\ ByteUp => IInv'
<1> SUFFICES ASSUME IInv, ByteUp PROVE IInv'
  OBVIOUS
<1> USE MemAssumption
<1>0. TypeOK /\ Fits /\ UpInv
  BY DEF IInv
<1>1. /\ op \in {"set", "up"} /\ 0 < count /\ count < Unroll
      /\ mem' = [mem EXCEPT ![dest] = Value(0)]
      /\ op' = op /\ result' = result /\ args' = args /\ was' = was /\ k' = k
      /\ dest' = dest + 1 /\ src' = src + 1 /\ count' = count - 1
  BY DEF ByteUp
<1>2. /\ args.dest \in Nat /\ args.src \in Nat /\ args.count \in Nat
      /\ args.data \in Bytes /\ count \in Nat /\ k \in Nat /\ dest \in Nat /\ src \in Nat
      /\ mem \in [Addrs -> Bytes] /\ was \in [Addrs -> Bytes]
  BY <1>0, ArgsType DEF TypeOK
<1>3. /\ args.dest + args.count <= Size /\ args.src + args.count <= Size
  BY <1>0 DEF Fits, Region
<1>4. /\ args.fn = IF op = "set" THEN "set" ELSE "copy"
      /\ op = "up" => args.dest <= args.src
      /\ count <= args.count
      /\ dest = args.dest + (args.count - count)
      /\ src = args.src + (args.count - count)
      /\ k = 0
      /\ \A a \in Addrs :
           mem[a] = IF args.dest <= a /\ a < args.dest + Done THEN Wanted(a) ELSE was[a]
  BY <1>0, <1>1, <1>2 DEF UpInv
<1>5. dest = args.dest + Done /\ src = args.src + Done
  BY <1>2, <1>4 DEF Done
<1>6. dest \in Addrs /\ src \in Addrs
  <2>1. dest < args.dest + args.count /\ src < args.src + args.count
    BY <1>1, <1>2, <1>4
  <2> QED BY <1>2, <1>3, <2>1 DEF Addrs
<1>7. Value(0) = Wanted(dest) /\ Value(0) \in Bytes
  <2>1. CASE op = "set"
    BY <2>1, <1>2, <1>4 DEF Value, Wanted
  <2>2. CASE op = "up"
    <3>1. mem[src] = was[src]
      BY <2>2, <1>2, <1>4, <1>5, <1>6
    <3>2. args.src + (dest - args.dest) = src /\ src + 0 = src
      BY <1>2, <1>4
    <3>3. Value(0) = mem[src] /\ Wanted(dest) = was[src]
      BY <2>2, <3>2, <1>4 DEF Value, Wanted
    <3> QED BY <3>1, <3>3, <1>2, <1>6
  <2> QED BY <1>1, <2>1, <2>2
<1>8. Done' = Done + 1
  BY <1>1, <1>2, <1>4 DEF Done
<1>9. \A a \in Addrs :
        mem'[a] = IF args.dest <= a /\ a < args.dest + Done' THEN Wanted(a) ELSE was[a]
  <2> SUFFICES ASSUME NEW a \in Addrs
               PROVE  mem'[a] = IF args.dest <= a /\ a < args.dest + Done'
                                THEN Wanted(a) ELSE was[a]
    OBVIOUS
  <2>0. a \in Int /\ Done \in Nat
    BY <1>2, <1>4 DEF Addrs, Done
  <2>1. CASE a = dest
    BY <2>0, <2>1, <1>1, <1>2, <1>5, <1>6, <1>7, <1>8
  <2>2. CASE a # dest
    <3>1. mem'[a] = mem[a]
      BY <2>2, <1>1, <1>2
    <3>2. (args.dest <= a /\ a < args.dest + Done')
            <=> (args.dest <= a /\ a < args.dest + Done)
      <4>1. a # args.dest + Done /\ Done' = Done + 1
        BY <2>2, <1>5, <1>8
      <4> QED BY <4>1, <2>0, <1>2
    <3> QED BY <3>1, <3>2, <1>4
  <2> QED BY <2>1, <2>2
<1>10. TypeOK'
  <2>1. mem' \in [Addrs -> Bytes]
    BY <1>1, <1>2, <1>7
  <2>2. dest' \in 0..Size /\ src' \in 0..Size /\ count' \in 0..Size
    BY <1>0, <1>1, <1>2, <1>6 DEF Addrs, TypeOK
  <2> QED BY <1>0, <1>1, <2>1, <2>2 DEF TypeOK
<1>11. UpInv'
  <2>1. \A a \in Addrs : Wanted(a)' = Wanted(a)
    BY <1>1 DEF Wanted
  <2>2. \A a \in Addrs :
          mem'[a] = IF args'.dest <= a /\ a < args'.dest + Done'
                    THEN Wanted(a)' ELSE was'[a]
    BY <1>1, <1>9, <2>1
  <2>3. /\ count' <= args'.count
        /\ dest' = args'.dest + (args'.count - count')
        /\ src' = args'.src + (args'.count - count')
        /\ k' < Unroll /\ (k' > 0 => count' >= Unroll)
    BY <1>1, <1>2, <1>4
  <2> QED BY <1>1, <1>4, <2>2, <2>3 DEF UpInv
<1>12. Fits' /\ DownInv' /\ CmpInv' /\ Exact'
  BY <1>0, <1>1 DEF Fits, Region, DownInv, CmpInv, Exact, CopyExact, SetExact, CmpExact
<1> QED BY <1>10, <1>11, <1>12 DEF IInv

LEMMA BlockDownInv == IInv /\ BlockDown => IInv'
<1> SUFFICES ASSUME IInv, BlockDown PROVE IInv'
  OBVIOUS
<1> USE MemAssumption
<1>0. TypeOK /\ Fits /\ DownInv
  BY DEF IInv
<1>1. /\ op = "down" /\ k = 0 /\ count >= Unroll
      /\ dest' = dest - Unroll /\ src' = src - Unroll /\ count' = count - Unroll
      /\ k' = Unroll
      /\ mem' = mem /\ op' = op /\ result' = result /\ args' = args /\ was' = was
  BY DEF BlockDown
<1>2. /\ args.dest \in Nat /\ args.src \in Nat /\ count \in 0..Size
      /\ dest \in 0..Size /\ src \in 0..Size
  BY <1>0, ArgsType DEF TypeOK
<1>3. dest = args.dest + count /\ src = args.src + count
  BY <1>0, <1>1 DEF DownInv
<1>4. Left' = Left /\ count' + k' = count + k
  BY <1>1, <1>2 DEF Left
<1>5. TypeOK'
  <2>1. dest' \in 0..Size /\ src' \in 0..Size /\ count' \in 0..Size /\ k' \in 0..Unroll
    BY <1>1, <1>2, <1>3
  <2> QED BY <1>0, <1>1, <2>1 DEF TypeOK
<1>6. DownInv'
  <2>1. \A a \in Addrs : Wanted(a)' = Wanted(a)
    BY <1>1 DEF Wanted
  <2>2. dest' = args'.dest + count' /\ src' = args'.src + count'
    BY <1>1, <1>2, <1>3
  <2> QED BY <1>0, <1>1, <1>4, <2>1, <2>2 DEF DownInv
<1>7. Fits' /\ UpInv' /\ CmpInv' /\ Exact'
  BY <1>0, <1>1 DEF Fits, Region, UpInv, CmpInv, Exact, CopyExact, SetExact, CmpExact
<1> QED BY <1>5, <1>6, <1>7 DEF IInv

(* Going down, the byte read lies below the byte written.  Both steps that *)
(* assign write at Left - 1.                                               *)
LEMMA DownInvStep ==
  IInv /\ (AssignDown \/ ByteDown) => IInv'
<1> SUFFICES ASSUME IInv, AssignDown \/ ByteDown PROVE IInv'
  OBVIOUS
<1> USE MemAssumption
<1> DEFINE d == args.dest + (Left - 1)
           s == args.src + (Left - 1)
<1>0. TypeOK /\ Fits /\ DownInv
  BY DEF IInv
<1>1. op = "down" /\ op' = op /\ result' = result /\ args' = args /\ was' = was
  BY DEF AssignDown, ByteDown
<1>2. /\ args.dest \in Nat /\ args.src \in Nat /\ args.count \in Nat
      /\ count \in Nat /\ k \in Nat /\ dest \in Nat /\ src \in Nat
      /\ mem \in [Addrs -> Bytes] /\ was \in [Addrs -> Bytes]
  BY <1>0, ArgsType DEF TypeOK
<1>3. /\ args.dest + args.count <= Size /\ args.src + args.count <= Size
  BY <1>0 DEF Fits, Region
<1>4. /\ args.fn = "copy" /\ args.src < args.dest
      /\ count + k <= args.count
      /\ dest = args.dest + count
      /\ src = args.src + count
      /\ \A a \in Addrs :
           mem[a] = IF args.dest + Left <= a /\ a < args.dest + args.count
                    THEN Wanted(a) ELSE was[a]
  BY <1>0, <1>1 DEF DownInv
<1>5. /\ mem' = [mem EXCEPT ![d] = mem[s]]
      /\ Left > 0 /\ Left' = Left - 1
      /\ count' \in Nat /\ k' \in 0..Unroll /\ count' <= count
      /\ dest' = args.dest + count' /\ src' = args.src + count'
  <2>1. CASE AssignDown
    <3>1. /\ k > 0 /\ k' = k - 1 /\ mem' = [mem EXCEPT ![dest + k'] = mem[src + k']]
          /\ dest' = dest /\ src' = src /\ count' = count
      BY <2>1 DEF AssignDown
    <3>2. dest + k' = d /\ src + k' = s
      BY <3>1, <1>2, <1>4 DEF Left
    <3>3. Left > 0 /\ Left' = Left - 1 /\ k' \in 0..Unroll
      BY <3>1, <1>0, <1>2 DEF Left, TypeOK
    <3>4. mem' = [mem EXCEPT ![d] = mem[s]]
      BY <3>1, <3>2
    <3>5. /\ count' \in Nat /\ count' <= count
          /\ dest' = args.dest + count' /\ src' = args.src + count'
      BY <3>1, <1>2, <1>4
    <3> QED BY <3>3, <3>4, <3>5
  <2>2. CASE ByteDown
    <3>1. /\ k = 0 /\ k' = k /\ 0 < count
          /\ dest' = dest - 1 /\ src' = src - 1 /\ count' = count - 1
          /\ mem' = [mem EXCEPT ![dest'] = mem[src']]
      BY <2>2 DEF ByteDown
    <3>2. dest' = d /\ src' = s
      BY <3>1, <1>2, <1>4 DEF Left
    <3>3. Left > 0 /\ Left' = Left - 1 /\ k' \in 0..Unroll
      BY <3>1, <1>0, <1>2 DEF Left, TypeOK
    <3>4. count' \in Nat /\ count' <= count
      BY <3>1, <1>2
    <3>5. dest' = args.dest + count' /\ src' = args.src + count'
      BY <3>1, <1>2, <1>4
    <3> QED BY <3>1, <3>2, <3>3, <3>4, <3>5
  <2> QED BY <2>1, <2>2
<1>6. Left \in Nat /\ Left <= args.count
  BY <1>2, <1>4 DEF Left
<1>7. d \in Addrs /\ s \in Addrs
  <2>1. Left > 0
    BY <1>5
  <2> QED BY <2>1, <1>2, <1>3, <1>6 DEF Addrs
<1>8. mem[s] = Wanted(d) /\ mem[s] \in Bytes
  <2>1. mem[s] = was[s]
    <3>1. s \in Addrs /\ s < args.dest + Left
      BY <1>2, <1>4, <1>6, <1>7
    <3>2. ~(args.dest + Left <= s)
      BY <3>1, <1>2, <1>6
    <3> QED BY <3>1, <3>2, <1>4
  <2>2. args.src + (d - args.dest) = s
    BY <1>2, <1>6
  <2> QED BY <2>1, <2>2, <1>2, <1>4, <1>7 DEF Wanted
<1>9. \A a \in Addrs :
        mem'[a] = IF args.dest + Left' <= a /\ a < args.dest + args.count
                  THEN Wanted(a) ELSE was[a]
  <2> SUFFICES ASSUME NEW a \in Addrs
               PROVE  mem'[a] = IF args.dest + Left' <= a /\ a < args.dest + args.count
                                THEN Wanted(a) ELSE was[a]
    OBVIOUS
  <2>0. a \in Int
    BY DEF Addrs
  <2>1. CASE a = d
    <3>1. mem'[a] = Wanted(a)
      BY <2>1, <1>2, <1>5, <1>7, <1>8
    <3>2. args.dest + Left' <= a /\ a < args.dest + args.count
      BY <2>1, <1>2, <1>5, <1>6
    <3> QED BY <3>1, <3>2
  <2>2. CASE a # d
    <3>1. mem'[a] = mem[a]
      BY <2>2, <1>2, <1>5
    <3>2. args.dest + Left' <= a <=> args.dest + Left <= a
      BY <2>0, <2>2, <1>2, <1>5, <1>6
    <3> QED BY <3>1, <3>2, <1>4
  <2> QED BY <2>1, <2>2
<1>10. TypeOK'
  <2>1. mem' \in [Addrs -> Bytes]
    BY <1>2, <1>5, <1>8
  <2>2. dest' \in 0..Size /\ src' \in 0..Size /\ count' \in 0..Size
    BY <1>2, <1>3, <1>4, <1>5
  <2> QED BY <1>0, <1>1, <1>5, <2>1, <2>2 DEF TypeOK
<1>11. DownInv'
  <2>1. \A a \in Addrs : Wanted(a)' = Wanted(a)
    BY <1>1 DEF Wanted
  <2>2. count' + k' <= args'.count
    <3>1. count' + k' = Left - 1
      BY <1>5 DEF Left
    <3> QED BY <3>1, <1>1, <1>2, <1>6
  <2>3. \A a \in Addrs :
          mem'[a] = IF args'.dest + Left' <= a /\ a < args'.dest + args'.count
                    THEN Wanted(a)' ELSE was'[a]
    BY <1>1, <1>9, <2>1
  <2> QED BY <1>1, <1>4, <1>5, <2>2, <2>3 DEF DownInv
<1>12. Fits' /\ UpInv' /\ CmpInv' /\ Exact'
  BY <1>0, <1>1 DEF Fits, Region, UpInv, CmpInv, Exact, CopyExact, SetExact, CmpExact
<1> QED BY <1>10, <1>11, <1>12 DEF IInv

(* Up to count the bytes are equal; the first that differ end the loop.    *)
LEMMA CompareInv == IInv /\ Compare => IInv'
<1> SUFFICES ASSUME IInv, Compare PROVE IInv'
  OBVIOUS
<1> USE MemAssumption
<1>0. TypeOK /\ Fits /\ CmpInv
  BY DEF IInv
<1>1. /\ op = "cmp" /\ count > 0 /\ count' = count - 1
      /\ mem' = mem /\ k' = k /\ args' = args /\ was' = was
  BY DEF Compare
<1>2. /\ args.dest \in Nat /\ args.src \in Nat /\ args.count \in Nat
      /\ count \in Nat /\ mem \in [Addrs -> Bytes]
      /\ dest \in 0..Size /\ src \in 0..Size
  BY <1>0, ArgsType DEF TypeOK
<1>3. args.dest + args.count <= Size /\ args.src + args.count <= Size
  BY <1>0 DEF Fits, Region
<1>4. /\ args.fn = "cmp" /\ mem = was /\ k = 0 /\ result = 0 /\ count <= args.count
      /\ dest = args.dest + (args.count - count)
      /\ src = args.src + (args.count - count)
      /\ \A i \in 0..(args.count - count - 1) : ~Differ(i)
  BY <1>0, <1>1 DEF CmpInv
<1> DEFINE i0 == args.count - count
<1>5. i0 \in 0..(args.count - 1)
  BY <1>1, <1>2, <1>4
<1>6. Differ(i0) <=> mem[dest] # mem[src]
  BY <1>4 DEF Differ
<1>7. mem[dest] \in Bytes /\ mem[src] \in Bytes
  BY <1>1, <1>2, <1>3, <1>4 DEF Addrs
<1>8. CASE mem[dest] # mem[src]
  <2>1. /\ result' = mem[dest] - mem[src] /\ op' = "returned"
        /\ dest' = dest /\ src' = src
    BY <1>8 DEF Compare
  <2>2. result' \in -MaxByte..MaxByte
    BY <2>1, <1>7 DEF Bytes
  <2>3. TypeOK'
    <3>1. count' \in 0..Size
      BY <1>0, <1>1 DEF TypeOK
    <3> QED BY <1>0, <1>1, <2>1, <2>2, <3>1 DEF TypeOK
  <2>4. CmpExact'
    <3>1. \A j \in 0..(i0 - 1) : ~Differ(j)
      BY <1>4
    <3>2. result' = was[args.dest + i0] - was[args.src + i0]
      BY <1>4, <2>1
    <3>3. Differ(i0)
      BY <1>6, <1>8
    <3>4. \A i : Differ(i)' <=> Differ(i)
      BY <1>1 DEF Differ
    <3> QED BY <1>1, <1>4, <1>5, <3>1, <3>2, <3>3, <3>4 DEF CmpExact
  <2>5. Exact'
    BY <1>1, <1>4, <2>4 DEF Exact, CopyExact, SetExact
  <2>6. Fits' /\ UpInv' /\ DownInv' /\ CmpInv'
    BY <1>0, <1>1, <2>1 DEF Fits, Region, UpInv, DownInv, CmpInv
  <2> QED BY <2>3, <2>5, <2>6 DEF IInv
<1>9. CASE mem[dest] = mem[src]
  <2>1. /\ dest' = dest + 1 /\ src' = src + 1 /\ op' = op /\ result' = result
    BY <1>9 DEF Compare
  <2>2. TypeOK'
    <3>1. count' \in 0..Size /\ dest' \in 0..Size /\ src' \in 0..Size
      BY <1>0, <1>1, <1>2, <1>3, <1>4, <2>1 DEF TypeOK
    <3> QED BY <1>0, <1>1, <2>1, <3>1 DEF TypeOK
  <2>3. CmpInv'
    <3>1. \A i : Differ(i)' <=> Differ(i)
      BY <1>1 DEF Differ
    <3>2. ~Differ(i0)
      BY <1>6, <1>9
    <3>3. \A i \in 0..(args.count - count' - 1) : i = i0 \/ i \in 0..(args.count - count - 1)
      BY <1>1, <1>2, <1>4
    <3>4. \A i \in 0..(args'.count - count' - 1) : ~Differ(i)'
      BY <1>1, <1>4, <3>1, <3>2, <3>3
    <3>5. /\ count' <= args'.count
          /\ dest' = args'.dest + (args'.count - count')
          /\ src' = args'.src + (args'.count - count')
      BY <1>1, <1>2, <1>4, <2>1
    <3> QED BY <1>1, <1>4, <2>1, <3>4, <3>5 DEF CmpInv
  <2>4. Fits' /\ UpInv' /\ DownInv' /\ Exact'
    BY <1>0, <1>1, <2>1
      DEF Fits, Region, UpInv, DownInv, Exact, CopyExact, SetExact, CmpExact
  <2> QED BY <2>2, <2>3, <2>4 DEF IInv
<1> QED BY <1>8, <1>9

(* At the end of its loop a function has done all it should.               *)
LEMMA ReturnInv == IInv /\ Return => IInv'
<1> SUFFICES ASSUME IInv, Return PROVE IInv'
  OBVIOUS
<1> USE MemAssumption
<1>0. TypeOK /\ Fits /\ UpInv /\ DownInv /\ CmpInv
  BY DEF IInv
<1>1. /\ op \in {"set", "up", "down", "cmp"} /\ count = 0 /\ k = 0 /\ op' = "returned"
      /\ mem' = mem /\ dest' = dest /\ src' = src /\ count' = count /\ k' = k
      /\ result' = result /\ args' = args /\ was' = was
  BY <1>0 DEF Return, TypeOK
<1>2. args.dest \in Nat /\ args.src \in Nat /\ args.count \in Nat
  BY <1>0, ArgsType
<1>3. TypeOK' /\ Fits' /\ UpInv' /\ DownInv' /\ CmpInv'
  BY <1>0, <1>1 DEF TypeOK, Fits, Region, UpInv, DownInv, CmpInv
<1>4. \A a : InDest(a)' <=> InDest(a)
  BY <1>1 DEF InDest
<1>5. \A a : Wanted(a) = IF args.fn = "set" THEN args.data
                         ELSE was[args.src + (a - args.dest)]
  BY DEF Wanted
<1>6. CASE op \in {"set", "up"}
  <2>1. /\ args.fn \in {"set", "copy"}
        /\ \A a \in Addrs :
             mem[a] = IF args.dest <= a /\ a < args.dest + Done THEN Wanted(a) ELSE was[a]
    BY <1>0, <1>6 DEF UpInv
  <2>2. Done = args.count
    BY <1>1, <1>2 DEF Done
  <2>3. \A a \in Addrs : mem[a] = IF InDest(a) THEN Wanted(a) ELSE was[a]
    BY <2>1, <2>2 DEF InDest
  <2> QED BY <1>1, <1>3, <1>4, <1>5, <2>1, <2>3
        DEF IInv, Exact, CopyExact, SetExact, CmpExact
<1>7. CASE op = "down"
  <2>1. /\ args.fn = "copy"
        /\ \A a \in Addrs :
             mem[a] = IF args.dest + Left <= a /\ a < args.dest + args.count
                      THEN Wanted(a) ELSE was[a]
    BY <1>0, <1>7 DEF DownInv
  <2>2. args.dest + Left = args.dest
    BY <1>1, <1>2 DEF Left
  <2>3. \A a \in Addrs : mem[a] = IF InDest(a) THEN Wanted(a) ELSE was[a]
    BY <2>1, <2>2 DEF InDest
  <2> QED BY <1>1, <1>3, <1>4, <1>5, <2>1, <2>3
        DEF IInv, Exact, CopyExact, SetExact, CmpExact
<1>8. CASE op = "cmp"
  <2>1. /\ args.fn = "cmp" /\ mem = was /\ result = 0
        /\ \A i \in 0..(args.count - 1) : ~Differ(i)
    BY <1>0, <1>1, <1>2, <1>8 DEF CmpInv
  <2>2. \A i : Differ(i)' <=> Differ(i)
    BY <1>1 DEF Differ
  <2> QED BY <1>1, <1>3, <2>1, <2>2
        DEF IInv, Exact, CopyExact, SetExact, CmpExact
<1> QED BY <1>1, <1>6, <1>7, <1>8

THEOREM Invariance == Spec => []IInv
<1>1. IInv /\ [Next]_memVars => IInv'
  <2>1. IInv /\ UNCHANGED memVars => IInv'
    BY DEF IInv, memVars, TypeOK, Fits, Region, UpInv, DownInv, CmpInv, Exact,
           CopyExact, SetExact, CmpExact, InDest, Wanted, Done, Left, Differ
  <2> QED BY <2>1, CallInv, BlockUpInv, ByteUpInv, BlockDownInv, DownInvStep,
             CompareInv, ReturnInv DEF Next
<1> QED BY <1>1, InitInv, PTL DEF Spec

(* Every call keeps to the memory and its results to their range.          *)
THEOREM TypeCorrect == Spec => []TypeOK
<1>1. IInv => TypeOK
  BY DEF IInv
<1> QED BY <1>1, Invariance, PTL

(* CyU3PMemCopy moves a region right, however the two overlap.             *)
THEOREM CopyCorrect == Spec => []CopyExact
<1>1. IInv => CopyExact
  BY DEF IInv, Exact
<1> QED BY <1>1, Invariance, PTL

(* CyU3PMemSet fills its region and nothing else.                          *)
THEOREM SetCorrect == Spec => []SetExact
<1>1. IInv => SetExact
  BY DEF IInv, Exact
<1> QED BY <1>1, Invariance, PTL

(* CyU3PMemCmp returns the difference of the first bytes that differ.      *)
THEOREM CmpCorrect == Spec => []CmpExact
<1>1. IInv => CmpExact
  BY DEF IInv, Exact
<1> QED BY <1>1, Invariance, PTL
=============================================================================
