----------------------------- MODULE BlockPool -----------------------------
(***************************************************************************)
(* What a heap allocator promises: the blocks handed out lie in the heap,  *)
(* each has the size asked for, and no two share a line.  A request may be *)
(* refused at any time.                                                    *)
(***************************************************************************)
EXTENDS Naturals

CONSTANTS Lines,  \* the lines of the heap, 0..Lines-1
          Sizes   \* the block sizes in use, in lines

VARIABLE held     \* the blocks handed out and not yet taken back

Blocks == [start : 0..Lines-1, size : Sizes]
Apart(b, c) == b.start + b.size <= c.start \/ c.start + c.size <= b.start

Init == held = {}

Give(b) ==
  /\ b.start + b.size <= Lines
  /\ \A c \in held : Apart(b, c)
  /\ held' = held \cup {b}

TakeBack(b) == held' = held \ {b}

Next == (\E b \in Blocks : Give(b)) \/ (\E b \in held : TakeBack(b))

Spec == Init /\ [][Next]_held
=============================================================================
