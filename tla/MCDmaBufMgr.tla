---------------------------- MODULE MCDmaBufMgr ----------------------------
(***************************************************************************)
(* A heap of a few short words, small enough for TLC: blocks inside a      *)
(* word, over two words and over three, one of them more than half of the  *)
(* heap.                                                                   *)
(***************************************************************************)
EXTENDS DmaBufMgr, TLC

CONSTANTS app, drv

MCCallers == {app, drv}
Symmetry == Permutations(MCCallers)
=============================================================================
