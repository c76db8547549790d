----------------------------- MODULE MCDataFlow ----------------------------
(***************************************************************************)
(* DataFlow with a bound on the search: with a block leaked no step is     *)
(* taken from where the last packet has been sent.  What packets do to one *)
(* another does not depend on the blocks; what a switch broken off for     *)
(* want of memory does to them shows with fewer.                           *)
(***************************************************************************)
EXTENDS DataFlow

FewSends == leaked > 0 => sent < MaxSends
=============================================================================
