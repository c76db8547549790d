---------------------------- MODULE MCEp0Mailbox ---------------------------
(***************************************************************************)
(* Ep0Mailbox with two registers: the address of one command may meet what *)
(* another has left.                                                       *)
(***************************************************************************)
EXTENDS Ep0Mailbox

CONSTANTS a1, a2, v1

MCAddrs == {a1, a2}
MCVals == {v1}
=============================================================================
