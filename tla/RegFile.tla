------------------------------ MODULE RegFile ------------------------------
(***************************************************************************)
(* What Zing_RegWrite and Zing_RegRead promise their callers: a file of    *)
(* registers.  A write takes effect when its frame is committed; a read    *)
(* returns what its register held when its frame was committed, whatever   *)
(* is written before the answer has come back.                             *)
(*                                                                         *)
(* The promise ends for good when two reads overlap or a client commits a  *)
(* frame another one has built: from then on anything may be returned and  *)
(* anything written.                                                       *)
(***************************************************************************)
CONSTANTS Clients,  \* who accesses the registers
          Addrs,    \* the registers
          Vals,     \* what a register holds
          NoVal     \* a client without a read in progress is owed nothing

VARIABLES
  file,      \* the registers
  owed,      \* what each client's read in progress will return
  disturbed  \* the promise has ended

fileVars == <<file, owed, disturbed>>

Init ==
  /\ file \in [Addrs -> Vals]
  /\ owed = [c \in Clients |-> NoVal]
  /\ disturbed = FALSE

Write(c, a, v) ==
  /\ file' = [file EXCEPT ![a] = v]
  /\ UNCHANGED <<owed, disturbed>>

BeginRead(c, a) ==
  /\ owed[c] = NoVal
  /\ owed' = [owed EXCEPT ![c] = file[a]]
  /\ UNCHANGED <<file, disturbed>>

\* The read returns owed[c].
EndRead(c) ==
  /\ owed[c] # NoVal
  /\ owed' = [owed EXCEPT ![c] = NoVal]
  /\ UNCHANGED <<file, disturbed>>

Disturb ==
  /\ disturbed' = TRUE
  /\ file' \in [Addrs -> Vals]
  /\ owed' \in [Clients -> Vals \cup {NoVal}]

Next ==
  \/ \E c \in Clients, a \in Addrs :
       BeginRead(c, a) \/ \E v \in Vals : Write(c, a, v)
  \/ \E c \in Clients : EndRead(c)
  \/ Disturb

Spec == Init /\ [][Next]_fileVars
=============================================================================
