---------------------------- MODULE CommandPort ----------------------------
(***************************************************************************)
(* What the command mailbox promises a host that writes a command only     *)
(* when the one before it is over: it is performed once, as it was         *)
(* written, and when it is over the reply is its own.                      *)
(*                                                                         *)
(* Not all of a reply comes at once: its text changes while it is stored,  *)
(* and of some the length is announced before the text.  A command that    *)
(* fails announces its length all the same, over the text of an earlier    *)
(* one.  The promise ends with a command written too early, and is renewed *)
(* with the first one written when the port is idle again.                 *)
(***************************************************************************)
CONSTANTS
  Commands,   \* the commands of the host
  NoCommand,  \* there is none
  AnswerTo,   \* the reply to each command that has one
  Texts,      \* what the reply may be made of on the way
  Lengths,
  Hasty,      \* the commands that announce the length before the text
  Fallible    \* the commands that may fail

Replying == DOMAIN AnswerTo

VARIABLES
  stage,    \* how far the command is
  command,  \* the command
  reply     \* the reply the host may fetch, and its length

portVars == <<stage, command, reply>>

Init ==
  /\ stage = "idle"
  /\ command = NoCommand
  /\ reply \in [text : Texts, length : Lengths]

Ask(c) ==
  /\ stage = "idle" /\ stage' = "asked"
  /\ command' = c
  /\ UNCHANGED reply

\* The host writes something that is no command.
AskNothing ==
  /\ stage = "idle" /\ stage' = "over"
  /\ UNCHANGED <<command, reply>>

\* The host writes before the last command is over.
Overwrite ==
  /\ stage # "idle" /\ stage' = "lost"
  /\ command' = NoCommand
  /\ UNCHANGED reply

Muddle ==
  /\ stage = "lost" /\ stage' \in {"lost", "idle"}
  /\ reply' \in [text : Texts, length : Lengths]
  /\ UNCHANGED command

Take ==
  /\ stage = "asked" /\ stage' = "taken"
  /\ UNCHANGED <<command, reply>>

\* A command without a reply leaves the last one as it is.
Perform ==
  /\ stage = "taken" /\ command \notin Replying
  /\ stage' = "over"
  /\ command' = NoCommand
  /\ UNCHANGED reply

Store ==
  /\ stage \in {"taken", "storing"} /\ command \in Replying
  /\ stage' = "storing"
  /\ \E t \in Texts :
       \/ reply' = [reply EXCEPT !.text = t]
       \/ command \in Hasty /\ reply' = [text |-> t, length |-> AnswerTo[command].length]
  /\ UNCHANGED command

Publish ==
  /\ stage = "storing" /\ stage' = "over"
  /\ reply' = AnswerTo[command]
  /\ command' = NoCommand

Fail ==
  /\ stage = "taken" /\ command \in Fallible
  /\ stage' = "failed"
  /\ UNCHANGED <<command, reply>>

Mislead ==
  /\ stage = "failed" /\ stage' = "over"
  /\ reply' = [reply EXCEPT !.length = AnswerTo[command].length]
  /\ command' = NoCommand

Rest ==
  /\ stage = "over" /\ stage' = "idle"
  /\ UNCHANGED <<command, reply>>

Next ==
  \/ Overwrite \/ Muddle
  \/ Take \/ Perform \/ Store \/ Publish \/ Fail \/ Mislead \/ Rest
  \/ AskNothing \/ \E c \in Commands : Ask(c)

Spec == Init /\ [][Next]_portVars
=============================================================================
