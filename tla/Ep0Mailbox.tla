----------------------------- MODULE Ep0Mailbox ----------------------------
(***************************************************************************)
(* The command mailbox on endpoint 0.                                      *)
(*                                                                         *)
(* The host writes a command as text with a vendor request; USBSetupCB     *)
(* copies it into UsbEp0Ctx.HostRxData_ and sets EVT_EP0.  The thread      *)
(* USBEP0RxThread waits for the event, compares and splits the text in     *)
(* place, performs the command, leaves a reply in HostTxData_ and empties  *)
(* the mailbox by HostRxData_idx_ = 0.  The host fetches the reply with a  *)
(* request whose Length must equal HostTxData_idx_.                        *)
(*                                                                         *)
(* USBSetupCB runs in the USB driver's thread and interrupts the command   *)
(* thread anywhere.  Nothing keeps the host from writing the next command  *)
(* while one is in progress, and nothing tells it that one is done.        *)
(***************************************************************************)
EXTENDS Naturals

CONSTANTS
  Addrs,         \* register addresses in range
  Vals,          \* register values
  NoAddr, NoVal  \* text that is no address in range, no value

ASSUME MailboxAssumption == NoAddr \notin Addrs /\ NoVal \notin Vals

-----------------------------------------------------------------------------
(* Commands by what they do to the mailbox and the reply:                  *)
(*   regw, regr  ZING REGW <addr> <val> and ZING REGR <addr>;              *)
(*   ver, speed  a reply of five characters (VER, 123) or of one           *)
(*               (GET USB SPEED);                                          *)
(*   mode, hrcp  GET DMA MODE, GET ZING MODE: the length is announced      *)
(*               before the text, hrcp waits for a register in between;    *)
(*   act         a command without a reply (DMA MODE ..., ZING RST, ...);  *)
(*   rx4b        ZING MNGT_RX4B, four bytes of MngtData_;                  *)
(*   test        DATATX, DATASINK, MNGT_TX4B and AFC: no reply; what they  *)
(*               are asked to send or to tune to is left out.              *)
(* The whole text is compared for those of Fixed, words of it for others.  *)
Early == {"mode", "hrcp"}
Fixed == {"ver", "speed", "act"} \cup Early
Worded == {"rx4b", "test"}
Replying == {"ver", "speed", "regr", "rx4b"} \cup Early

Commands ==
  [verb : {"regw"}, addr : Addrs, val : Vals]
    \cup [verb : {"regr"}, addr : Addrs, val : {NoVal}]
    \cup [verb : Fixed \cup Worded, addr : {NoAddr}, val : {NoVal}]

NoCommand == [verb |-> "empty", addr |-> NoAddr, val |-> NoVal]

\* HostRxData_ as the thread reads it: the verb and the two arguments.
Texts == [verb : Fixed \cup Worded \cup {"regw", "regr", "empty"},
          addr : Addrs \cup {NoAddr}, val : Vals \cup {NoVal}]

ReplyLength(verb) ==
  CASE verb = "speed" -> 1
    [] verb = "hrcp" -> 3
    [] verb \in {"mode", "regr", "rx4b"} -> 4
    [] OTHER -> 5

(* What HostTxData_ holds: the reply to a command, zeros, or a mixture of  *)
(* two replies while one is written over the other.                        *)
Reply(c) == [of |-> c.verb, addr |-> c.addr]
Zeros == [of |-> "zeros", addr |-> NoAddr]
Partial == [of |-> "partial", addr |-> NoAddr]
Replies == [of : Replying, addr : Addrs \cup {NoAddr}] \cup {Zeros, Partial}

VARIABLES
  rx,        \* HostRxData_
  stored,    \* HostRxData_idx_ # 0
  isCommand, \* HostReqNum_ = 3
  event,     \* the EVT_EP0 flag of UsbEp0Ctx.Event_
  tx,        \* HostTxData_
  txIdx,     \* HostTxData_idx_
  pc,        \* where the command thread is
  cur        \* what it has read of the command in progress

(* History variables: no action reads them.                                *)
VARIABLES
  sent,       \* the last command the host wrote
  sentIdx,    \* HostTxData_idx_ at that time
  owed,       \* it has not been performed
  fetched,    \* the host has fetched a reply since
  overlapped, \* it was written before the one before it was finished
  hasty,      \* and before the reply of that one was fetched
  failed      \* the register read in progress has failed

mailVars == <<rx, stored, isCommand, event>>
replyVars == <<tx, txIdx>>
ghostVars == <<sent, sentIdx, owed, fetched, overlapped, hasty, failed>>
vars == <<mailVars, replyVars, pc, cur, ghostVars>>

Init ==
  /\ rx = NoCommand
  /\ stored = FALSE
  /\ isCommand = FALSE
  /\ event = FALSE
  /\ tx = Zeros
  /\ txIdx = 0
  /\ pc = "wait"
  /\ cur = NoCommand
  /\ sent = NoCommand
  /\ sentIdx = 0
  /\ owed = FALSE
  /\ fetched = FALSE
  /\ overlapped = FALSE
  /\ hasty = FALSE
  /\ failed = FALSE

-----------------------------------------------------------------------------
(* USBSetupCB, vendor requests 3..100.                                     *)

(* The text is laid over the old one.  REGW covers both arguments, REGR    *)
(* and the texts of eleven to fifteen characters end before the value, VER *)
(* and the like before the address; letters make an argument unusable.     *)
\* A mistake: no text reaches the value argument.
OverlayCut(old, c) == {[c EXCEPT !.val = old.val]}

Overlay(old, c) ==
  LET short == [old EXCEPT !.verb = c.verb]
      medium == [c EXCEPT !.val = old.val]
  IN  CASE c.verb = "regw" -> {c}
        [] c.verb = "ver" -> {short}
        [] c.verb \in {"act", "test"} -> {short, medium, c}
        [] OTHER -> {medium}

\* The thread has finished every command and waits for the next.
Settled == pc = "wait" /\ ~event

HostCommand(c) ==
  /\ rx' \in Overlay(rx, c)
  /\ stored' = TRUE
  /\ isCommand' = TRUE
  /\ event' = TRUE
  /\ sent' = c
  /\ sentIdx' = txIdx
  /\ owed' = TRUE
  /\ fetched' = FALSE
  /\ overlapped' = ~Settled
  /\ hasty' = (~Settled /\ (hasty \/ ~fetched))
  /\ failed' = FALSE
  /\ UNCHANGED <<replyVars, pc, cur>>

(* Requests 4..100 store their data in the same place; the thread performs *)
(* no command for them.                                                    *)
HostOther ==
  /\ rx' \in UNION {Overlay(rx, c) : c \in Commands}
  /\ stored' = TRUE
  /\ isCommand' = FALSE
  /\ event' = TRUE
  /\ sent' = NoCommand
  /\ sentIdx' = txIdx
  /\ owed' = FALSE
  /\ fetched' = FALSE
  /\ overlapped' = ~Settled
  /\ hasty' = (~Settled /\ (hasty \/ ~fetched))
  /\ UNCHANGED <<replyVars, pc, cur, failed>>

(* The host asks for a reply of the length it expects; a request with      *)
(* another length than HostTxData_idx_ is not served.                      *)
HostFetch ==
  /\ sent.verb \in Replying
  /\ ReplyLength(sent.verb) = txIdx
  /\ fetched' = TRUE
  /\ UNCHANGED <<mailVars, replyVars, pc, cur, sent, sentIdx, owed, overlapped,
                 hasty, failed>>

-----------------------------------------------------------------------------
(* USBEP0RxThread.                                                         *)

\* A mistake: the mailbox is emptied when the event is taken.
WakeEmpties ==
  /\ pc = "wait" /\ event
  /\ event' = FALSE
  /\ stored' = FALSE
  /\ pc' = "dispatch"
  /\ UNCHANGED <<rx, isCommand, replyVars, cur, ghostVars>>

\* A mistake: CyU3PEventGet without CLEAR leaves the event flag set.
WakeKeeps ==
  /\ pc = "wait" /\ event
  /\ pc' = "dispatch"
  /\ UNCHANGED <<mailVars, replyVars, cur, ghostVars>>

\* CyU3PEventGet(EVT_EP0, OR_CLEAR).
Wake ==
  /\ pc = "wait" /\ event
  /\ event' = FALSE
  /\ pc' = "dispatch"
  /\ UNCHANGED <<rx, stored, isCommand, replyVars, cur, ghostVars>>

(* A command's text is ended at HostRxData_idx_: with index 0 it is empty. *)
Dispatch ==
  /\ pc = "dispatch"
  /\ IF isCommand
       THEN /\ rx' = IF stored THEN rx ELSE [rx EXCEPT !.verb = "empty"]
            /\ pc' = "match"
       ELSE /\ pc' = "finish"
            /\ UNCHANGED rx
  /\ UNCHANGED <<stored, isCommand, event, replyVars, cur, ghostVars>>

\* The chain of strcmp over the whole text.
Match ==
  /\ pc = "match"
  /\ IF rx.verb \in Fixed
       THEN /\ cur' = [NoCommand EXCEPT !.verb = rx.verb]
            /\ pc' = "exec"
       ELSE /\ cur' = NoCommand
            /\ pc' = "split"
  /\ UNCHANGED <<mailVars, replyVars, ghostVars>>

(* strtok: the text may have changed since Match.  Nothing is performed    *)
(* for a text that is neither; of an empty one strtok returns NULL, and    *)
(* the comparison with it (undefined in C) reads the vectors at address 0. *)
Split ==
  /\ pc = "split"
  /\ IF rx.verb \in {"regw", "regr"} \cup Worded
       THEN /\ cur' = [NoCommand EXCEPT !.verb = rx.verb]
            /\ pc' = IF rx.verb \in Worded THEN "exec" ELSE "addr"
       ELSE /\ pc' = "finish"
            /\ UNCHANGED cur
  /\ UNCHANGED <<mailVars, replyVars, ghostVars>>

TakeAddr ==
  /\ pc = "addr"
  /\ cur' = [cur EXCEPT !.addr = rx.addr]
  /\ pc' = IF cur.verb = "regw" THEN "val" ELSE "exec"
  /\ UNCHANGED <<mailVars, replyVars, ghostVars>>

TakeVal ==
  /\ pc = "val"
  /\ cur' = [cur EXCEPT !.val = rx.val]
  /\ pc' = "exec"
  /\ UNCHANGED <<mailVars, replyVars, ghostVars>>

\* A mistake: the length of a reply is announced after every command.
ActAnnounces ==
  /\ pc = "exec"
  /\ cur.verb \in {"regw", "act", "test"} \/ (cur.verb = "regr" /\ cur.addr = NoAddr)
  /\ pc' = "length"
  /\ owed' = FALSE
  /\ UNCHANGED <<mailVars, replyVars, cur, sent, sentIdx, fetched, overlapped,
                 hasty, failed>>

(* The command is performed.  Out of range there is no register access;    *)
(* Zing_RegWrite and the commands without a reply end in "finish".         *)
Act ==
  /\ pc = "exec"
  /\ cur.verb \in {"regw", "act", "test"} \/ (cur.verb = "regr" /\ cur.addr = NoAddr)
  /\ pc' = "finish"
  /\ owed' = FALSE
  /\ UNCHANGED <<mailVars, replyVars, cur, sent, sentIdx, fetched, overlapped,
                 hasty, failed>>

\* A reply overwrites the last one: for a while it is part old, part new.
StoreBegin ==
  /\ pc = "exec"
  /\ cur.verb \in {"ver", "speed", "rx4b"} \/ (cur.verb = "regr" /\ cur.addr \in Addrs)
  /\ tx' = Partial
  /\ pc' = "store"
  /\ owed' = FALSE
  /\ UNCHANGED <<mailVars, txIdx, cur, sent, sentIdx, fetched, overlapped,
                 hasty, failed>>

(* Zing_RegRead returns an error: nothing is stored, but the status is not *)
(* looked at and the length is announced all the same.                     *)
ReadFails ==
  /\ pc = "exec"
  /\ cur.verb = "regr" /\ cur.addr \in Addrs
  /\ pc' = "length"
  /\ owed' = FALSE
  /\ failed' = TRUE
  /\ UNCHANGED <<mailVars, replyVars, cur, sent, sentIdx, fetched, overlapped,
                 hasty>>

\* GetDmaMode, GetZingMode: memset comes first.
Clear ==
  /\ pc = "exec"
  /\ cur.verb \in Early
  /\ tx' = Zeros
  /\ pc' = "length"
  /\ owed' = FALSE
  /\ UNCHANGED <<mailVars, txIdx, cur, sent, sentIdx, fetched, overlapped,
                 hasty, failed>>

\* A mistake: the length is announced while the text is being written.
StoreEndFirst ==
  /\ pc = "store"
  /\ pc' = "text"
  /\ txIdx' = ReplyLength(cur.verb)
  /\ UNCHANGED <<mailVars, tx, cur, ghostVars>>

StoreEnd ==
  /\ pc = "store"
  /\ tx' = Reply(cur)
  /\ pc' = "length"
  /\ UNCHANGED <<mailVars, txIdx, cur, ghostVars>>

Length ==
  /\ pc = "length"
  /\ txIdx' = ReplyLength(cur.verb)
  /\ pc' = IF cur.verb \in Early THEN "text" ELSE "finish"
  /\ UNCHANGED <<mailVars, tx, cur, ghostVars>>

Text ==
  /\ pc = "text"
  /\ tx' = Reply(cur)
  /\ pc' = "finish"
  /\ UNCHANGED <<mailVars, txIdx, cur, ghostVars>>

\* HostRxData_idx_ = 0, whatever has been stored meanwhile.
Finish ==
  /\ pc = "finish"
  /\ stored' = FALSE
  /\ pc' = "wait"
  /\ UNCHANGED <<rx, isCommand, event, replyVars, cur, ghostVars>>

-----------------------------------------------------------------------------
Host == (\E c \in Commands : HostCommand(c)) \/ HostOther \/ HostFetch

Thread ==
  \/ Wake \/ Dispatch \/ Match \/ Split \/ TakeAddr \/ TakeVal
  \/ Act \/ StoreBegin \/ ReadFails \/ Clear
  \/ StoreEnd \/ Length \/ Text \/ Finish

Next == Host \/ Thread

Spec == Init /\ [][Next]_vars

(* The command thread runs when the driver has nothing to do; what it      *)
(* waits for inside a command ends (RegAccess).                            *)
FairSpec == Spec /\ WF_vars(Thread)

-----------------------------------------------------------------------------
(* Properties.                                                             *)

TypeOK ==
  /\ rx \in Texts
  /\ stored \in BOOLEAN /\ isCommand \in BOOLEAN /\ event \in BOOLEAN
  /\ tx \in Replies
  /\ txIdx \in {0, 1, 3, 4, 5}
  /\ pc \in {"wait", "dispatch", "match", "split", "addr", "val", "exec",
             "store", "length", "text", "finish"}
  /\ cur \in Texts
  /\ pc \in {"store", "length", "text"} => cur.verb \in Replying
  /\ sent \in Commands \cup {NoCommand}
  /\ sentIdx \in {0, 1, 3, 4, 5}
  /\ owed \in BOOLEAN /\ fetched \in BOOLEAN /\ overlapped \in BOOLEAN
  /\ hasty \in BOOLEAN /\ failed \in BOOLEAN

(* A command written when the one before it was finished is performed as   *)
(* it was written, also after others have overlapped.                      *)
CommandIntact == pc = "exec" /\ ~overlapped => cur = sent

(* Once HostTxData_idx_ has changed to the length of the reply, the reply  *)
(* is there: a host may poll by length.  Not so for GET DMA MODE and GET   *)
(* ZING MODE, nor after a register read that failed.                       *)
ReplyReady ==
  /\ ~overlapped /\ ~failed
  /\ sent.verb \in Replying \ Early
  /\ txIdx # sentIdx
  => tx = Reply(sent)

(* A command that does not overlap another is performed.                   *)
CommandPerformed == owed ~> (~owed \/ overlapped)

(* To a host that waits until a command is over before it writes the next, *)
(* the mailbox is a command port: USBEP0RxThread performs each command     *)
(* once, as written, and leaves its reply or, after a register read that   *)
(* failed, only its length.                                                *)
InProgress == pc \in {"store", "length", "text"}

Stage ==
  CASE Settled -> "idle"
    [] ~Settled /\ overlapped -> "lost"
    [] OTHER ->
         CASE pc \in {"wait", "dispatch"} -> IF isCommand THEN "asked" ELSE "over"
           [] pc \in {"match", "split", "addr", "val"} -> "asked"
           [] pc = "exec" -> "taken"
           [] InProgress -> IF failed THEN "failed" ELSE "storing"
           [] pc = "finish" -> "over"

ReplyTo(c) == [text |-> Reply(c), length |-> ReplyLength(c.verb)]

Port == INSTANCE CommandPort WITH
  AnswerTo <- [c \in {d \in Commands : d.verb \in Replying} |-> ReplyTo(c)],
  Texts <- Replies,
  Lengths <- {0, 1, 3, 4, 5},
  Hasty <- {c \in Commands : c.verb \in Early},
  Fallible <- {c \in Commands : c.verb = "regr"},
  stage <- Stage,
  command <- IF Stage \in {"asked", "taken", "storing", "failed"} THEN sent ELSE NoCommand,
  reply <- [text |-> tx, length |-> txIdx]

PortSpec == Port!Spec

(* USBSetupCB says of the command that it is stored ("host to dev, store   *)
(* data"); a host that waits for the reply of one command before it writes *)
(* the next finds it stored until the thread has taken it.                 *)
CommandStored == event /\ ~hasty => stored
=============================================================================
