-------------------------- MODULE Ep0MailboxProofs -------------------------
(***************************************************************************)
(* Proofs about Ep0Mailbox, for any registers and values.                  *)
(***************************************************************************)
EXTENDS Ep0Mailbox, TLAPS

-----------------------------------------------------------------------------
(* The inductive invariant.                                                *)

\* The mailbox holds the last command in every part the thread will read.
Loaded ==
  /\ sent \in Commands
  /\ rx.verb = sent.verb
  /\ sent.verb \in {"regw", "regr"} => rx.addr = sent.addr
  /\ sent.verb = "regw" => rx.val = sent.val

Taking == {"dispatch", "match", "split", "addr", "val"}
Working == {"exec", "store", "length", "text"}

(* How far the thread is with a command that does not overlap another,     *)
(* and what it has read of it.                                             *)
Taken ==
  /\ event => pc = "wait" /\ stored /\ (isCommand => Loaded)
  /\ pc = "dispatch" => stored /\ (isCommand => Loaded)
  /\ pc \in Taking \ {"dispatch"} => Loaded
  /\ pc = "split" => sent.verb \notin Fixed
  /\ pc \in {"addr", "val"} => cur = [verb |-> sent.verb, addr |-> cur.addr, val |-> NoVal]
  /\ pc = "addr" => sent.verb \in {"regw", "regr"} /\ cur.addr = NoAddr
  /\ pc = "val" => sent.verb = "regw" /\ cur.addr = sent.addr
  /\ pc \in Working => cur = sent /\ sent \in Commands

(* The length of the last reply stays until the new one is there.          *)
Answered ==
  /\ event \/ pc \in Taking \cup {"exec", "store", "length"} => txIdx = sentIdx
  /\ pc = "length" /\ ~failed /\ sent.verb \notin Early => tx = Reply(sent)
  /\ pc = "store" => sent.verb \notin Early
  /\ pc = "text" => sent.verb \in Early /\ txIdx = ReplyLength(sent.verb)
  /\ ~failed /\ sent.verb \in Replying \ Early /\ txIdx # sentIdx => tx = Reply(sent)

\* Only a register read fails, and its failure ends with it.
Failing ==
  /\ (event \/ pc = "dispatch") /\ isCommand => ~failed
  /\ pc \in {"match", "split", "addr", "val", "exec", "store", "text"} => ~failed
  /\ pc = "length" /\ failed => sent.verb = "regr"

Inv == TypeOK /\ (~overlapped => Taken /\ Answered /\ Failing)

-----------------------------------------------------------------------------
(* Type correctness.                                                       *)

LEMMA CommandParts ==
  ASSUME NEW c \in Commands
  PROVE  /\ c.verb \in Fixed \cup Worded \cup {"regw", "regr"}
         /\ c.addr \in Addrs \cup {NoAddr} /\ c.val \in Vals \cup {NoVal}
         /\ c = [verb |-> c.verb, addr |-> c.addr, val |-> c.val]
         /\ c.verb \notin Fixed \cup Worded => c.addr \in Addrs
         /\ c.verb \in Fixed \cup Worded => c.addr = NoAddr /\ c.val = NoVal
         /\ c.verb = "regr" => c.val = NoVal
         /\ c \in Texts
BY DEF Commands, Fixed, Worded, Early, Texts

LEMMA ReplyParts ==
  ASSUME NEW c \in Texts, c.verb \in Replying
  PROVE  Reply(c) \in Replies /\ ReplyLength(c.verb) \in {1, 3, 4, 5}
<1>1. Reply(c) \in Replies
  BY DEF Reply, Replies, Texts
<1>2. ReplyLength(c.verb) \in {1, 3, 4, 5}
  BY DEF ReplyLength, Replying
<1> QED
  BY <1>1, <1>2

LEMMA OverlayType ==
  ASSUME TypeOK, NEW c \in Commands, NEW t \in Overlay(rx, c)
  PROVE  t \in Texts
<1>1. t \in {c, [rx EXCEPT !.verb = c.verb], [c EXCEPT !.val = rx.val]}
  BY DEF Overlay
<1> QED
  BY <1>1, CommandParts DEF TypeOK, Texts

LEMMA InitTypeOK == Init => TypeOK
<1> SUFFICES ASSUME Init PROVE TypeOK
  OBVIOUS
<1>1. NoCommand \in Texts /\ NoCommand.verb = "empty"
  BY DEF NoCommand, Texts
<1>2. Zeros \in Replies
  BY DEF Zeros, Replies
<1>3. /\ stored \in BOOLEAN /\ isCommand \in BOOLEAN /\ event \in BOOLEAN
      /\ owed \in BOOLEAN /\ fetched \in BOOLEAN /\ overlapped \in BOOLEAN
      /\ hasty \in BOOLEAN /\ failed \in BOOLEAN
  BY DEF Init
<1> QED
  BY <1>1, <1>2, <1>3 DEF Init, TypeOK

\* A step that changes no more than the thread's place and the flags.
HostTypes ==
  /\ sent \in Commands \cup {NoCommand} /\ sentIdx \in {0, 1, 3, 4, 5}
  /\ fetched \in BOOLEAN /\ overlapped \in BOOLEAN /\ hasty \in BOOLEAN
MailTypes == rx \in Texts /\ stored \in BOOLEAN /\ isCommand \in BOOLEAN /\ event \in BOOLEAN
ThreadTypes ==
  /\ pc \in {"wait", "dispatch", "match", "split", "addr", "val", "exec",
             "store", "length", "text", "finish"}
  /\ cur \in Texts
  /\ pc \in {"store", "length", "text"} => cur.verb \in Replying
ReplyTypes == tx \in Replies /\ txIdx \in {0, 1, 3, 4, 5}
FlagTypes == owed \in BOOLEAN /\ failed \in BOOLEAN

LEMMA TypeParts ==
  TypeOK <=> HostTypes /\ MailTypes /\ ThreadTypes /\ ReplyTypes /\ FlagTypes
BY DEF TypeOK, HostTypes, MailTypes, ThreadTypes, ReplyTypes, FlagTypes

LEMMA TypePartsNext ==
  TypeOK' <=> HostTypes' /\ MailTypes' /\ ThreadTypes' /\ ReplyTypes' /\ FlagTypes'
BY DEF TypeOK, HostTypes, MailTypes, ThreadTypes, ReplyTypes, FlagTypes

LEMMA StepTypeOK == TypeOK /\ [Next]_vars => TypeOK'
<1> SUFFICES ASSUME TypeOK, [Next]_vars PROVE TypeOK'
  OBVIOUS
<1>1. HostTypes /\ MailTypes /\ ThreadTypes /\ ReplyTypes /\ FlagTypes
  BY TypeParts
<1>2. ASSUME UNCHANGED <<sent, sentIdx, fetched, overlapped, hasty>> PROVE HostTypes'
  BY <1>1, <1>2 DEF HostTypes
<1>3. ASSUME UNCHANGED mailVars PROVE MailTypes'
  BY <1>1, <1>3 DEF MailTypes, mailVars
<1>4. ASSUME UNCHANGED <<pc, cur>> PROVE ThreadTypes'
  BY <1>1, <1>4 DEF ThreadTypes
<1>5. ASSUME UNCHANGED replyVars PROVE ReplyTypes'
  BY <1>1, <1>5 DEF ReplyTypes, replyVars
<1>6. ASSUME UNCHANGED <<owed, failed>> PROVE FlagTypes'
  BY <1>1, <1>6 DEF FlagTypes
<1>7. ASSUME NEW c \in Commands, HostCommand(c) PROVE TypeOK'
  <2>1. MailTypes'
    <3>1. rx' \in Texts
      BY <1>7, OverlayType DEF HostCommand
    <3>2. stored' \in BOOLEAN /\ isCommand' \in BOOLEAN /\ event' \in BOOLEAN
      BY <1>7 DEF HostCommand
    <3> QED
      BY <3>1, <3>2 DEF MailTypes
  <2>2. HostTypes'
    <3>1. fetched' \in BOOLEAN /\ overlapped' \in BOOLEAN /\ hasty' \in BOOLEAN
      BY <1>7 DEF HostCommand
    <3>2. sent' = c /\ sentIdx' = txIdx
      BY <1>7 DEF HostCommand
    <3> QED
      BY <1>1, <3>1, <3>2 DEF HostTypes, ReplyTypes
  <2>3. FlagTypes'
    <3>1. owed' \in BOOLEAN /\ failed' \in BOOLEAN
      BY <1>7 DEF HostCommand
    <3> QED
      BY <3>1 DEF FlagTypes
  <2>4. UNCHANGED replyVars /\ UNCHANGED <<pc, cur>>
    BY <1>7 DEF HostCommand
  <2> QED
    BY <1>4, <1>5, <2>1, <2>2, <2>3, <2>4, TypePartsNext
<1>8. CASE HostOther
  <2>1. MailTypes'
    <3>1. rx' \in Texts
      BY <1>8, OverlayType DEF HostOther
    <3>2. stored' \in BOOLEAN /\ isCommand' \in BOOLEAN /\ event' \in BOOLEAN
      BY <1>8 DEF HostOther
    <3> QED
      BY <3>1, <3>2 DEF MailTypes
  <2>2. HostTypes'
    <3>1. fetched' \in BOOLEAN /\ overlapped' \in BOOLEAN /\ hasty' \in BOOLEAN
      BY <1>8 DEF HostOther
    <3>2. sent' = NoCommand /\ sentIdx' = txIdx
      BY <1>8 DEF HostOther
    <3> QED
      BY <1>1, <3>1, <3>2 DEF HostTypes, ReplyTypes
  <2>3. FlagTypes'
    <3>1. owed' \in BOOLEAN
      BY <1>8 DEF HostOther
    <3>2. failed' = failed
      BY <1>8 DEF HostOther
    <3> QED
      BY <1>1, <3>1, <3>2 DEF FlagTypes
  <2>4. UNCHANGED replyVars /\ UNCHANGED <<pc, cur>>
    BY <1>8 DEF HostOther
  <2> QED
    BY <1>4, <1>5, <2>1, <2>2, <2>3, <2>4, TypePartsNext
<1>9. CASE HostFetch
  <2>1. UNCHANGED mailVars /\ UNCHANGED replyVars /\ UNCHANGED <<pc, cur>> /\ UNCHANGED <<owed, failed>>
    BY <1>9 DEF HostFetch
  <2>2. HostTypes'
    <3>1. fetched' \in BOOLEAN
      BY <1>9 DEF HostFetch
    <3>2. UNCHANGED <<sent, sentIdx, overlapped, hasty>>
      BY <1>9 DEF HostFetch
    <3> QED
      BY <1>1, <3>1, <3>2 DEF HostTypes
  <2> QED
    BY <1>3, <1>4, <1>5, <1>6, <2>1, <2>2, TypePartsNext
<1>10. CASE Wake \/ Dispatch \/ Finish
  <2>1. UNCHANGED replyVars /\ UNCHANGED <<owed, failed>>
        /\ UNCHANGED <<sent, sentIdx, fetched, overlapped, hasty>>
    BY <1>10 DEF Wake, Dispatch, Finish, ghostVars
  <2>2. ThreadTypes'
    <3>1. cur' = cur /\ pc' \in {"dispatch", "match", "finish", "wait"}
      BY <1>10 DEF Wake, Dispatch, Finish
    <3> QED
      BY <1>1, <3>1 DEF ThreadTypes
  <2>3. MailTypes'
    <3>1. rx' \in Texts
      <4>1. CASE rx' = rx
        BY <1>1, <4>1 DEF MailTypes
      <4>2. CASE rx' = [rx EXCEPT !.verb = "empty"]
        BY <1>1, <4>2 DEF MailTypes, Texts
      <4> QED
        BY <1>10, <4>1, <4>2 DEF Wake, Dispatch, Finish
    <3>2. isCommand' = isCommand
      BY <1>10 DEF Wake, Dispatch, Finish
    <3>3. event' = event \/ event' = FALSE
      BY <1>10 DEF Wake, Dispatch, Finish
    <3>4. stored' = stored \/ stored' = FALSE
      BY <1>10 DEF Wake, Dispatch, Finish
    <3>5. event' \in BOOLEAN
      BY <1>1, <3>3 DEF MailTypes
    <3>6. stored' \in BOOLEAN
      BY <1>1, <3>4 DEF MailTypes
    <3> QED
      BY <1>1, <3>1, <3>2, <3>5, <3>6 DEF MailTypes
  <2> QED
    BY <1>2, <1>5, <1>6, <2>1, <2>2, <2>3, TypePartsNext
<1>11. CASE Match \/ Split \/ TakeAddr \/ TakeVal
  <2>1. UNCHANGED mailVars /\ UNCHANGED replyVars /\ UNCHANGED <<owed, failed>>
        /\ UNCHANGED <<sent, sentIdx, fetched, overlapped, hasty>>
    BY <1>11 DEF Match, Split, TakeAddr, TakeVal, ghostVars
  <2>2. ThreadTypes'
    <3>1. pc' \in {"exec", "split", "addr", "val", "finish"}
      BY <1>11 DEF Match, Split, TakeAddr, TakeVal
    <3>2. cur' \in Texts
      <4>1. CASE Match \/ Split
        BY <1>1, <4>1 DEF Match, Split, NoCommand, Texts, Fixed, Worded, MailTypes, ThreadTypes
      <4>2. CASE TakeAddr \/ TakeVal
        BY <1>1, <4>2 DEF TakeAddr, TakeVal, Texts, MailTypes, ThreadTypes
      <4> QED
        BY <1>11, <4>1, <4>2
    <3> QED
      BY <3>1, <3>2 DEF ThreadTypes
  <2> QED
    BY <1>2, <1>3, <1>5, <1>6, <2>1, <2>2, TypePartsNext
<1>12. CASE Act \/ StoreBegin \/ ReadFails \/ Clear
  <2>1. UNCHANGED mailVars /\ UNCHANGED <<sent, sentIdx, fetched, overlapped, hasty>>
    BY <1>12 DEF Act, StoreBegin, ReadFails, Clear
  <2>2. ThreadTypes'
    <3>1. cur' = cur
      BY <1>12 DEF Act, StoreBegin, ReadFails, Clear
    <3>2. pc' = "finish" \/ (pc' \in {"store", "length"} /\ cur.verb \in Replying)
      BY <1>12 DEF Act, StoreBegin, ReadFails, Clear, Replying
    <3> QED
      BY <1>1, <3>1, <3>2 DEF ThreadTypes
  <2>3. ReplyTypes'
    <3>1. txIdx' = txIdx /\ tx' \in {tx, Zeros, Partial}
      BY <1>12 DEF Act, StoreBegin, ReadFails, Clear, replyVars
    <3> QED
      BY <1>1, <3>1 DEF ReplyTypes, Replies, Zeros, Partial
  <2>4. FlagTypes'
    <3>1. owed' \in BOOLEAN
      BY <1>12 DEF Act, StoreBegin, ReadFails, Clear
    <3>2. failed' = failed \/ failed' = TRUE
      BY <1>12 DEF Act, StoreBegin, ReadFails, Clear
    <3>3. failed' \in BOOLEAN
      BY <1>1, <3>2 DEF FlagTypes
    <3> QED
      BY <3>1, <3>3 DEF FlagTypes
  <2> QED
    BY <1>2, <1>3, <2>1, <2>2, <2>3, <2>4, TypePartsNext
<1>13. CASE StoreEnd \/ Length \/ Text
  <2>1. UNCHANGED mailVars /\ UNCHANGED <<owed, failed>>
        /\ UNCHANGED <<sent, sentIdx, fetched, overlapped, hasty>>
    BY <1>13 DEF StoreEnd, Length, Text, ghostVars
  <2>2. cur' = cur /\ pc \in {"store", "length", "text"} /\ pc' \in {"length", "text", "finish"}
    BY <1>13 DEF StoreEnd, Length, Text
  <2>3. ThreadTypes'
    BY <1>1, <2>2 DEF ThreadTypes
  <2>4. ReplyTypes'
    <3>1. tx' \in {tx, Reply(cur)} /\ txIdx' \in {txIdx, ReplyLength(cur.verb)}
      BY <1>13 DEF StoreEnd, Length, Text
    <3> QED
      BY <1>1, <2>2, <3>1, ReplyParts DEF ThreadTypes, ReplyTypes
  <2> QED
    BY <1>2, <1>3, <1>6, <2>1, <2>3, <2>4, TypePartsNext
<1>14. CASE UNCHANGED vars
  BY <1>2, <1>3, <1>4, <1>5, <1>6, <1>14, TypePartsNext DEF vars, ghostVars
<1> QED
  BY <1>7, <1>8, <1>9, <1>10, <1>11, <1>12, <1>13, <1>14 DEF Next, Host, Thread

-----------------------------------------------------------------------------
(* The command and its reply.                                              *)

\* A command laid over the old text is whole in every part it has.
LEMMA OverlayLoads ==
  ASSUME TypeOK, NEW c \in Commands, NEW t \in Overlay(rx, c)
  PROVE  /\ t.verb = c.verb
         /\ c.verb \in {"regw", "regr"} => t.addr = c.addr
         /\ c.verb = "regw" => t.val = c.val
BY CommandParts DEF Overlay, TypeOK, Texts

LEMMA TakenStep ==
  ASSUME TypeOK, TypeOK', ~overlapped => Taken, [Next]_vars, ~overlapped'
  PROVE  Taken'
<1>1. ASSUME NEW c \in Commands, HostCommand(c) PROVE Taken'
  <2>1. pc' = "wait" /\ cur' = cur /\ stored' = TRUE
    BY <1>1 DEF HostCommand, Settled
  <2>2. Loaded'
    BY <1>1, OverlayLoads DEF HostCommand, Loaded
  <2> QED
    BY <2>1, <2>2 DEF Taken, Taking, Working
<1>2. CASE HostOther
  <2>1. pc' = "wait" /\ stored' = TRUE /\ ~isCommand'
    BY <1>2 DEF HostOther, Settled
  <2> QED
    BY <2>1 DEF Taken, Taking, Working
<1>3. ASSUME overlapped' = overlapped, sent' = sent PROVE Taken /\ ~overlapped
  BY <1>3
<1>4. CASE HostFetch
  <2>1. UNCHANGED <<rx, stored, isCommand, event, pc, cur, sent, overlapped>>
    BY <1>4 DEF HostFetch, mailVars
  <2> QED
    BY <1>3, <2>1 DEF Taken, Loaded
<1>5. ASSUME UNCHANGED ghostVars PROVE Taken /\ sent' = sent /\ ~overlapped
  BY <1>3, <1>5 DEF ghostVars
<1>6. CASE Wake
  <2>1. /\ Taken /\ sent' = sent /\ event /\ event' = FALSE /\ pc' = "dispatch"
        /\ UNCHANGED <<rx, stored, isCommand>>
    BY <1>5, <1>6 DEF Wake
  <2>2. stored /\ (isCommand => Loaded)
    BY <2>1 DEF Taken
  <2> QED
    BY <2>1, <2>2 DEF Taken, Loaded, Taking, Working
<1>7. ASSUME pc # "wait", ~overlapped, Taken PROVE ~event
  BY <1>7 DEF Taken
<1>8. CASE Dispatch
  <2>1. /\ Taken /\ sent' = sent /\ ~event /\ event' = event /\ pc = "dispatch"
        /\ pc' = IF isCommand THEN "match" ELSE "finish"
    BY <1>5, <1>7, <1>8 DEF Dispatch
  <2>2. stored /\ (isCommand => Loaded)
    BY <2>1 DEF Taken
  <2>3. rx' = rx
    BY <1>8, <2>2 DEF Dispatch
  <2> QED
    BY <2>1, <2>2, <2>3 DEF Taken, Loaded, Taking, Working
<1>9. CASE Match
  <2>1. Taken /\ sent' = sent /\ ~event /\ event' = event /\ pc = "match" /\ rx' = rx
    BY <1>5, <1>7, <1>9 DEF Match, mailVars
  <2>2. Loaded /\ Loaded'
    BY <2>1 DEF Taken, Taking, Loaded
  <2>3. CASE rx.verb \in Fixed
    <3>1. cur' = [NoCommand EXCEPT !.verb = rx.verb] /\ pc' = "exec"
      BY <1>9, <2>3 DEF Match
    <3>2. cur' = sent
      <4>1. cur' = [verb |-> sent.verb, addr |-> NoAddr, val |-> NoVal]
        BY <2>2, <3>1 DEF Loaded, NoCommand
      <4> QED
        BY <2>2, <2>3, <4>1, CommandParts DEF Loaded
    <3> QED
      BY <2>1, <2>2, <3>1, <3>2 DEF Taken, Taking, Working, Loaded
  <2>4. CASE rx.verb \notin Fixed
    BY <1>9, <2>1, <2>2, <2>4 DEF Match, Taken, Taking, Working, Loaded
  <2> QED
    BY <2>3, <2>4
<1>10. CASE Split
  <2>1. Taken /\ sent' = sent /\ ~event /\ event' = event /\ pc = "split" /\ rx' = rx
    BY <1>5, <1>7, <1>10 DEF Split, mailVars
  <2>2. Loaded /\ Loaded' /\ sent.verb \notin Fixed
    BY <2>1 DEF Taken, Taking, Loaded
  <2>3. cur' = [verb |-> sent.verb, addr |-> NoAddr, val |-> NoVal]
    BY <1>10, <2>2, CommandParts DEF Split, Loaded, NoCommand
  <2>4. CASE sent.verb \in Worded
    <3>1. pc' = "exec"
      BY <1>10, <2>2, <2>4, CommandParts DEF Split, Loaded
    <3>2. cur' = sent
      BY <2>2, <2>3, <2>4, CommandParts DEF Loaded
    <3> QED
      BY <2>1, <2>2, <3>1, <3>2 DEF Taken, Taking, Working, Loaded
  <2>5. CASE sent.verb \notin Worded
    <3>1. sent.verb \in {"regw", "regr"}
      BY <2>2, <2>5, CommandParts DEF Loaded
    <3>2. pc' = "addr"
      BY <1>10, <2>2, <2>5, <3>1 DEF Split, Loaded
    <3>3. cur' = [verb |-> sent'.verb, addr |-> cur'.addr, val |-> NoVal] /\ cur'.addr = NoAddr
      BY <2>1, <2>3
    <3>4. ~event' /\ sent'.verb \in {"regw", "regr"}
      BY <2>1, <3>1
    <3> QED
      BY <2>2, <3>2, <3>3, <3>4 DEF Taken, Taking, Working
  <2> QED
    BY <2>4, <2>5
<1>11. CASE TakeAddr
  <2>1. Taken /\ sent' = sent /\ ~event /\ event' = event /\ pc = "addr" /\ rx' = rx
    BY <1>5, <1>7, <1>11 DEF TakeAddr, mailVars
  <2>2. /\ Loaded /\ Loaded' /\ sent.verb \in {"regw", "regr"}
        /\ cur = [verb |-> sent.verb, addr |-> cur.addr, val |-> NoVal]
    BY <2>1 DEF Taken, Taking, Loaded
  <2>3. cur' = [verb |-> sent.verb, addr |-> sent.addr, val |-> NoVal]
    BY <1>11, <2>2 DEF TakeAddr, Loaded
  <2>4. pc' = IF sent.verb = "regw" THEN "val" ELSE "exec"
    BY <1>11, <2>2 DEF TakeAddr
  <2>5. sent.verb = "regr" => cur' = sent
    BY <2>2, <2>3, CommandParts DEF Loaded
  <2> QED
    BY <2>1, <2>2, <2>3, <2>4, <2>5 DEF Taken, Taking, Working, Loaded
<1>12. CASE TakeVal
  <2>1. Taken /\ sent' = sent /\ ~event /\ event' = event /\ pc = "val" /\ rx' = rx
    BY <1>5, <1>7, <1>12 DEF TakeVal, mailVars
  <2>2. /\ Loaded /\ sent.verb = "regw" /\ cur.addr = sent.addr
        /\ cur = [verb |-> sent.verb, addr |-> cur.addr, val |-> NoVal]
    BY <2>1 DEF Taken, Taking
  <2>3. cur' = [verb |-> sent.verb, addr |-> sent.addr, val |-> sent.val]
    BY <1>12, <2>2 DEF TakeVal, Loaded
  <2>4. cur' = sent /\ pc' = "exec"
    BY <1>12, <2>2, <2>3, CommandParts DEF Loaded, TakeVal
  <2> QED
    BY <2>1, <2>2, <2>4 DEF Taken, Taking, Working, Loaded
<1>13. CASE Act \/ StoreBegin \/ ReadFails \/ Clear \/ StoreEnd \/ Length \/ Text
  <2>1. /\ sent' = sent /\ overlapped' = overlapped /\ cur' = cur
        /\ event' = event /\ pc \in Working /\ pc' \in Working \cup {"finish"} /\ pc' # "exec"
    BY <1>13 DEF Act, StoreBegin, ReadFails, Clear, StoreEnd, Length, Text,
                 mailVars, ghostVars, Working
  <2>2. Taken /\ ~overlapped /\ ~event
    BY <1>3, <1>7, <2>1 DEF Working
  <2>3. cur = sent /\ sent \in Commands
    BY <2>1, <2>2 DEF Taken
  <2> QED
    BY <2>1, <2>2, <2>3 DEF Taken, Taking, Working
<1>14. CASE Finish
  <2>1. ~event /\ event' = event /\ pc' = "wait"
    BY <1>5, <1>7, <1>14 DEF Finish
  <2> QED
    BY <2>1 DEF Taken, Taking, Working
<1>15. CASE UNCHANGED vars
  BY <1>5, <1>15 DEF vars, mailVars, Taken, Loaded
<1> QED
  BY <1>1, <1>2, <1>4, <1>6, <1>8, <1>9, <1>10, <1>11, <1>12, <1>13, <1>14, <1>15
     DEF Next, Host, Thread

LEMMA AnsweredStep ==
  ASSUME TypeOK, TypeOK', ~overlapped => Taken /\ Answered, [Next]_vars, ~overlapped'
  PROVE  Answered'
<1>1. ASSUME NEW c \in Commands, HostCommand(c) PROVE Answered'
  BY <1>1 DEF HostCommand, Settled, Answered, Taking, replyVars
<1>2. CASE HostOther
  BY <1>2 DEF HostOther, Settled, Answered, Taking, replyVars
<1>3. ASSUME UNCHANGED <<overlapped, sent, sentIdx>> PROVE Taken /\ Answered /\ ~overlapped
  BY <1>3
<1>4. ASSUME UNCHANGED ghostVars
      PROVE  Taken /\ Answered /\ ~overlapped /\ UNCHANGED <<sent, sentIdx, failed>>
  BY <1>3, <1>4 DEF ghostVars
<1>5. CASE HostFetch
  <2>1. UNCHANGED <<event, pc, tx, txIdx, sent, sentIdx, failed, overlapped>>
    BY <1>5 DEF HostFetch, mailVars, replyVars
  <2> QED
    BY <1>3, <2>1 DEF Answered
<1>6. CASE Wake
  BY <1>4, <1>6 DEF Wake, Answered, Taking, replyVars
<1>7. CASE Dispatch \/ Match \/ Split \/ TakeAddr \/ TakeVal
  <2>1. /\ event' = event /\ pc \in Taking /\ pc' \in Taking \cup {"exec", "finish"}
        /\ UNCHANGED <<tx, txIdx>> /\ UNCHANGED ghostVars
    BY <1>7 DEF Dispatch, Match, Split, TakeAddr, TakeVal, Taking, mailVars, replyVars
  <2> QED
    BY <1>4, <2>1 DEF Answered, Taking
<1>8. ASSUME pc \in Working, UNCHANGED <<overlapped, sent, sentIdx, event>>
      PROVE  /\ Answered /\ ~event /\ ~event' /\ cur = sent /\ sent \in Commands
             /\ pc \in {"exec", "store", "length"} => txIdx = sentIdx
  BY <1>3, <1>8 DEF Taken, Answered, Working
<1>9. CASE Act \/ StoreBegin \/ ReadFails \/ Clear
  <2>1. /\ pc = "exec" /\ UNCHANGED <<overlapped, sent, sentIdx, event, txIdx>>
        /\ pc' \in {"finish", "store", "length"}
    BY <1>9 DEF Act, StoreBegin, ReadFails, Clear, mailVars, replyVars
  <2>2. txIdx = sentIdx /\ cur = sent
    BY <1>8, <2>1 DEF Working
  <2>3. pc' = "length" => failed' \/ sent.verb \in Early
    BY <1>9, <2>2 DEF Act, StoreBegin, ReadFails, Clear
  <2>4. pc' = "store" => sent.verb \notin Early
    BY <1>9, <2>2 DEF Act, StoreBegin, ReadFails, Clear, Early
  <2> QED
    BY <2>1, <2>2, <2>3, <2>4 DEF Answered, Taking
<1>10. CASE StoreEnd
  <2>1. /\ pc = "store" /\ pc' = "length" /\ tx' = Reply(cur)
        /\ UNCHANGED <<overlapped, sent, sentIdx, event, txIdx, failed>>
    BY <1>10 DEF StoreEnd, mailVars, ghostVars
  <2>2. txIdx = sentIdx /\ cur = sent
    BY <1>8, <2>1 DEF Working
  <2>3. tx' = Reply(sent)'
    BY <2>1, <2>2 DEF Reply
  <2> QED
    BY <2>1, <2>2, <2>3 DEF Answered, Taking
<1>11. CASE Length
  <2>1. /\ pc = "length" /\ pc' = (IF cur.verb \in Early THEN "text" ELSE "finish") /\ tx' = tx
        /\ UNCHANGED <<overlapped, sent, sentIdx, event, failed>>
    BY <1>11 DEF Length, mailVars, ghostVars
  <2>2. Answered /\ cur = sent /\ ~event'
    BY <1>8, <2>1 DEF Working
  <2>3. ~failed /\ sent.verb \notin Early => tx = Reply(sent)
    BY <2>1, <2>2 DEF Answered
  <2>4. Reply(sent)' = Reply(sent)
    BY <2>1 DEF Reply
  <2>5. txIdx' = ReplyLength(sent.verb) /\ sent' = sent
    BY <1>11, <2>1, <2>2 DEF Length
  <2> QED
    BY <2>1, <2>2, <2>3, <2>4, <2>5 DEF Answered, Taking
<1>12. CASE Text
  <2>1. /\ pc = "text" /\ pc' = "finish"
        /\ UNCHANGED <<overlapped, sent, sentIdx, event, failed>>
    BY <1>12 DEF Text, mailVars, ghostVars
  <2>2. sent.verb \in Early /\ ~event'
    BY <1>8, <2>1 DEF Working, Answered
  <2> QED
    BY <2>1, <2>2 DEF Answered, Taking
<1>13. CASE Finish
  <2>1. /\ pc = "finish" /\ pc' = "wait" /\ event' = event /\ UNCHANGED <<tx, txIdx>>
        /\ UNCHANGED ghostVars
    BY <1>13 DEF Finish, replyVars
  <2>2. Reply(sent)' = Reply(sent)
    BY <2>1 DEF ghostVars, Reply
  <2> QED
    BY <1>4, <2>1, <2>2 DEF Answered, Taking
<1>14. CASE UNCHANGED vars
  BY <1>4, <1>14 DEF vars, mailVars, replyVars, Answered
<1> QED
  BY <1>1, <1>2, <1>5, <1>6, <1>7, <1>9, <1>10, <1>11, <1>12, <1>13, <1>14
     DEF Next, Host, Thread

LEMMA FailingStep ==
  ASSUME TypeOK, ~overlapped => Taken /\ Failing, [Next]_vars, ~overlapped'
  PROVE  Failing'
<1>1. ASSUME NEW c \in Commands, HostCommand(c) PROVE Failing'
  BY <1>1 DEF HostCommand, Settled, Failing
<1>2. CASE HostOther
  BY <1>2 DEF HostOther, Settled, Failing
<1>3. ASSUME UNCHANGED <<overlapped, sent>> PROVE Taken /\ Failing /\ ~overlapped
  BY <1>3
<1>4. CASE HostFetch
  <2>1. UNCHANGED <<event, isCommand, pc, sent, failed, overlapped>>
    BY <1>4 DEF HostFetch, mailVars
  <2> QED
    BY <1>3, <2>1 DEF Failing
<1>5. ASSUME pc # "wait", ~overlapped, Taken PROVE ~event
  BY <1>5 DEF Taken
<1>6. CASE Wake \/ Dispatch \/ Match \/ Split \/ TakeAddr \/ TakeVal \/ Finish
  <2>1. UNCHANGED <<sent, failed, overlapped, isCommand>> /\ (event' => event)
    BY <1>6 DEF Wake, Dispatch, Match, Split, TakeAddr, TakeVal, Finish, mailVars, ghostVars
  <2>2. pc' # "length" /\ pc' \notin {"store", "text"}
    BY <1>6 DEF Wake, Dispatch, Match, Split, TakeAddr, TakeVal, Finish
  <2>3. /\ pc' = "dispatch" => event
        /\ pc' \in {"match", "split", "addr", "val", "exec"} =>
             pc \in {"match", "split", "addr", "val"} \/ (pc = "dispatch" /\ isCommand)
    BY <1>6 DEF Wake, Dispatch, Match, Split, TakeAddr, TakeVal, Finish
  <2> QED
    BY <1>3, <2>1, <2>2, <2>3 DEF Failing
<1>7. CASE Act \/ StoreBegin \/ ReadFails \/ Clear
  <2>1. /\ pc = "exec" /\ UNCHANGED <<sent, overlapped, event>>
        /\ pc' \in {"finish", "store", "length"}
    BY <1>7 DEF Act, StoreBegin, ReadFails, Clear, mailVars
  <2>2. ~failed /\ ~event /\ cur = sent
    BY <1>3, <1>5, <2>1 DEF Failing, Taken, Working
  <2>3. failed' = failed \/ (pc' = "length" /\ sent.verb = "regr")
    BY <1>7, <2>2 DEF Act, StoreBegin, ReadFails, Clear
  <2> QED
    BY <2>1, <2>2, <2>3 DEF Failing
<1>8. CASE StoreEnd \/ Length \/ Text
  <2>1. /\ pc \in {"store", "length", "text"} /\ UNCHANGED <<sent, overlapped, event, failed>>
        /\ pc' \in {"length", "text", "finish"} /\ (pc' = "length" => pc = "store")
        /\ pc' = "text" => pc = "length" /\ cur.verb \in Early
    BY <1>8 DEF StoreEnd, Length, Text, mailVars, ghostVars
  <2>2. Failing /\ ~event /\ cur = sent
    BY <1>3, <1>5, <2>1 DEF Taken, Working
  <2> QED
    BY <2>1, <2>2 DEF Failing, Early
<1>9. CASE UNCHANGED vars
  BY <1>3, <1>9 DEF vars, mailVars, ghostVars, Failing
<1> QED
  BY <1>1, <1>2, <1>4, <1>6, <1>7, <1>8, <1>9 DEF Next, Host, Thread

-----------------------------------------------------------------------------
(* The theorems.                                                           *)

LEMMA InitInv == Init => Inv
<1> SUFFICES ASSUME Init PROVE Inv
  OBVIOUS
<1>1. TypeOK
  BY InitTypeOK
<1>2. Taken
  BY DEF Init, Taken, Taking, Working
<1>3. Answered
  BY DEF Init, Answered, Taking
<1>4. Failing
  BY DEF Init, Failing
<1> QED
  BY <1>1, <1>2, <1>3, <1>4 DEF Inv

LEMMA StepInv == Inv /\ [Next]_vars => Inv'
<1> SUFFICES ASSUME Inv, [Next]_vars PROVE Inv'
  OBVIOUS
<1>1. TypeOK /\ (~overlapped => Taken /\ Answered /\ Failing)
  BY DEF Inv
<1>2. TypeOK'
  BY <1>1, StepTypeOK
<1>3. ASSUME ~overlapped' PROVE Taken' /\ Answered' /\ Failing'
  BY <1>1, <1>2, <1>3, TakenStep, AnsweredStep, FailingStep
<1> QED
  BY <1>2, <1>3 DEF Inv

LEMMA InvInvariant == Spec => []Inv
BY InitInv, StepInv, PTL DEF Spec

(* The mailbox, the reply and the command in progress have their types.    *)
THEOREM TypeCorrect == Spec => []TypeOK
<1>1. Inv => TypeOK
  BY DEF Inv
<1> QED
  BY <1>1, InvInvariant, PTL

(* USBEP0RxThread performs a command that was written while it waited      *)
(* exactly as the host wrote it, for any registers and values: the dregs   *)
(* of earlier commands in HostRxData_ never enter its arguments.           *)
THEOREM CommandCorrect == Spec => []CommandIntact
<1>1. Inv => CommandIntact
  BY DEF Inv, Taken, Working, CommandIntact
<1> QED
  BY <1>1, InvInvariant, PTL

(* A new HostTxData_idx_ comes after the reply it is the length of, but    *)
(* for GET DMA MODE, GET ZING MODE and a failed register read.             *)
THEOREM ReplyCorrect == Spec => []ReplyReady
<1>1. Inv => ReplyReady
  BY DEF Inv, Answered, ReplyReady
<1> QED
  BY <1>1, InvInvariant, PTL
-----------------------------------------------------------------------------
(* The mailbox as a command port.                                          *)

Commanded == IF Stage \in {"asked", "taken", "storing", "failed"} THEN sent ELSE NoCommand
Shown == [text |-> tx, length |-> txIdx]
Answers == [c \in {d \in Commands : d.verb \in Replying} |-> ReplyTo(c)]

LEMMA StageFacts ==
  TypeOK =>
    /\ Settled => Stage = "idle"
    /\ ~Settled /\ overlapped => Stage = "lost"
    /\ ~Settled /\ ~overlapped =>
         /\ pc \in {"wait", "dispatch"} => Stage = (IF isCommand THEN "asked" ELSE "over")
         /\ pc \in {"match", "split", "addr", "val"} => Stage = "asked"
         /\ pc = "exec" => Stage = "taken"
         /\ pc \in {"store", "length", "text"} => Stage = (IF failed THEN "failed" ELSE "storing")
         /\ pc = "finish" => Stage = "over"
BY DEF Stage, Settled, InProgress

\* The same of the next state.
LEMMA StageNext ==
  TypeOK' =>
    /\ Settled' => Stage' = "idle"
    /\ ~Settled' /\ overlapped' => Stage' = "lost"
    /\ ~Settled' /\ ~overlapped' =>
         /\ pc' \in {"wait", "dispatch"} => Stage' = (IF isCommand' THEN "asked" ELSE "over")
         /\ pc' \in {"match", "split", "addr", "val"} => Stage' = "asked"
         /\ pc' = "exec" => Stage' = "taken"
         /\ pc' \in {"store", "length", "text"} => Stage' = (IF failed' THEN "failed" ELSE "storing")
         /\ pc' = "finish" => Stage' = "over"
BY DEF Stage, Settled, InProgress

LEMMA PortInit == Init => Port!Init
<1> SUFFICES ASSUME Init PROVE Port!Init
  OBVIOUS
<1>1. Stage = "idle"
  BY InitTypeOK, StageFacts DEF Init, Settled
<1>2. tx \in Replies /\ txIdx \in {0, 1, 3, 4, 5}
  BY InitTypeOK DEF TypeOK
<1> QED
  BY <1>1, <1>2 DEF Port!Init

\* A step while the promise is suspended, or one that suspends it.
LEMMA LostStep ==
  ASSUME Inv, Inv', [Next]_vars, overlapped'
  PROVE  [Port!Next]_(Port!portVars)
<1>1. TypeOK /\ TypeOK'
  BY DEF Inv
<1>2. ASSUME ~Settled, Stage' = "lost", Commanded' = NoCommand, Shown' = Shown
      PROVE  Port!Overwrite
  <2>1. Stage # "idle"
    BY <1>1, <1>2, StageFacts DEF TypeOK
  <2> QED
    BY <1>2, <2>1 DEF Port!Overwrite, Commanded, Shown
<1>3. ASSUME UNCHANGED replyVars, overlapped' = ~Settled, event' = TRUE
      PROVE  Port!Overwrite
  <2>1. ~Settled /\ ~Settled'
    BY <1>3 DEF Settled
  <2>2. Stage' = "lost"
    BY <1>1, <2>1, StageNext
  <2>3. Commanded' = NoCommand /\ Shown' = Shown
    BY <1>3, <2>2 DEF Commanded, Shown, replyVars, NoCommand
  <2> QED
    BY <1>2, <2>1, <2>2, <2>3
<1>4. ASSUME NEW c \in Commands, HostCommand(c) PROVE Port!Overwrite
  BY <1>3, <1>4 DEF HostCommand
<1>5. CASE HostOther
  BY <1>3, <1>5 DEF HostOther, Port!Next
<1>6. ASSUME UNCHANGED <<event, pc, overlapped, tx, txIdx>>
      PROVE  UNCHANGED Port!portVars
  <2>1. Settled' = Settled
    BY <1>6 DEF Settled
  <2>2. Stage' = Stage /\ Stage \in {"idle", "lost"}
    BY <1>1, <1>6, <2>1, StageFacts, StageNext
  <2>3. Commanded' = Commanded /\ Shown' = Shown
    BY <1>6, <2>2 DEF Commanded, Shown, NoCommand
  <2> QED
    BY <2>2, <2>3 DEF Port!portVars, Commanded, Shown
<1>7. CASE HostFetch \/ UNCHANGED vars
  <2>1. UNCHANGED <<event, pc, overlapped, tx, txIdx>>
    BY <1>7 DEF HostFetch, vars, mailVars, replyVars, ghostVars
  <2> QED
    BY <1>6, <2>1
<1>8. CASE Thread
  <2>1. overlapped' = overlapped /\ (pc # "wait" \/ event)
    BY <1>8 DEF Thread, Wake, Dispatch, Match, Split, TakeAddr, TakeVal, Act, StoreBegin,
                ReadFails, Clear, StoreEnd, Length, Text, Finish, ghostVars
  <2>2. Stage = "lost" /\ Stage' \in {"lost", "idle"}
    BY <1>1, <2>1, StageFacts, StageNext DEF Settled
  <2>3. Commanded = NoCommand /\ Commanded' = NoCommand
    BY <2>2 DEF Commanded, NoCommand
  <2>4. Shown' \in [text : Replies, length : {0, 1, 3, 4, 5}]
    BY <1>1 DEF TypeOK, Shown
  <2>5. Port!Muddle
    BY <2>2, <2>3, <2>4 DEF Port!Muddle, Commanded, Shown
  <2> QED
    BY <2>5 DEF Port!Next
<1> QED
  BY <1>4, <1>5, <1>7, <1>8 DEF Next, Host, Port!Next

\* A step of the thread, or of the host that has waited.
LEMMA PortStep ==
  ASSUME Inv, Inv', [Next]_vars, ~overlapped'
  PROVE  [Port!Next]_(Port!portVars)
<1>1. TypeOK /\ TypeOK'
  BY DEF Inv
<1>2. ASSUME Stage' = Stage, sent' = sent, Shown' = Shown PROVE UNCHANGED Port!portVars
  <2>1. Commanded' = Commanded
    BY <1>2 DEF Commanded, NoCommand
  <2> QED
    BY <1>2, <2>1 DEF Port!portVars, Commanded, Shown
<1>3. ASSUME NEW c \in Commands, HostCommand(c) PROVE Port!Ask(c)
  <2>1. Settled /\ ~Settled' /\ pc' = "wait" /\ isCommand' /\ sent' = c /\ UNCHANGED <<tx, txIdx>>
    BY <1>3 DEF HostCommand, Settled, replyVars
  <2>2. Stage = "idle" /\ Stage' = "asked"
    BY <1>1, <2>1, StageFacts, StageNext
  <2>3. Commanded' = c /\ Shown' = Shown
    BY <2>1, <2>2 DEF Commanded, Shown
  <2> QED
    BY <2>2, <2>3 DEF Port!Ask, Commanded, Shown
<1>4. CASE HostOther
  <2>1. Settled /\ ~Settled' /\ pc' = "wait" /\ ~isCommand' /\ UNCHANGED <<tx, txIdx>>
    BY <1>4 DEF HostOther, Settled, replyVars
  <2>2. Stage = "idle" /\ Stage' = "over"
    BY <1>1, <2>1, StageFacts, StageNext
  <2>3. Commanded = NoCommand /\ Commanded' = NoCommand /\ Shown' = Shown
    BY <2>1, <2>2 DEF Commanded, Shown, NoCommand
  <2>4. Port!AskNothing
    BY <2>2, <2>3 DEF Port!AskNothing, Commanded, Shown
  <2> QED
    BY <2>4 DEF Port!Next
<1>5. CASE HostFetch \/ UNCHANGED vars
  <2>1. UNCHANGED <<event, isCommand, pc, overlapped, failed, tx, txIdx, sent>>
    BY <1>5 DEF HostFetch, vars, mailVars, replyVars, ghostVars
  <2>2. Stage' = Stage /\ Shown' = Shown
    BY <2>1 DEF Stage, Settled, InProgress, Shown
  <2> QED
    BY <1>2, <2>1, <2>2
<1>6. ASSUME overlapped' = overlapped
      PROVE  /\ ~overlapped /\ Taken /\ Answered /\ Failing
             /\ Taken' /\ Failing' /\ (pc # "wait" => ~event)
  BY <1>6 DEF Inv, Taken
<1>7. ASSUME Thread PROVE overlapped' = overlapped /\ sent' = sent /\ ~Settled
  BY <1>7 DEF Thread, Wake, Dispatch, Match, Split, TakeAddr, TakeVal, Act, StoreBegin,
              ReadFails, Clear, StoreEnd, Length, Text, Finish, ghostVars, Settled
<1>8. CASE Wake \/ Dispatch
  <2>1. ~Settled' /\ isCommand' = isCommand /\ Shown' = Shown /\ pc \in {"wait", "dispatch"}
    BY <1>8 DEF Wake, Dispatch, Settled, replyVars, Shown
  <2>2. pc' \in {"dispatch", "match", "finish"} /\ (pc' = "match" => isCommand)
        /\ (pc' = "finish" => ~isCommand)
    BY <1>8 DEF Wake, Dispatch
  <2>3. Stage' = Stage
    BY <1>1, <1>6, <1>7, <1>8, <2>1, <2>2, StageFacts, StageNext DEF Thread
  <2> QED
    BY <1>2, <1>7, <1>8, <2>1, <2>3 DEF Thread
<1>9. CASE Match \/ Split \/ TakeAddr \/ TakeVal
  <2>1. /\ ~Settled' /\ Shown' = Shown /\ pc \in {"match", "split", "addr", "val"}
        /\ pc' \in {"split", "addr", "val", "exec", "finish"} /\ (pc' = "finish" => Split)
    BY <1>9 DEF Match, Split, TakeAddr, TakeVal, Settled, replyVars, Shown
  <2>2. sent' = sent /\ ~Settled /\ ~overlapped /\ Taken
    BY <1>6, <1>7, <1>9 DEF Thread
  <2>3. pc' # "finish"
    <3> SUFFICES ASSUME Split PROVE pc' # "finish"
      BY <2>1
    <3>1. Loaded /\ sent.verb \notin Fixed
      BY <2>2 DEF Split, Taken, Taking
    <3>2. sent.verb \in Worded \cup {"regw", "regr"}
      BY <3>1, CommandParts DEF Loaded
    <3> QED
      BY <3>1, <3>2 DEF Split, Loaded
  <2>4. Stage = "asked" /\ Stage' = (IF pc' = "exec" THEN "taken" ELSE "asked")
    BY <1>1, <2>1, <2>2, <2>3, StageFacts, StageNext
  <2>5. CASE pc' = "exec"
    <3>1. Commanded' = Commanded
      BY <2>2, <2>4 DEF Commanded
    <3>2. Port!Take
      BY <2>1, <2>4, <2>5, <3>1 DEF Port!Take, Commanded, Shown
    <3> QED
      BY <3>2 DEF Port!Next
  <2>6. CASE pc' # "exec"
    BY <1>2, <2>1, <2>2, <2>4, <2>6
  <2> QED
    BY <2>5, <2>6
<1>10. ASSUME Thread, pc \in Working
       PROVE  /\ cur = sent /\ sent \in Commands /\ ~event
              /\ Stage \in {"taken", "storing", "failed"} /\ Commanded = sent
              /\ pc = "exec" => Stage = "taken" /\ ~failed
              /\ pc # "exec" => Stage = (IF failed THEN "failed" ELSE "storing")
  <2>1. Taken /\ Failing /\ ~overlapped /\ ~Settled /\ (pc # "wait" => ~event)
    BY <1>6, <1>7, <1>10
  <2>2. cur = sent /\ sent \in Commands
    BY <1>10, <2>1 DEF Taken
  <2>3. /\ pc = "exec" => Stage = "taken" /\ ~failed
        /\ pc # "exec" => Stage = (IF failed THEN "failed" ELSE "storing")
    BY <1>1, <1>10, <2>1, StageFacts DEF Working, Failing
  <2> QED
    BY <1>10, <2>1, <2>2, <2>3 DEF Working, Commanded
<1>11. DOMAIN Answers = {d \in Commands : d.verb \in Replying}
  BY DEF Answers
<1>12. ASSUME ~event', pc' = "finish"
       PROVE  Stage' = "over" /\ Commanded' = NoCommand
  <2>1. ~Settled'
    BY <1>12 DEF Settled
  <2>2. Stage' = "over"
    BY <1>1, <1>12, <2>1, StageNext
  <2> QED
    BY <2>2 DEF Commanded, NoCommand
<1>13. ASSUME Thread, pc' \in {"store", "length", "text"}
       PROVE  Stage' = (IF failed' THEN "failed" ELSE "storing") /\ Commanded' = sent
  <2>1. ~Settled' /\ sent' = sent
    BY <1>7, <1>13 DEF Settled
  <2>2. Stage' = (IF failed' THEN "failed" ELSE "storing")
    BY <1>1, <1>13, <2>1, StageNext
  <2> QED
    BY <2>1, <2>2 DEF Commanded
<1>14. CASE Act
  <2>1. pc = "exec" /\ pc' = "finish" /\ event' = event /\ Shown' = Shown
    BY <1>14 DEF Act, mailVars, replyVars, Shown
  <2>2. cur = sent /\ sent \in Commands /\ Stage = "taken" /\ Commanded = sent /\ ~event
    BY <1>10, <1>14, <2>1 DEF Thread, Working
  <2>3. sent \notin DOMAIN Answers
    <3>1. cur.verb \in {"regw", "act", "test"} \/ (cur.verb = "regr" /\ cur.addr = NoAddr)
      BY <1>14 DEF Act
    <3>2. cur.verb # "regr"
      BY <2>2, <3>1, CommandParts, MailboxAssumption DEF Fixed, Worded, Early
    <3> QED
      BY <1>11, <2>2, <3>1, <3>2 DEF Replying, Early
  <2>4. Port!Perform
    BY <1>12, <2>1, <2>2, <2>3
       DEF Port!Perform, Port!Replying, Commanded, Shown, Answers
  <2> QED
    BY <2>4 DEF Port!Next
<1>15. ASSUME NEW t \in Replies, Stage \in {"taken", "storing"}, Stage' = "storing",
              Commanded = sent, Commanded' = sent, sent \in Commands, sent.verb \in Replying,
              \/ Shown' = [Shown EXCEPT !.text = t]
              \/ sent.verb \in Early /\ Shown' = [text |-> t, length |-> ReplyLength(sent.verb)]
       PROVE  Port!Store
  <2>1. sent \in DOMAIN Answers /\ Answers[sent].length = ReplyLength(sent.verb)
    BY <1>15 DEF Answers, ReplyTo
  <2> QED
    BY <1>15, <2>1 DEF Port!Store, Port!Replying, Commanded, Shown, Answers
<1>16. CASE StoreBegin \/ Clear
  <2>1. /\ pc = "exec" /\ pc' \in {"store", "length"} /\ failed' = failed
        /\ tx' \in {Partial, Zeros} /\ txIdx' = txIdx /\ cur.verb \in Replying
    BY <1>16 DEF StoreBegin, Clear, Replying
  <2>2. cur = sent /\ sent \in Commands /\ Stage = "taken" /\ Commanded = sent /\ ~failed
    BY <1>10, <1>16, <2>1 DEF Thread, Working
  <2>3. Stage' = "storing" /\ Commanded' = sent
    BY <1>13, <1>16, <2>1, <2>2 DEF Thread
  <2>4. Shown' = [Shown EXCEPT !.text = tx'] /\ tx' \in Replies
    BY <1>1, <2>1 DEF Shown, TypeOK
  <2> QED
    BY <1>15, <2>1, <2>2, <2>3, <2>4 DEF Port!Next
<1>17. CASE ReadFails
  <2>1. /\ pc = "exec" /\ pc' = "length" /\ failed' /\ Shown' = Shown /\ cur.verb = "regr"
    BY <1>17 DEF ReadFails, replyVars, Shown
  <2>2. cur = sent /\ sent \in Commands /\ Stage = "taken" /\ Commanded = sent
    BY <1>10, <1>17, <2>1 DEF Thread, Working
  <2>3. Stage' = "failed" /\ Commanded' = sent
    BY <1>13, <1>17, <2>1 DEF Thread
  <2>4. Port!Fail
    BY <2>1, <2>2, <2>3 DEF Port!Fail, Commanded, Shown
  <2> QED
    BY <2>4 DEF Port!Next
<1>18. CASE StoreEnd
  <2>1. /\ pc = "store" /\ pc' = "length" /\ failed' = failed /\ txIdx' = txIdx
    BY <1>18 DEF StoreEnd, ghostVars
  <2>2. /\ cur = sent /\ sent \in Commands /\ Commanded = sent
        /\ Stage = (IF failed THEN "failed" ELSE "storing")
    BY <1>10, <1>18, <2>1 DEF Thread, Working
  <2>3. ~failed
    BY <1>6, <1>7, <1>18, <2>1 DEF Thread, Failing
  <2>4. Stage' = "storing" /\ Commanded' = sent
    BY <1>13, <1>18, <2>1, <2>3 DEF Thread
  <2>5. Shown' = [Shown EXCEPT !.text = tx'] /\ tx' \in Replies /\ cur.verb \in Replying
    BY <1>1, <2>1 DEF Shown, TypeOK
  <2> QED
    BY <1>15, <2>2, <2>3, <2>4, <2>5 DEF Port!Next
<1>19. CASE Length
  <2>1. /\ pc = "length" /\ pc' = (IF cur.verb \in Early THEN "text" ELSE "finish")
        /\ failed' = failed /\ event' = event /\ tx' = tx /\ txIdx' = ReplyLength(cur.verb)
        /\ cur.verb \in Replying
    BY <1>1, <1>19 DEF Length, mailVars, ghostVars, TypeOK
  <2>2. /\ cur = sent /\ sent \in Commands /\ Commanded = sent /\ ~event
        /\ Stage = (IF failed THEN "failed" ELSE "storing")
    BY <1>10, <1>19, <2>1 DEF Thread, Working
  <2>3. Answered /\ Failing
    BY <1>6, <1>7, <1>19 DEF Thread
  <2>4. sent \in DOMAIN Answers /\ Answers[sent] = [text |-> Reply(sent), length |-> ReplyLength(sent.verb)]
    BY <2>1, <2>2 DEF Answers, ReplyTo
  <2>5. CASE cur.verb \in Early
    <3>1. ~failed
      BY <2>1, <2>2, <2>3, <2>5 DEF Failing, Early
    <3>2. Stage' = "storing" /\ Commanded' = sent
      BY <1>13, <1>19, <2>1, <2>5, <3>1 DEF Thread
    <3>3. Shown' = [text |-> tx, length |-> ReplyLength(sent.verb)] /\ tx \in Replies
      BY <1>1, <2>1, <2>2 DEF Shown, TypeOK
    <3> QED
      BY <1>15, <2>1, <2>2, <2>5, <3>1, <3>2, <3>3 DEF Port!Next
  <2>6. CASE cur.verb \notin Early /\ failed
    <3>1. Stage' = "over" /\ Commanded' = NoCommand
      BY <1>12, <2>1, <2>2, <2>6
    <3>2. Shown' = [Shown EXCEPT !.length = Answers[sent].length]
      BY <2>1, <2>2, <2>4 DEF Shown
    <3>3. Port!Mislead
      BY <2>2, <2>6, <3>1, <3>2 DEF Port!Mislead, Commanded, Shown, Answers
    <3> QED
      BY <3>3 DEF Port!Next
  <2>7. CASE cur.verb \notin Early /\ ~failed
    <3>1. Stage' = "over" /\ Commanded' = NoCommand
      BY <1>12, <2>1, <2>2, <2>7
    <3>2. tx = Reply(sent)
      BY <2>1, <2>2, <2>3, <2>7 DEF Answered
    <3>3. Shown' = Answers[sent]
      BY <2>1, <2>2, <2>4, <3>2 DEF Shown
    <3>4. Port!Publish
      BY <2>2, <2>7, <3>1, <3>3 DEF Port!Publish, Commanded, Shown, Answers
    <3> QED
      BY <3>4 DEF Port!Next
  <2> QED
    BY <2>5, <2>6, <2>7
<1>20. CASE Text
  <2>1. /\ pc = "text" /\ pc' = "finish" /\ event' = event
        /\ tx' = Reply(cur) /\ txIdx' = txIdx /\ cur.verb \in Replying
    BY <1>1, <1>20 DEF Text, mailVars, TypeOK
  <2>2. /\ cur = sent /\ sent \in Commands /\ Commanded = sent /\ ~event
        /\ Stage = (IF failed THEN "failed" ELSE "storing")
    BY <1>10, <1>20, <2>1 DEF Thread, Working
  <2>3. txIdx = ReplyLength(sent.verb) /\ ~failed
    BY <1>6, <1>7, <1>20, <2>1 DEF Thread, Answered, Failing
  <2>4. Stage' = "over" /\ Commanded' = NoCommand
    BY <1>12, <2>1, <2>2
  <2>5. Shown' = Answers[sent]
    BY <2>1, <2>2, <2>3 DEF Shown, Answers, ReplyTo
  <2>6. Port!Publish
    BY <2>2, <2>3, <2>4, <2>5 DEF Port!Publish, Commanded, Shown, Answers
  <2> QED
    BY <2>6 DEF Port!Next
<1>21. CASE Finish
  <2>1. pc = "finish" /\ pc' = "wait" /\ event' = event /\ Shown' = Shown
    BY <1>21 DEF Finish, replyVars, Shown
  <2>2. ~overlapped /\ ~Settled /\ ~event
    BY <1>6, <1>7, <1>21, <2>1 DEF Thread
  <2>3. Stage = "over" /\ Stage' = "idle"
    BY <1>1, <2>1, <2>2, StageFacts, StageNext DEF Settled
  <2>4. Commanded = NoCommand /\ Commanded' = NoCommand
    BY <2>3 DEF Commanded, NoCommand
  <2>5. Port!Rest
    BY <2>1, <2>3, <2>4 DEF Port!Rest, Commanded, Shown
  <2> QED
    BY <2>5 DEF Port!Next
<1> QED
  BY <1>3, <1>4, <1>5, <1>8, <1>9, <1>14, <1>16, <1>17, <1>18, <1>19, <1>20, <1>21
     DEF Next, Host, Thread, Port!Next

(* USBSetupCB and USBEP0RxThread implement the command port: a command     *)
(* written while the thread waits is performed once and as written, and    *)
(* the reply then announced is its own, but for a failed register read.    *)
THEOREM ImplementsPort == Spec => PortSpec
<1>1. Inv /\ Inv' /\ [Next]_vars => [Port!Next]_(Port!portVars)
  BY LostStep, PortStep
<1> QED
  BY <1>1, InvInvariant, PortInit, PTL DEF Spec, PortSpec, Port!Spec
=============================================================================
