-------------------------- MODULE RegAccessProofs --------------------------
(***************************************************************************)
(* Proofs about RegAccess, for any number of clients, registers, values    *)
(* and DMA buffers.                                                        *)
(***************************************************************************)
EXTENDS RegAccess, TLAPS

(***************************************************************************)
(* The inductive invariant.  Calm is the hypothesis of RightAnswer.        *)
(***************************************************************************)
Calm == ~crossed /\ ~mixed

IsRead(i) == controlOut[i].req.kind \in ReadKinds
IsAns(i) == controlIn[i].type \in {"reg", "block"}

\* A client sleeps on the flag, or is past it, only inside a read.
WaitersRead ==
  \A c \in Clients : pc[c] \in {"wait", "woken", "copy"} => op[c].kind \in ReadKinds

\* Frames that were not mixed up carry their payload.
FramesWhole == ~mixed => \A i \in 1..Len(controlOut) : controlOut[i].whole

Frame == FramesWhole /\ WritesSettle

SoleReader ==
  ~crossed => \A c, d \in Clients : Reading(c) /\ Reading(d) => c = d

\* The flag is not left set for a later read to find.
FlagClear == Calm => ~event

\* An unanswered read has its reader asleep, and will be answered with its due.
ReadsOwed ==
  Calm => \A i \in 1..Len(controlOut) : IsRead(i) =>
    \E c \in Clients :
      /\ pc[c] = "wait"
      /\ due[c] \in Answers
      /\ due[c].type = AnswerType(controlOut[i].req)
      /\ due[c].addr = controlOut[i].req.addr
      /\ Settles(controlOut, regs, controlOut[i].req.addr, i - 1, due[c].val)

\* An answer that has arrived is what its sleeping reader is due.
AnswersOwed ==
  Calm => \A i \in 1..Len(controlIn) : IsAns(i) =>
    \E c \in Clients : pc[c] = "wait" /\ controlIn[i] = due[c]

\* At most one read or answer is on its way.
OneOutstanding ==
  Calm =>
    /\ \A i, j \in 1..Len(controlOut) : IsRead(i) /\ IsRead(j) => i = j
    /\ \A i, j \in 1..Len(controlIn) : IsAns(i) /\ IsAns(j) => i = j
    /\ \A i \in 1..Len(controlOut), j \in 1..Len(controlIn) : ~(IsRead(i) /\ IsAns(j))

\* The slot holds what the readers past their wait are due.
SlotRight == Calm => \A c \in Returning : ccData = due[c]

Owed == FlagClear /\ ReadsOwed /\ AnswersOwed /\ OneOutstanding /\ SlotRight

IInv == TypeOK /\ Frame /\ WaitersRead /\ SoleReader /\ Owed

-----------------------------------------------------------------------------
(* Type correctness.                                                       *)

USE ClientAssumption, DataAssumption, BoundAssumption DEF Clients

LEMMA RequestFields ==
  ASSUME NEW r \in Requests
  PROVE  /\ r.kind \in {"read", "dump", "write", "mngt"}
         /\ r.kind \in ReadKinds => r.addr \in Addrs
         /\ r.kind = "write" => r.addr \in Addrs /\ r.val \in Vals
         /\ r # NoRequest
BY DEF Requests, ReadKinds, NoRequest

LEMMA AnswerTyped ==
  ASSUME NEW r \in Requests, r.kind \in ReadKinds, NEW m \in [Addrs -> Vals]
  PROVE  Answer(r, m) \in Answers
BY RequestFields DEF Answers, InFrames, Answer, AnswerType

LEMMA InitTypeOK == Init => TypeOK
<1> SUFFICES ASSUME Init PROVE TypeOK
  OBVIOUS
<1>1. /\ pc \in [Clients -> {"idle", "send", "getbuffer", "wait", "woken", "copy"}]
      /\ op \in [Clients -> Requests \cup {NoRequest}]
      /\ due \in [Clients -> Answers \cup {NoAnswer}]
  BY DEF Init
<1>2. \A c \in Clients : pc[c] = "idle"
  BY DEF Init
<1>3. /\ controlOut \in Seq(OutFrames) /\ Len(controlOut) <= CtlOutCount
      /\ controlIn \in Seq(InFrames) /\ Len(controlIn) <= CtlInCount
  BY DEF Init
<1>4. /\ event \in BOOLEAN /\ ccRunning \in BOOLEAN
      /\ crossed \in BOOLEAN /\ mixed \in BOOLEAN
  BY DEF Init
<1> QED
  BY <1>1, <1>2, <1>3, <1>4 DEF Init, TypeOK

LEMMA BuildTypeOK ==
  ASSUME TypeOK, NEW c \in Clients, Build(c)
  PROVE  TypeOK'
<1>1. PICK r \in Ops[c] : op' = [op EXCEPT ![c] = r] /\ buffer' = r
                        /\ crossed' \in BOOLEAN
  BY DEF Build, TypeOK, Reading
<1>2. r \in Requests
  OBVIOUS
<1>3. \A d \in Clients : pc'[d] # "idle" => op'[d] \in Ops[d]
  BY <1>1 DEF TypeOK, Build
<1> QED
  BY <1>1, <1>2, <1>3 DEF TypeOK, Build

LEMMA SendTypeOK ==
  ASSUME TypeOK, NEW c \in Clients, Send(c)
  PROVE  TypeOK'
<1>1. Copied(c) \in OutFrames
  BY DEF TypeOK, Send, Copied, OutFrames
<1>2. controlOut' \in Seq(OutFrames) /\ Len(controlOut') <= CtlOutCount
  BY <1>1 DEF TypeOK, Send, OutFull
<1>3. op[c] \in Requests /\ op[c] \in Ops[c]
  BY DEF TypeOK, Send
<1>4. /\ mixed' \in BOOLEAN
      /\ UNCHANGED <<buffer, controlIn, regs, ccData, mngtData, ccRunning,
                     unsolicited, crossed>>
  BY DEF TypeOK, Send
<1>5. CASE op[c].kind \in ReadKinds
  <2>1. Answer(op[c], written) \in Answers
    BY <1>3, <1>5, AnswerTyped DEF TypeOK
  <2>2. /\ pc' \in [Clients -> {"idle", "send", "getbuffer", "wait", "woken", "copy"}]
        /\ due' \in [Clients -> Answers \cup {NoAnswer}]
        /\ event' \in BOOLEAN
        /\ UNCHANGED <<op, written>>
        /\ \A d \in Clients : pc'[d] # "idle" => pc[d] # "idle"
    <3>1. event' = FALSE /\ UNCHANGED <<op, written>>
      BY <1>5 DEF Send
    <3>2. due' = [due EXCEPT ![c] = Answer(op[c], written)]
      BY <1>5 DEF Send
    <3>3. pc' = [pc EXCEPT ![c] = "copy"] \/ pc' = [pc EXCEPT ![c] = "wait"]
      BY <1>5 DEF Send
    <3>4. pc[c] # "idle"
      BY DEF Send
    <3> QED
      BY <2>1, <3>1, <3>2, <3>3, <3>4 DEF TypeOK
  <2> QED
    BY <1>2, <1>4, <2>2 DEF TypeOK
<1>6. CASE op[c].kind \notin ReadKinds
  <2>1. written' \in [Addrs -> Vals]
    BY <1>3, <1>6, RequestFields DEF TypeOK, Send
  <2>2. /\ pc' = [pc EXCEPT ![c] = "idle"]
        /\ op' = [op EXCEPT ![c] = NoRequest]
        /\ UNCHANGED <<event, due>>
    BY <1>6 DEF Send
  <2> QED
    BY <1>2, <1>4, <2>1, <2>2 DEF TypeOK
<1> QED
  BY <1>5, <1>6

LEMMA ControlChRecvTypeOK ==
  ASSUME TypeOK, ControlChRecv
  PROVE  TypeOK'
<1> DEFINE f == Head(controlIn)
<1>1. /\ f \in InFrames
      /\ controlIn' \in Seq(InFrames) /\ Len(controlIn') <= CtlInCount
      /\ ccRunning' = TRUE
      /\ UNCHANGED <<op, buffer, controlOut, regs, unsolicited, ghostVars>>
  BY DEF TypeOK, ControlChRecv
<1>2. CASE IsAnswer(f) /\ TakeAnswer(f)
  <2>1. ccData' \in Answers /\ mngtData' \in Vals \cup {NoVal} \cup RegWords
    BY <1>1, <1>2 DEF IsAnswer, Answers, InFrames, TakeAnswer, TypeOK, RegWord, RegWords
  <2>2. /\ pc' \in [Clients -> {"idle", "send", "getbuffer", "wait", "woken", "copy"}]
        /\ \A d \in Clients : pc'[d] # "idle" => pc[d] # "idle"
    BY <1>2 DEF TakeAnswer, EventSet, Waiting, TypeOK
  <2>3. event' \in BOOLEAN
    BY <1>2 DEF TakeAnswer, EventSet, TypeOK
  <2> QED
    BY <1>1, <2>1, <2>2, <2>3 DEF TypeOK, ghostVars
<1>3. CASE f.type = "mngt" /\ TakeManagement(f)
  <2>1. f.val \in Vals
    BY <1>1, <1>3 DEF InFrames
  <2> QED
    BY <1>1, <1>3, <2>1 DEF TypeOK, TakeManagement, ghostVars
<1>4. CASE f.type = "noact" /\ Discard(f)
  BY <1>1, <1>4 DEF TypeOK, Discard, ghostVars
<1> QED
  BY <1>2, <1>3, <1>4 DEF ControlChRecv

LEMMA ModemServeTypeOK ==
  ASSUME TypeOK, ModemServe
  PROVE  TypeOK'
<1> DEFINE f == Head(controlOut)
<1>1. /\ f \in OutFrames
      /\ controlOut' \in Seq(OutFrames) /\ Len(controlOut') <= CtlOutCount
      /\ UNCHANGED <<pc, op, buffer, event, ccData, mngtData, ccRunning,
                     unsolicited, ghostVars>>
  BY DEF TypeOK, ModemServe
<1>2. f.req \in Requests
  BY <1>1 DEF OutFrames
<1>3. CASE ServeRead(f)
  <2>1. Answer(f.req, regs) \in InFrames
    BY <1>2, <1>3, AnswerTyped DEF TypeOK, Answers, ServeRead
  <2>2. /\ controlIn' \in Seq(InFrames) /\ Len(controlIn') <= CtlInCount
        /\ UNCHANGED regs
    BY <1>3, <2>1 DEF TypeOK, InFull, ServeRead
  <2> QED
    BY <1>1, <2>2 DEF TypeOK, ghostVars
<1>4. CASE ServeWrite(f)
  <2>1. regs' \in [Addrs -> Vals] /\ UNCHANGED controlIn
    BY <1>2, <1>4, RequestFields DEF TypeOK, ServeWrite
  <2> QED
    BY <1>1, <2>1 DEF TypeOK, ghostVars
<1>5. CASE ServeManagement(f)
  BY <1>1, <1>5 DEF TypeOK, ServeManagement, ghostVars
<1> QED
  BY <1>3, <1>4, <1>5 DEF ModemServe

LEMMA StepTypeOK == TypeOK /\ [Next]_vars => TypeOK'
<1> SUFFICES ASSUME TypeOK, [Next]_vars PROVE TypeOK'
  OBVIOUS
<1>1. ASSUME NEW c \in Clients, Step(c) PROVE TypeOK'
  <2>1. CASE Build(c)
    BY <2>1, BuildTypeOK
  <2>2. CASE Send(c)
    BY <2>2, SendTypeOK
  <2>3. CASE AwaitBuffer(c)
    BY <2>3 DEF TypeOK, AwaitBuffer, ghostVars
  <2>4. CASE SendTimeout(c)
    BY <2>4 DEF TypeOK, SendTimeout, ghostVars
  <2>5. CASE CopyAnswer(c)
    BY <2>5 DEF TypeOK, CopyAnswer
  <2> QED
    BY <1>1, <2>1, <2>2, <2>3, <2>4, <2>5 DEF Step
<1>2. CASE ControlChRecv
  BY <1>2, ControlChRecvTypeOK
<1>3. CASE ControlChBlock
  BY <1>3 DEF TypeOK, ControlChBlock, ghostVars
<1>4. CASE ModemServe
  BY <1>4, ModemServeTypeOK
<1>5. CASE ModemSend
  BY <1>5 DEF TypeOK, ModemSend, InFull, ghostVars
<1>6. CASE UNCHANGED vars
  BY <1>6 DEF TypeOK, vars, sysVars, ghostVars
<1> QED
  BY <1>1, <1>2, <1>3, <1>4, <1>5, <1>6 DEF Next

(* Every variable keeps its type; no channel holds more frames than it has *)
(* DMA buffers, and no frame is committed before one was built.            *)
THEOREM TypeCorrect == Spec => []TypeOK
BY InitTypeOK, StepTypeOK, PTL DEF Spec

-----------------------------------------------------------------------------
(* Queues: what appending a frame and serving the head do to a search for  *)
(* a frame of some sort.                                                   *)

LEMMA AppendRead ==
  ASSUME NEW S, NEW q \in Seq(S), NEW e,
         HasRead(q) \/ e.req.kind \in ReadKinds
  PROVE  HasRead(Append(q, e))
BY DEF HasRead

LEMMA TailRead ==
  ASSUME NEW S, NEW q \in Seq(S), q # << >>,
         HasRead(q), Head(q).req.kind \notin ReadKinds
  PROVE  HasRead(Tail(q))
<1>1. PICK i \in 1..Len(q) : q[i].req.kind \in ReadKinds
  BY DEF HasRead
<1>2. i - 1 \in 1..Len(Tail(q)) /\ Tail(q)[i - 1] = q[i]
  BY <1>1
<1> QED
  BY <1>1, <1>2 DEF HasRead

LEMMA AppendAnswer ==
  ASSUME NEW S, NEW q \in Seq(S), NEW e,
         HasAnswer(q) \/ e.type \in {"reg", "block"}
  PROVE  HasAnswer(Append(q, e))
BY DEF HasAnswer

LEMMA TailAnswer ==
  ASSUME NEW S, NEW q \in Seq(S), q # << >>,
         HasAnswer(q), Head(q).type \notin {"reg", "block"}
  PROVE  HasAnswer(Tail(q))
<1>1. PICK i \in 1..Len(q) : q[i].type \in {"reg", "block"}
  BY DEF HasAnswer
<1>2. i - 1 \in 1..Len(Tail(q)) /\ Tail(q)[i - 1] = q[i]
  BY <1>1
<1> QED
  BY <1>1, <1>2 DEF HasAnswer

-----------------------------------------------------------------------------
(* No reader is left asleep.                                               *)

\* One access to the channel by client c moves only c.
LEMMA SendEffect ==
  ASSUME TypeOK, NEW c \in Clients, Send(c)
  PROVE  /\ pc[c] \in {"send", "getbuffer"} /\ op[c] \in Requests
         /\ controlOut' = Append(controlOut, Copied(c))
         /\ \A d \in Clients \ {c} : pc'[d] = pc[d] /\ op'[d] = op[d] /\ due'[d] = due[d]
         /\ mixed' = (mixed \/ buffer # op[c])
         /\ UNCHANGED <<controlIn, regs, ccData, crossed>>
         /\ op[c].kind \in ReadKinds =>
              /\ pc'[c] = IF event THEN "copy" ELSE "wait"
              /\ op'[c] = op[c]
              /\ due'[c] = Answer(op[c], written)
              /\ event' = FALSE
              /\ UNCHANGED written
         /\ op[c].kind \notin ReadKinds =>
              /\ pc'[c] = "idle"
              /\ written' = IF op[c].kind = "write"
                              THEN [written EXCEPT ![op[c].addr] = op[c].val]
                              ELSE written
              /\ UNCHANGED <<event, due>>
<1>1. CASE op[c].kind \in ReadKinds
  BY <1>1 DEF TypeOK, Send
<1>2. CASE op[c].kind \notin ReadKinds
  BY <1>2 DEF TypeOK, Send
<1> QED
  BY <1>1, <1>2

LEMMA StepNoLostWakeup ==
  TypeOK /\ NoLostWakeup /\ [Next]_vars => NoLostWakeup'
<1> SUFFICES ASSUME TypeOK, NoLostWakeup, [Next]_vars,
                    ~mixed', NEW w \in Clients, pc'[w] = "wait"
             PROVE  HasRead(controlOut)' \/ HasAnswer(controlIn)'
  BY DEF NoLostWakeup, Waiting
<1>0. controlOut \in Seq(OutFrames) /\ controlIn \in Seq(InFrames)
  BY DEF TypeOK
<1> DEFINE Due == HasRead(controlOut) \/ HasAnswer(controlIn)
<1>1. ASSUME UNCHANGED <<controlOut, controlIn, mixed>>, pc[w] = "wait"
      PROVE  HasRead(controlOut)' \/ HasAnswer(controlIn)'
  BY <1>1 DEF NoLostWakeup, Waiting, HasRead, HasAnswer
<1>2. ASSUME NEW c \in Clients, Step(c)
      PROVE  HasRead(controlOut)' \/ HasAnswer(controlIn)'
  <2>1. CASE Build(c)
    BY <1>1, <2>1 DEF Build, TypeOK
  <2>2. CASE Send(c)
    <3>1. ~mixed /\ buffer = op[c] /\ controlOut' = Append(controlOut, Copied(c))
          /\ UNCHANGED controlIn
      BY <2>2, SendEffect
    <3>2. CASE op[c].kind \in ReadKinds
      <4>1. Copied(c).req.kind \in ReadKinds
        BY <3>1, <3>2 DEF Copied
      <4> QED
        BY <1>0, <3>1, <4>1, AppendRead
    <3>3. CASE op[c].kind \notin ReadKinds
      <4>1. pc[w] = "wait"
        BY <2>2, <3>3, SendEffect
      <4>2. Due
        BY <3>1, <4>1 DEF NoLostWakeup, Waiting
      <4> QED
        BY <1>0, <3>1, <4>2, AppendRead
    <3> QED
      BY <3>2, <3>3
  <2>3. CASE AwaitBuffer(c)
    BY <1>1, <2>3 DEF AwaitBuffer, TypeOK, ghostVars
  <2>4. CASE SendTimeout(c)
    BY <1>1, <2>4 DEF SendTimeout, TypeOK, ghostVars
  <2>5. CASE CopyAnswer(c)
    BY <1>1, <2>5 DEF CopyAnswer, TypeOK
  <2> QED
    BY <1>2, <2>1, <2>2, <2>3, <2>4, <2>5 DEF Step
<1>3. CASE ControlChRecv
  <2> DEFINE f == Head(controlIn)
  <2>1. controlIn # << >> /\ controlIn' = Tail(controlIn) /\ UNCHANGED <<controlOut, mixed>>
    BY <1>3 DEF ControlChRecv, ghostVars
  <2>2. CASE IsAnswer(f) /\ TakeAnswer(f)
    BY <2>2 DEF TakeAnswer, EventSet, Waiting, TypeOK
  <2>3. CASE f.type \in {"mngt", "noact"} /\ UNCHANGED pc
    <3>1. Due
      BY <2>1, <2>3 DEF NoLostWakeup, Waiting
    <3> QED
      BY <1>0, <2>1, <2>3, <3>1, TailAnswer
  <2> QED
    BY <1>3, <2>2, <2>3 DEF ControlChRecv, TakeManagement, Discard
<1>4. CASE ControlChBlock
  BY <1>1, <1>4 DEF ControlChBlock, ghostVars
<1>5. CASE ModemServe
  <2> DEFINE f == Head(controlOut)
  <2>1. /\ controlOut # << >> /\ controlOut' = Tail(controlOut)
        /\ UNCHANGED <<pc, mixed>>
    BY <1>5 DEF ModemServe, ghostVars
  <2>2. Due
    BY <2>1 DEF NoLostWakeup, Waiting
  <2>3. CASE ServeRead(f)
    <3>1. Answer(f.req, regs).type \in {"reg", "block"}
      BY DEF Answer, AnswerType
    <3>2. controlIn' = Append(controlIn, Answer(f.req, regs))
      BY <2>3 DEF ServeRead
    <3> QED
      BY <1>0, <3>1, <3>2, AppendAnswer
  <2>4. CASE f.req.kind \notin ReadKinds /\ UNCHANGED controlIn
    BY <1>0, <2>1, <2>2, <2>4, TailRead
  <2> QED
    BY <1>5, <2>3, <2>4 DEF ModemServe, ServeWrite, ServeManagement, ReadKinds
<1>6. CASE ModemSend
  <2>1. /\ UNCHANGED <<pc, controlOut, mixed>>
        /\ \E f \in InFrames : controlIn' = Append(controlIn, f)
    BY <1>6 DEF ModemSend, ghostVars
  <2>2. Due
    BY <2>1 DEF NoLostWakeup, Waiting
  <2> QED
    BY <1>0, <2>1, <2>2, AppendAnswer
<1>7. CASE UNCHANGED vars
  BY <1>1, <1>7 DEF vars, sysVars, ghostVars
<1> QED
  BY <1>2, <1>3, <1>4, <1>5, <1>6, <1>7 DEF Next

(* Whatever the number of readers and however their reads overlap, none    *)
(* sleeps on EVT_CTLCH0 with no answer on the way, as long as each client  *)
(* committed the frame it built.                                           *)
THEOREM WakeupCorrect == Spec => []NoLostWakeup
<1>1. Init => NoLostWakeup
  BY DEF Init, NoLostWakeup, Waiting
<1> QED
  BY <1>1, TypeCorrect, StepNoLostWakeup, PTL DEF Spec

-----------------------------------------------------------------------------
(* What a register will hold: committing and serving a frame.              *)

LEMMA SettlesAppend ==
  ASSUME NEW S, NEW q \in Seq(S), NEW f, NEW m, NEW a, NEW v,
         NEW n \in 0..Len(q), Settles(q, m, a, n, v)
  PROVE  Settles(Append(q, f), m, a, n, v)
BY DEF Settles

LEMMA SettlesOther ==
  ASSUME NEW S, NEW q \in Seq(S), NEW f, NEW m, NEW a, NEW v,
         ~IsWrite(f, a), Settles(q, m, a, Len(q), v)
  PROVE  Settles(Append(q, f), m, a, Len(Append(q, f)), v)
BY DEF Settles

LEMMA SettlesWrite ==
  ASSUME NEW S, NEW q \in Seq(S), NEW f, NEW m, NEW a, IsWrite(f, a)
  PROVE  Settles(Append(q, f), m, a, Len(Append(q, f)), f.req.val)
BY DEF Settles

LEMMA SettlesServe ==
  ASSUME NEW S, NEW q \in Seq(S), q # << >>, NEW m, NEW k, NEW a, NEW v,
         NEW n \in 1..Len(q), Settles(q, m, a, n, v),
         k[a] = IF IsWrite(Head(q), a) THEN Head(q).req.val ELSE m[a]
  PROVE  Settles(Tail(q), k, a, n - 1, v)
<1> DEFINE t == Tail(q)
<1>1. \A i \in 1..n-1 : t[i] = q[i + 1]
  OBVIOUS
<1>2. Head(q) = q[1]
  OBVIOUS
<1>3. CASE \A i \in 1..n : ~IsWrite(q[i], a)
  BY <1>1, <1>2, <1>3 DEF Settles
<1>4. ASSUME NEW i \in 1..n, IsWrite(q[i], a), q[i].req.val = v,
             \A j \in i+1..n : ~IsWrite(q[j], a)
      PROVE  Settles(t, k, a, n - 1, v)
  <2>1. CASE i = 1
    <3>1. k[a] = v
      BY <1>2, <1>4, <2>1
    <3>2. \A j \in 1..n-1 : ~IsWrite(t[j], a)
      BY <1>1, <1>4, <2>1
    <3> QED
      BY <3>1, <3>2 DEF Settles
  <2>2. CASE i # 1
    <3>1. i - 1 \in 1..n-1 /\ t[i - 1] = q[i]
      BY <1>1, <2>2
    <3>2. \A j \in (i-1)+1..n-1 : ~IsWrite(t[j], a)
      BY <1>1, <1>4, <2>2
    <3> QED
      BY <1>4, <3>1, <3>2 DEF Settles
  <2> QED
    BY <2>1, <2>2
<1> QED
  BY <1>3, <1>4 DEF Settles

-----------------------------------------------------------------------------
(* The parts of the invariant that hold whether or not reads cross.        *)

LEMMA HeadWhole ==
  ASSUME NEW q \in Seq(OutFrames), q # << >>
  PROVE  /\ Head(q) = q[1] /\ 1 \in 1..Len(q)
         /\ Head(q) \in OutFrames /\ Head(q).req \in Requests
<1>1. Head(q) = q[1] /\ 1 \in 1..Len(q) /\ q[1] \in OutFrames
  OBVIOUS
<1> QED
  BY <1>1 DEF OutFrames

LEMMA StepFrame == TypeOK /\ Frame /\ [Next]_vars => Frame'
<1> SUFFICES ASSUME TypeOK, Frame, [Next]_vars, ~mixed'
             PROVE  /\ \A i \in 1..Len(controlOut)' : controlOut'[i].whole
                    /\ \A a \in Addrs :
                         Settles(controlOut', regs', a, Len(controlOut'), written'[a])
  BY DEF Frame, FramesWhole, WritesSettle
<1>0. controlOut \in Seq(OutFrames)
  BY DEF TypeOK
<1>1. ASSUME UNCHANGED <<controlOut, regs, written, mixed>>
      PROVE  /\ \A i \in 1..Len(controlOut)' : controlOut'[i].whole
             /\ \A a \in Addrs :
                  Settles(controlOut', regs', a, Len(controlOut'), written'[a])
  BY <1>1 DEF Frame, FramesWhole, WritesSettle
<1>2. ASSUME NEW c \in Clients, Send(c)
      PROVE  /\ \A i \in 1..Len(controlOut)' : controlOut'[i].whole
             /\ \A a \in Addrs :
                  Settles(controlOut', regs', a, Len(controlOut'), written'[a])
  <2> DEFINE f == Copied(c)
  <2>1. /\ ~mixed /\ op[c] \in Requests /\ f.req = op[c] /\ f.whole
        /\ controlOut' = Append(controlOut, f) /\ regs' = regs
        /\ written' = IF op[c].kind = "write"
                        THEN [written EXCEPT ![op[c].addr] = op[c].val]
                        ELSE written
    BY <1>2, SendEffect DEF Copied, ReadKinds
  <2>2. \A i \in 1..Len(controlOut') : controlOut'[i].whole
    BY <1>0, <2>1 DEF Frame, FramesWhole
  <2>3. ASSUME NEW a \in Addrs
        PROVE  Settles(controlOut', regs', a, Len(controlOut'), written'[a])
    <3>1. CASE IsWrite(f, a)
      <4>1. written'[a] = f.req.val
        BY <2>1, <3>1 DEF IsWrite, TypeOK
      <4> QED
        BY <1>0, <2>1, <3>1, <4>1, SettlesWrite
    <3>2. CASE ~IsWrite(f, a)
      <4>1. written'[a] = written[a]
        BY <2>1, <3>2, RequestFields DEF IsWrite, TypeOK
      <4>2. Settles(controlOut, regs, a, Len(controlOut), written[a])
        BY <2>1 DEF Frame, WritesSettle
      <4> QED
        BY <1>0, <2>1, <3>2, <4>1, <4>2, SettlesOther
    <3> QED
      BY <3>1, <3>2
  <2> QED
    BY <2>2, <2>3
<1>3. CASE ModemServe
  <2> DEFINE f == Head(controlOut)
  <2>1. /\ controlOut # << >> /\ controlOut' = Tail(controlOut) /\ ~mixed
        /\ written' = written
    BY <1>3 DEF ModemServe, ghostVars
  <2>2. f.whole /\ f \in OutFrames /\ f.req \in Requests
    BY <1>0, <2>1, HeadWhole DEF Frame, FramesWhole
  <2>3. ASSUME NEW a \in Addrs
        PROVE  regs'[a] = IF IsWrite(f, a) THEN f.req.val ELSE regs[a]
    <3>1. CASE ServeWrite(f)
      <4>1. regs' = [regs EXCEPT ![f.req.addr] = f.req.val]
        BY <2>2, <3>1 DEF ServeWrite
      <4> QED
        BY <3>1, <4>1 DEF IsWrite, TypeOK, ServeWrite
    <3>2. CASE ServeRead(f) \/ ServeManagement(f)
      BY <3>2 DEF IsWrite, ServeRead, ServeManagement, ReadKinds
    <3> QED
      BY <1>3, <3>1, <3>2 DEF ModemServe
  <2>4. \A i \in 1..Len(controlOut') : controlOut'[i].whole
    BY <1>0, <2>1 DEF Frame, FramesWhole
  <2>5. ASSUME NEW a \in Addrs
        PROVE  Settles(controlOut', regs', a, Len(controlOut'), written'[a])
    <3>1. Settles(controlOut, regs, a, Len(controlOut), written[a])
      BY <2>1 DEF Frame, WritesSettle
    <3>2. Len(controlOut) \in 1..Len(controlOut) /\ Len(controlOut') = Len(controlOut) - 1
      BY <1>0, <2>1
    <3>3. regs'[a] = IF IsWrite(Head(controlOut), a)
                       THEN Head(controlOut).req.val ELSE regs[a]
      BY <2>3
    <3>4. Settles(Tail(controlOut), regs', a, Len(controlOut) - 1, written[a])
      BY ONLY <1>0, <2>1, <3>1, <3>2, <3>3, SettlesServe
    <3> QED
      BY <2>1, <3>2, <3>4
  <2> QED
    BY <2>4, <2>5
<1>4. ASSUME NEW c \in Clients, Step(c), ~Send(c)
      PROVE  UNCHANGED <<controlOut, regs, written, mixed>>
  BY <1>4 DEF Step, Build, AwaitBuffer, SendTimeout, CopyAnswer, ghostVars
<1>5. CASE ControlChRecv \/ ControlChBlock \/ ModemSend \/ UNCHANGED vars
  BY <1>1, <1>5 DEF ControlChRecv, ControlChBlock, ModemSend, vars, sysVars, ghostVars
<1> QED
  BY <1>1, <1>2, <1>3, <1>4, <1>5 DEF Next

(* A write is not lost, torn or overtaken on its way to the modem: what    *)
(* the registers will hold is what was committed last.                     *)
THEOREM WritesCorrect == Spec => []WritesSettle
<1>1. Init => Frame
  BY DEF Init, Frame, FramesWhole, WritesSettle, Settles
<1>2. Frame => WritesSettle
  BY DEF Frame
<1> QED
  BY <1>1, <1>2, TypeCorrect, StepFrame, PTL DEF Spec

-----------------------------------------------------------------------------
(* Who reads.                                                              *)

LEMMA StepReaders ==
  TypeOK /\ WaitersRead /\ SoleReader /\ [Next]_vars => WaitersRead' /\ SoleReader'
<1> SUFFICES ASSUME TypeOK, WaitersRead, SoleReader, [Next]_vars
             PROVE  WaitersRead' /\ SoleReader'
  OBVIOUS
<1>1. ASSUME crossed' = crossed, op' = op,
             \A d \in Clients : pc'[d] \in {"wait", "woken", "copy"} =>
                                pc[d] \in {"wait", "woken", "copy"},
             \A d \in Clients : pc'[d] # "idle" => pc[d] # "idle"
      PROVE  WaitersRead' /\ SoleReader'
  BY <1>1 DEF WaitersRead, SoleReader, Reading
<1>2. ASSUME NEW c \in Clients, Step(c)
      PROVE  WaitersRead' /\ SoleReader'
  <2>1. CASE Build(c)
    <3>1. PICK r \in Ops[c] :
            /\ op' = [op EXCEPT ![c] = r]
            /\ crossed' = (crossed \/ /\ r.kind \in ReadKinds
                                      /\ \E d \in Clients \ {c} : Reading(d))
      BY <2>1 DEF Build
    <3>2. pc' = [pc EXCEPT ![c] = "send"]
      BY <2>1 DEF Build
    <3>3. WaitersRead'
      BY <3>1, <3>2 DEF WaitersRead, TypeOK
    <3>4. \A d \in Clients \ {c} : Reading(d)' <=> Reading(d)
      BY <3>1, <3>2 DEF Reading, TypeOK
    <3>5. Reading(c)' <=> r.kind \in ReadKinds
      BY <3>1, <3>2 DEF Reading, TypeOK
    <3> QED
      BY <3>1, <3>3, <3>4, <3>5 DEF SoleReader
  <2>2. CASE Send(c)
    <3>1. \A d \in Clients : Reading(d)' => Reading(d)
      BY <2>2, SendEffect DEF Reading, TypeOK
    <3>2. WaitersRead'
      BY <2>2, SendEffect DEF WaitersRead, TypeOK
    <3>3. crossed' = crossed
      BY <2>2, SendEffect
    <3> QED
      BY <3>1, <3>2, <3>3 DEF SoleReader
  <2>3. CASE AwaitBuffer(c)
    BY <1>1, <2>3 DEF AwaitBuffer, TypeOK, ghostVars
  <2>4. CASE SendTimeout(c) \/ CopyAnswer(c)
    <3>1. /\ pc' = [pc EXCEPT ![c] = "idle"] /\ op' = [op EXCEPT ![c] = NoRequest]
          /\ crossed' = crossed
      BY <2>4 DEF SendTimeout, CopyAnswer, ghostVars
    <3>2. WaitersRead'
      BY <3>1 DEF WaitersRead, TypeOK
    <3>3. \A d \in Clients : Reading(d)' => Reading(d)
      BY <3>1 DEF Reading, TypeOK
    <3> QED
      BY <3>1, <3>2, <3>3 DEF SoleReader
  <2> QED
    BY <1>2, <2>1, <2>2, <2>3, <2>4 DEF Step
<1>3. CASE ControlChRecv
  <2>1. op' = op /\ crossed' = crossed
    BY <1>3 DEF ControlChRecv, ghostVars
  <2>2. pc' = [d \in Clients |-> IF d \in Waiting THEN "woken" ELSE pc[d]] \/ pc' = pc
    BY <1>3 DEF ControlChRecv, TakeAnswer, EventSet, TakeManagement, Discard
  <2> QED
    BY <1>1, <2>1, <2>2 DEF Waiting, TypeOK
<1>4. CASE ControlChBlock \/ ModemServe \/ ModemSend \/ UNCHANGED vars
  BY <1>1, <1>4 DEF ControlChBlock, ModemServe, ModemSend, vars, sysVars, ghostVars
<1> QED
  BY <1>2, <1>3, <1>4 DEF Next

-----------------------------------------------------------------------------
(* Every reader gets its own answer.                                       *)

\* While a client is inside a read and not asleep, nothing is on its way.
LEMMA NothingOutstanding ==
  ASSUME IInv, Calm, NEW c \in Clients, Reading(c), pc[c] # "wait"
  PROVE  /\ \A i \in 1..Len(controlOut) : ~IsRead(i)
         /\ \A i \in 1..Len(controlIn) : ~IsAns(i)
<1>1. \A d \in Clients : pc[d] # "wait"
  BY DEF IInv, SoleReader, WaitersRead, Reading, Calm
<1> QED
  BY <1>1 DEF IInv, Owed, ReadsOwed, AnswersOwed

\* A step that leaves the channels and the readers in them alone.
LEMMA KeepOwed ==
  ASSUME IInv, Calm' => Calm, UNCHANGED <<controlOut, controlIn, regs, ccData, event>>,
         \A d \in Clients : pc[d] = "wait" => pc'[d] = "wait" /\ due'[d] = due[d],
         \A d \in Clients : pc'[d] \in {"woken", "copy"} =>
                            pc[d] \in {"woken", "copy"} /\ due'[d] = due[d]
  PROVE  Owed'
<1> SUFFICES ASSUME Calm' PROVE Owed'
  BY DEF Owed, FlagClear, ReadsOwed, AnswersOwed, OneOutstanding, SlotRight, Calm
<1>1. FlagClear' /\ OneOutstanding'
  BY DEF IInv, Owed, FlagClear, OneOutstanding, IsRead, IsAns
<1>2. ReadsOwed'
  BY DEF IInv, Owed, ReadsOwed, IsRead
<1>3. AnswersOwed'
  BY DEF IInv, Owed, AnswersOwed, IsAns
<1>4. SlotRight'
  BY DEF IInv, Owed, SlotRight, Returning, Calm
<1> QED
  BY <1>1, <1>2, <1>3, <1>4 DEF Owed

LEMMA SendOwed ==
  ASSUME IInv, NEW c \in Clients, Send(c)
  PROVE  Owed'
<1> SUFFICES ASSUME Calm' PROVE Owed'
  BY DEF Owed, FlagClear, ReadsOwed, AnswersOwed, OneOutstanding, SlotRight, Calm
<1> DEFINE f == Copied(c)
<1> DEFINE n == Len(controlOut)
<1>0. TypeOK /\ controlOut \in Seq(OutFrames) /\ controlIn \in Seq(InFrames)
  BY DEF IInv, TypeOK
<1>1. /\ Calm /\ ~event /\ f.req = op[c] /\ op[c] \in Requests
      /\ controlOut' = Append(controlOut, f)
      /\ UNCHANGED <<controlIn, regs, ccData>>
      /\ pc[c] \in {"send", "getbuffer"}
  BY <1>0, SendEffect DEF Calm, Copied, IInv, Owed, FlagClear
<1>2. /\ Len(controlOut') = n + 1 /\ controlOut'[n + 1] = f
      /\ \A i \in 1..n : controlOut'[i] = controlOut[i]
  BY <1>0, <1>1
<1>3. \A d \in Clients : pc[d] = "wait" => pc'[d] = "wait" /\ due'[d] = due[d]
  BY <1>0, <1>1, SendEffect
<1>4. SlotRight' /\ FlagClear'
  <2>1. ~event'
    BY <1>0, <1>1, SendEffect
  <2>2. \A d \in Clients : pc'[d] \in {"woken", "copy"} =>
                            pc[d] \in {"woken", "copy"} /\ due'[d] = due[d]
    BY <1>0, <1>1, SendEffect
  <2>3. SlotRight'
    BY <1>1, <2>2 DEF IInv, Owed, SlotRight, Returning, Calm
  <2> QED
    BY <2>1, <2>3 DEF FlagClear
<1>5. AnswersOwed'
  BY <1>1, <1>3 DEF IInv, Owed, AnswersOwed, IsAns
<1>6. ASSUME NEW i \in 1..n, IsRead(i)
      PROVE  \E d \in Clients :
               /\ pc'[d] = "wait" /\ due'[d] \in Answers
               /\ due'[d].type = AnswerType(controlOut[i].req)
               /\ due'[d].addr = controlOut[i].req.addr
               /\ Settles(controlOut', regs', controlOut[i].req.addr, i - 1, due'[d].val)
  <2>1. PICK d \in Clients :
          /\ pc[d] = "wait" /\ due[d] \in Answers
          /\ due[d].type = AnswerType(controlOut[i].req)
          /\ due[d].addr = controlOut[i].req.addr
          /\ Settles(controlOut, regs, controlOut[i].req.addr, i - 1, due[d].val)
    BY <1>1, <1>6 DEF IInv, Owed, ReadsOwed
  <2>2. i - 1 \in 0..Len(controlOut)
    BY <1>0
  <2>3. Settles(controlOut', regs, controlOut[i].req.addr, i - 1, due[d].val)
    BY <1>0, <1>1, <2>1, <2>2, SettlesAppend
  <2> QED
    BY <1>1, <1>3, <2>1, <2>3
<1>7. CASE op[c].kind \in ReadKinds
  <2>1. Reading(c) /\ pc[c] # "wait"
    BY <1>1, <1>7 DEF Reading
  <2>2. /\ \A i \in 1..n : ~IsRead(i)
        /\ \A i \in 1..Len(controlIn) : ~IsAns(i)
    BY <1>1, <2>1, NothingOutstanding
  <2>3. OneOutstanding'
    BY <1>1, <1>2, <2>2 DEF OneOutstanding, IsRead, IsAns
  <2>4. pc'[c] = "wait" /\ due'[c] = Answer(op[c], written)
    BY <1>0, <1>1, <1>7, SendEffect
  <2>5. due'[c] \in Answers /\ op[c].addr \in Addrs
    BY <1>0, <1>1, <1>7, <2>4, AnswerTyped, RequestFields DEF TypeOK
  <2>6. due'[c].type = AnswerType(f.req) /\ due'[c].addr = f.req.addr
          /\ due'[c].val = written[op[c].addr]
    BY <1>1, <2>4 DEF Answer
  <2>7. Settles(controlOut, regs, op[c].addr, n, written[op[c].addr])
    BY <1>1, <2>5 DEF IInv, Frame, WritesSettle, Calm
  <2>8. n \in 0..Len(controlOut)
    BY <1>0
  <2>9. Settles(controlOut', regs', f.req.addr, n, due'[c].val)
    BY <1>0, <1>1, <2>6, <2>7, <2>8, SettlesAppend
  <2>10. ReadsOwed'
    BY <1>1, <1>2, <2>2, <2>4, <2>5, <2>6, <2>9 DEF ReadsOwed, IsRead
  <2> QED
    BY <1>4, <1>5, <2>3, <2>10 DEF Owed
<1>8. CASE op[c].kind \notin ReadKinds
  <2>1. ReadsOwed'
    BY <1>1, <1>2, <1>6, <1>8 DEF ReadsOwed, IsRead
  <2>2. OneOutstanding'
    BY <1>1, <1>2, <1>8 DEF IInv, Owed, OneOutstanding, IsRead, IsAns
  <2> QED
    BY <1>4, <1>5, <2>1, <2>2 DEF Owed
<1> QED
  BY <1>7, <1>8

LEMMA RecvOwed ==
  ASSUME IInv, ControlChRecv
  PROVE  Owed'
<1> DEFINE f == Head(controlIn)
<1>0. /\ TypeOK /\ controlIn \in Seq(InFrames) /\ controlIn # << >>
      /\ controlIn' = Tail(controlIn)
      /\ UNCHANGED <<controlOut, regs, due, crossed, mixed>>
  BY DEF IInv, TypeOK, ControlChRecv, ghostVars
<1>1. /\ f = controlIn[1] /\ 1 \in 1..Len(controlIn)
      /\ Len(controlIn') = Len(controlIn) - 1
      /\ \A i \in 1..Len(controlIn') :
           i + 1 \in 1..Len(controlIn) /\ controlIn'[i] = controlIn[i + 1]
  BY <1>0
<1> SUFFICES ASSUME Calm' PROVE Owed'
  BY DEF Owed, FlagClear, ReadsOwed, AnswersOwed, OneOutstanding, SlotRight, Calm
<1>2. Calm
  BY <1>0 DEF Calm
<1>3. OneOutstanding'
  <2>1. \A i \in 1..Len(controlIn') : IsAns(i)' <=> IsAns(i + 1)
    BY <1>1 DEF IsAns
  <2>2. \A i \in 1..Len(controlOut') : IsRead(i)' <=> IsRead(i)
    BY <1>0 DEF IsRead
  <2>3. ASSUME NEW i \in 1..Len(controlIn'), NEW j \in 1..Len(controlIn'),
               IsAns(i)', IsAns(j)'
        PROVE  i = j
    <3>1. i + 1 = j + 1
      BY <1>1, <1>2, <2>1, <2>3 DEF IInv, Owed, OneOutstanding
    <3> QED
      BY <1>0, <3>1
  <2>4. ASSUME NEW i \in 1..Len(controlOut'), NEW j \in 1..Len(controlIn'),
               IsRead(i)', IsAns(j)'
        PROVE  FALSE
    BY <1>0, <1>1, <1>2, <2>1, <2>2, <2>4 DEF IInv, Owed, OneOutstanding
  <2>5. ASSUME NEW i \in 1..Len(controlOut'), NEW j \in 1..Len(controlOut'),
               IsRead(i)', IsRead(j)'
        PROVE  i = j
    BY <1>0, <1>2, <2>2, <2>5 DEF IInv, Owed, OneOutstanding
  <2> QED
    BY <2>3, <2>4, <2>5 DEF OneOutstanding
<1>4. CASE IsAnswer(f) /\ TakeAnswer(f)
  <2>1. IsAns(1)
    BY <1>1, <1>4 DEF IsAnswer, IsAns
  <2>2. PICK c \in Clients : pc[c] = "wait" /\ f = due[c]
    BY <1>1, <1>2, <2>1 DEF IInv, Owed, AnswersOwed
  <2>3. ccData' = f /\ ~event'
    BY <1>2, <1>4, <2>2 DEF TakeAnswer, EventSet, Waiting, IInv, Owed, FlagClear
  <2>4. \A d \in Clients : pc'[d] = IF pc[d] = "wait" THEN "woken" ELSE pc[d]
    BY <1>4 DEF TakeAnswer, EventSet, Waiting
  <2>5. \A d \in Clients : pc'[d] \in {"woken", "copy"} => d = c
    BY <1>2, <2>2, <2>4 DEF IInv, WaitersRead, SoleReader, Reading, Calm
  <2>6. SlotRight'
    BY <1>0, <2>2, <2>3, <2>5 DEF SlotRight, Returning
  <2>7. \A i \in 1..Len(controlOut) : ~IsRead(i)
    BY <1>1, <1>2, <2>1 DEF IInv, Owed, OneOutstanding
  <2>8. \A i \in 1..Len(controlIn') : controlIn'[i].type \notin {"reg", "block"}
    <3> SUFFICES ASSUME NEW i \in 1..Len(controlIn'), IsAns(i + 1) PROVE FALSE
      BY <1>1 DEF IsAns
    <3>1. i + 1 = 1
      BY <1>1, <1>2, <2>1 DEF IInv, Owed, OneOutstanding
    <3> QED
      BY <1>0, <3>1
  <2> QED
    BY <1>0, <1>3, <2>3, <2>6, <2>7, <2>8
    DEF Owed, FlagClear, ReadsOwed, AnswersOwed, IsRead, IsAns
<1>5. CASE f.type \in {"mngt", "noact"} /\ UNCHANGED <<pc, event, ccData>>
  <2>1. FlagClear' /\ SlotRight'
    BY <1>0, <1>2, <1>5 DEF IInv, Owed, FlagClear, SlotRight, Returning, Calm
  <2>2. ReadsOwed'
    BY <1>0, <1>2, <1>5 DEF IInv, Owed, ReadsOwed, IsRead
  <2>3. AnswersOwed'
    BY <1>0, <1>1, <1>2, <1>5 DEF IInv, Owed, AnswersOwed, IsAns
  <2> QED
    BY <1>3, <2>1, <2>2, <2>3 DEF Owed
<1> QED
  BY <1>4, <1>5 DEF ControlChRecv, TakeManagement, Discard

LEMMA ServeOwed ==
  ASSUME IInv, ModemServe
  PROVE  Owed'
<1> DEFINE f == Head(controlOut)
<1>0. /\ TypeOK /\ controlOut \in Seq(OutFrames) /\ controlIn \in Seq(InFrames)
      /\ controlOut # << >> /\ controlOut' = Tail(controlOut)
      /\ UNCHANGED <<pc, event, ccData, due, crossed, mixed>>
  BY DEF IInv, TypeOK, ModemServe, ghostVars
<1>1. /\ f = controlOut[1] /\ 1 \in 1..Len(controlOut)
      /\ f \in OutFrames /\ f.req \in Requests
      /\ Len(controlOut') = Len(controlOut) - 1
      /\ \A i \in 1..Len(controlOut') :
           i + 1 \in 1..Len(controlOut) /\ controlOut'[i] = controlOut[i + 1]
  BY <1>0, HeadWhole
<1> SUFFICES ASSUME Calm' PROVE Owed'
  BY DEF Owed, FlagClear, ReadsOwed, AnswersOwed, OneOutstanding, SlotRight, Calm
<1>2. Calm
  BY <1>0 DEF Calm
<1>3. FlagClear' /\ SlotRight'
  BY <1>0, <1>2 DEF IInv, Owed, FlagClear, SlotRight, Returning, Calm
<1>4. CASE ServeRead(f)
  <2>1. IsRead(1)
    BY <1>1, <1>4 DEF ServeRead, IsRead
  <2>2. PICK c \in Clients :
          /\ pc[c] = "wait" /\ due[c] \in Answers
          /\ due[c].type = AnswerType(f.req) /\ due[c].addr = f.req.addr
          /\ Settles(controlOut, regs, f.req.addr, 1 - 1, due[c].val)
    BY <1>1, <1>2, <2>1 DEF IInv, Owed, ReadsOwed
  <2>3. due[c].val = regs[f.req.addr]
    BY <2>2 DEF Settles
  <2>4. due[c] = Answer(f.req, regs)
    BY <2>2, <2>3 DEF Answer, Answers, InFrames
  <2>5. \A i \in 1..Len(controlOut') : controlOut'[i].req.kind \notin ReadKinds
    <3> SUFFICES ASSUME NEW i \in 1..Len(controlOut'), IsRead(i + 1) PROVE FALSE
      BY <1>1 DEF IsRead
    <3>1. i + 1 = 1
      BY <1>1, <1>2, <2>1 DEF IInv, Owed, OneOutstanding
    <3> QED
      BY <1>0, <3>1
  <2>6. \A i \in 1..Len(controlIn) : ~IsAns(i)
    BY <1>1, <1>2, <2>1 DEF IInv, Owed, OneOutstanding
  <2>7. /\ Len(controlIn') = Len(controlIn) + 1
        /\ controlIn'[Len(controlIn) + 1] = due[c]
        /\ \A i \in 1..Len(controlIn) : controlIn'[i] = controlIn[i]
    BY <1>0, <1>4, <2>4 DEF ServeRead
  <2>8. ReadsOwed'
    BY <2>5 DEF ReadsOwed, IsRead
  <2>9. ASSUME NEW i \in 1..Len(controlIn'), IsAns(i)'
         PROVE  i = Len(controlIn) + 1
    <3>1. i \in 1..Len(controlIn) => IsAns(i)
      BY <2>7, <2>9 DEF IsAns
    <3> QED
      BY <1>0, <2>6, <2>7, <3>1
  <2>10. AnswersOwed'
    BY <1>0, <2>2, <2>7, <2>9 DEF AnswersOwed
  <2>11. OneOutstanding'
    <3>1. \A i \in 1..Len(controlOut') : ~IsRead(i)'
      BY <2>5 DEF IsRead
    <3> QED
      BY <2>9, <3>1 DEF OneOutstanding
  <2> QED
    BY <1>3, <2>8, <2>10, <2>11 DEF Owed
<1>5. CASE ServeWrite(f) \/ ServeManagement(f)
  <2>1. /\ f.req.kind \notin ReadKinds /\ UNCHANGED controlIn
        /\ \A a \in Addrs : regs'[a] = IF IsWrite(f, a) THEN f.req.val ELSE regs[a]
    <3>1. f.whole
      BY <1>1, <1>2 DEF IInv, Frame, FramesWhole, Calm
    <3>2. CASE ServeWrite(f)
      <4>1. regs' = [regs EXCEPT ![f.req.addr] = f.req.val]
        BY <3>1, <3>2 DEF ServeWrite
      <4> QED
        BY <1>0, <3>2, <4>1 DEF IsWrite, TypeOK, ServeWrite, ReadKinds
    <3>3. CASE ServeManagement(f)
      BY <3>3 DEF IsWrite, ServeManagement, ReadKinds
    <3> QED
      BY <1>5, <3>2, <3>3
  <2>2. OneOutstanding'
    BY <1>0, <1>1, <1>2, <2>1 DEF IInv, Owed, OneOutstanding, IsRead, IsAns
  <2>3. AnswersOwed'
    BY <1>0, <1>2, <2>1 DEF IInv, Owed, AnswersOwed, IsAns
  <2>4. ASSUME NEW i \in 1..Len(controlOut'), IsRead(i + 1)
        PROVE  \E c \in Clients :
                 /\ pc[c] = "wait" /\ due[c] \in Answers
                 /\ due[c].type = AnswerType(controlOut'[i].req)
                 /\ due[c].addr = controlOut'[i].req.addr
                 /\ Settles(controlOut', regs', controlOut'[i].req.addr, i - 1, due[c].val)
    <3> DEFINE a == controlOut'[i].req.addr
    <3>1. i + 1 \in 1..Len(controlOut) /\ i \in 1..Len(controlOut)
            /\ controlOut'[i] = controlOut[i + 1]
      BY <1>0, <1>1
    <3>2. PICK c \in Clients :
            /\ pc[c] = "wait" /\ due[c] \in Answers
            /\ due[c].type = AnswerType(controlOut'[i].req)
            /\ due[c].addr = a
            /\ Settles(controlOut, regs, a, (i + 1) - 1, due[c].val)
      BY <1>2, <2>4, <3>1 DEF IInv, Owed, ReadsOwed
    <3>3. Settles(controlOut, regs, a, i, due[c].val)
      BY <3>2
    <3>4. a \in Addrs
      BY <3>2 DEF Answers, InFrames
    <3>5. regs'[a] = IF IsWrite(Head(controlOut), a)
                       THEN Head(controlOut).req.val ELSE regs[a]
      BY <2>1, <3>4
    <3>6. Settles(Tail(controlOut), regs', a, i - 1, due[c].val)
      BY ONLY <1>0, <3>1, <3>3, <3>5, SettlesServe
    <3> QED
      BY <1>0, <3>2, <3>6
  <2>5. ReadsOwed'
    BY <1>0, <1>1, <2>4 DEF ReadsOwed, IsRead
  <2> QED
    BY <1>3, <2>2, <2>3, <2>5 DEF Owed
<1> QED
  BY <1>4, <1>5 DEF ModemServe

LEMMA ModemSendOwed ==
  ASSUME IInv, ModemSend
  PROVE  Owed'
<1>1. /\ controlIn \in Seq(InFrames)
      /\ UNCHANGED <<pc, controlOut, regs, event, ccData, due, crossed, mixed>>
  BY DEF IInv, TypeOK, ModemSend, ghostVars
<1>2. PICK f \in InFrames : f.type \in {"mngt", "noact"} /\ controlIn' = Append(controlIn, f)
  BY DEF ModemSend
<1>3. /\ Len(controlIn') = Len(controlIn) + 1
      /\ controlIn'[Len(controlIn) + 1].type \notin {"reg", "block"}
      /\ \A i \in 1..Len(controlIn) : controlIn'[i] = controlIn[i]
  BY <1>1, <1>2
<1>4. Calm' <=> Calm
  BY <1>1 DEF Calm
<1>5. FlagClear' /\ SlotRight'
  BY <1>1, <1>4 DEF IInv, Owed, FlagClear, SlotRight, Returning, Calm
<1>6. ReadsOwed'
  BY <1>1, <1>4 DEF IInv, Owed, ReadsOwed, IsRead
<1>7. ASSUME NEW i \in 1..Len(controlIn'), IsAns(i)'
      PROVE  i \in 1..Len(controlIn) /\ IsAns(i) /\ controlIn'[i] = controlIn[i]
  <2>1. i # Len(controlIn) + 1
    BY <1>3, <1>7 DEF IsAns
  <2>2. i \in 1..Len(controlIn)
    BY <1>1, <1>3, <2>1
  <2> QED
    BY <1>3, <1>7, <2>2 DEF IsAns
<1>8. AnswersOwed'
  BY <1>1, <1>4, <1>7 DEF IInv, Owed, AnswersOwed
<1>9. OneOutstanding'
  <2>1. \A i \in 1..Len(controlOut') : IsRead(i)' <=> IsRead(i)
    BY <1>1 DEF IsRead
  <2> QED
    BY <1>1, <1>4, <1>7, <2>1 DEF IInv, Owed, OneOutstanding
<1> QED
  BY <1>5, <1>6, <1>8, <1>9 DEF Owed

LEMMA StepIInv == IInv /\ [Next]_vars => IInv'
<1> SUFFICES ASSUME IInv, [Next]_vars PROVE IInv'
  OBVIOUS
<1>0. TypeOK
  BY DEF IInv
<1>1. ASSUME NEW c \in Clients, Step(c) PROVE Owed'
  <2>1. CASE Build(c)
    <3>1. /\ pc[c] = "idle" /\ pc' = [pc EXCEPT ![c] = "send"]
          /\ UNCHANGED <<controlOut, controlIn, regs, ccData, event, due>>
      BY <2>1 DEF Build
    <3>2. Calm' => Calm
      BY <2>1 DEF Build, Calm
    <3> QED
      BY <1>0, <3>1, <3>2, KeepOwed DEF TypeOK
  <2>2. CASE Send(c)
    BY <2>2, SendOwed
  <2>3. CASE AwaitBuffer(c) \/ SendTimeout(c) \/ CopyAnswer(c)
    <3>1. /\ pc[c] \notin {"idle", "wait"}
          /\ pc' = [pc EXCEPT ![c] = "getbuffer"] \/ pc' = [pc EXCEPT ![c] = "idle"]
          /\ due' = due \/ due' = [due EXCEPT ![c] = NoAnswer]
          /\ UNCHANGED <<controlOut, controlIn, regs, ccData, event, crossed, mixed>>
      BY <2>3 DEF AwaitBuffer, SendTimeout, CopyAnswer, ghostVars
    <3>2. Calm' => Calm
      BY <3>1 DEF Calm
    <3>3. \A d \in Clients \ {c} : pc'[d] = pc[d] /\ due'[d] = due[d]
      BY <1>0, <3>1 DEF TypeOK
    <3>4. pc'[c] \in {"getbuffer", "idle"}
      BY <1>0, <3>1 DEF TypeOK
    <3> QED
      BY <3>1, <3>2, <3>3, <3>4, KeepOwed
  <2> QED
    BY <1>1, <2>1, <2>2, <2>3 DEF Step
<1>2. ASSUME ControlChBlock \/ UNCHANGED vars PROVE Owed'
  <2>1. UNCHANGED <<pc, controlOut, controlIn, regs, ccData, event, due, crossed, mixed>>
    BY <1>2 DEF ControlChBlock, vars, sysVars, ghostVars
  <2>2. Calm' => Calm
    BY <2>1 DEF Calm
  <2>3. /\ \A d \in Clients : pc[d] = "wait" => pc'[d] = "wait" /\ due'[d] = due[d]
        /\ \A d \in Clients : pc'[d] \in {"woken", "copy"} =>
                             pc[d] \in {"woken", "copy"} /\ due'[d] = due[d]
    BY <2>1
  <2>4. UNCHANGED <<controlOut, controlIn, regs, ccData, event>>
    BY <2>1
  <2> QED
    BY <2>2, <2>3, <2>4, KeepOwed
<1>3. Owed'
  BY <1>1, <1>2, RecvOwed, ServeOwed, ModemSendOwed DEF Next
<1> QED
  BY <1>3, StepTypeOK, StepFrame, StepReaders DEF IInv

LEMMA InitIInv == Init => IInv
<1> SUFFICES ASSUME Init PROVE IInv
  OBVIOUS
<1>1. Frame /\ WaitersRead /\ SoleReader
  BY DEF Init, Frame, FramesWhole, WritesSettle, Settles, WaitersRead, SoleReader, Reading
<1>2. Owed
  BY DEF Init, Owed, FlagClear, ReadsOwed, AnswersOwed, OneOutstanding, SlotRight,
         Returning, Calm
<1> QED
  BY <1>1, <1>2, InitTypeOK DEF IInv

(* As long as reads do not overlap and every client commits the frame it   *)
(* built, a reader past its wait finds the answer to its own request in    *)
(* CcCtx.Data_, and copies out the value it is due: of a register read all *)
(* of it, of the 512-byte dump the first 126 words and not the two that    *)
(* lie in CcCtx's own fields.                                              *)
THEOREM AnswerCorrect == Spec => []RightAnswer
<1>1. IInv => RightAnswer
  BY DEF IInv, Owed, SlotRight, Calm, RightAnswer, AnswerExact, CopiedOut, Payload
<1> QED
  BY <1>1, InitIInv, StepIInv, PTL DEF Spec

-----------------------------------------------------------------------------
(* One client alone.                                                       *)

Alone == \A c, d \in Clients : c = d

OwnBuffer == /\ ~crossed /\ ~mixed
             /\ \A c \in Clients : pc[c] \in {"send", "getbuffer"} => buffer = op[c]

LEMMA StepAlone == Alone /\ TypeOK /\ OwnBuffer /\ [Next]_vars => OwnBuffer'
<1> SUFFICES ASSUME Alone, TypeOK, OwnBuffer, [Next]_vars PROVE OwnBuffer'
  OBVIOUS
<1>1. ASSUME NEW c \in Clients, Step(c) PROVE OwnBuffer'
  <2>1. \A d \in Clients : d = c
    BY DEF Alone
  <2>2. CASE Build(c)
    <3>1. PICK r \in Ops[c] : op' = [op EXCEPT ![c] = r] /\ buffer' = r
      BY <2>2 DEF Build
    <3>2. ~crossed' /\ ~mixed'
      BY <2>1, <2>2 DEF Build, OwnBuffer
    <3> QED
      BY <2>1, <3>1, <3>2 DEF OwnBuffer, TypeOK
  <2>3. CASE Send(c)
    <3>1. pc'[c] \notin {"send", "getbuffer"} /\ ~mixed' /\ ~crossed'
      BY <2>3, SendEffect DEF OwnBuffer
    <3> QED
      BY <2>1, <3>1 DEF OwnBuffer
  <2>4. CASE AwaitBuffer(c)
    BY <2>1, <2>4 DEF OwnBuffer, AwaitBuffer, ghostVars
  <2>5. CASE SendTimeout(c) \/ CopyAnswer(c)
    <3>1. pc' = [pc EXCEPT ![c] = "idle"] /\ UNCHANGED <<crossed, mixed>>
      BY <2>5 DEF SendTimeout, CopyAnswer, ghostVars
    <3> QED
      BY <2>1, <3>1 DEF OwnBuffer, TypeOK
  <2> QED
    BY <1>1, <2>2, <2>3, <2>4, <2>5 DEF Step
<1>2. CASE ControlChRecv
  <2>1. /\ UNCHANGED <<op, buffer, crossed, mixed>>
        /\ pc' = pc \/ pc' = [d \in Clients |-> IF d \in Waiting THEN "woken" ELSE pc[d]]
    BY <1>2 DEF ControlChRecv, TakeAnswer, EventSet, TakeManagement, Discard, ghostVars
  <2> QED
    BY <2>1 DEF OwnBuffer, TypeOK
<1>3. CASE ControlChBlock \/ ModemServe \/ ModemSend \/ UNCHANGED vars
  <2>1. UNCHANGED <<pc, op, buffer, crossed, mixed>>
    BY <1>3 DEF ControlChBlock, ModemServe, ModemSend, vars, sysVars, ghostVars
  <2> QED
    BY <2>1 DEF OwnBuffer
<1> QED
  BY <1>1, <1>2, <1>3 DEF Next

(* With one client - the application thread from Zing_Init to USB_Connect  *)
(* - every register read returns the answer to that read, whatever         *)
(* interrupt events and management frames arrive in between; a dump, but   *)
(* for its last two words (AnswerExact).                                   *)
THEOREM AloneCorrect == Alone => (Spec => []AnswerExact)
<1> SUFFICES ASSUME Alone PROVE Spec => []AnswerExact
  OBVIOUS
<1>1. Init => OwnBuffer
  BY DEF Init, OwnBuffer
<1>2. TypeOK /\ OwnBuffer /\ [Next]_vars => OwnBuffer'
  BY StepAlone
<1>3. OwnBuffer /\ RightAnswer => AnswerExact
  BY DEF OwnBuffer, RightAnswer
<1> QED
  BY <1>1, <1>2, <1>3, TypeCorrect, AnswerCorrect, PTL DEF Spec

-----------------------------------------------------------------------------
(* Refinement: to its callers the control channel is a register file.      *)

\* A client is owed an answer exactly while it waits or returns.
DueWhileReading ==
  \A c \in Clients : IF pc[c] \in {"wait", "woken", "copy"}
                       THEN due[c] \in Answers ELSE due[c] = NoAnswer

LEMMA AnswerVal ==
  /\ \A f \in Answers : f.val \in Vals /\ f.val # NoVal
  /\ NoAnswer.val = NoVal
BY DEF Answers, InFrames, NoAnswer

LEMMA StepDue == TypeOK /\ DueWhileReading /\ [Next]_vars => DueWhileReading'
<1> SUFFICES ASSUME TypeOK, DueWhileReading, [Next]_vars PROVE DueWhileReading'
  OBVIOUS
<1>1. ASSUME NEW c \in Clients, Step(c) PROVE DueWhileReading'
  <2>1. CASE Build(c) \/ AwaitBuffer(c) \/ SendTimeout(c)
    <3>1. /\ UNCHANGED due
          /\ pc[c] \in {"idle", "send", "getbuffer"}
          /\ \E s \in {"idle", "send", "getbuffer"} : pc' = [pc EXCEPT ![c] = s]
      BY <2>1 DEF Build, AwaitBuffer, SendTimeout, ghostVars
    <3> QED
      BY <3>1 DEF DueWhileReading, TypeOK
  <2>2. CASE Send(c) /\ op[c].kind \in ReadKinds
    <3>1. Answer(op[c], written) \in Answers
      BY <2>2, AnswerTyped, RequestFields DEF TypeOK, Send
    <3>2. /\ due' = [due EXCEPT ![c] = Answer(op[c], written)]
          /\ \E s \in {"wait", "copy"} : pc' = [pc EXCEPT ![c] = s]
      BY <2>2 DEF Send
    <3> QED
      BY <3>1, <3>2 DEF DueWhileReading, TypeOK
  <2>3. CASE Send(c) /\ op[c].kind \notin ReadKinds
    <3>1. /\ UNCHANGED due /\ pc[c] \in {"send", "getbuffer"}
          /\ pc' = [pc EXCEPT ![c] = "idle"]
      BY <2>3 DEF Send
    <3> QED
      BY <3>1 DEF DueWhileReading, TypeOK
  <2>4. CASE CopyAnswer(c)
    BY <2>4 DEF CopyAnswer, DueWhileReading, TypeOK
  <2> QED
    BY <1>1, <2>1, <2>2, <2>3, <2>4 DEF Step
<1>2. CASE ControlChRecv
  <2>1. /\ UNCHANGED due
        /\ pc' = pc \/ pc' = [d \in Clients |-> IF d \in Waiting THEN "woken" ELSE pc[d]]
    BY <1>2 DEF ControlChRecv, TakeAnswer, EventSet, TakeManagement, Discard, ghostVars
  <2> QED
    BY <2>1 DEF DueWhileReading, Waiting, TypeOK
<1>3. CASE ControlChBlock \/ ModemServe \/ ModemSend \/ UNCHANGED vars
  <2>1. UNCHANGED <<pc, due>>
    BY <1>3 DEF ControlChBlock, ModemServe, ModemSend, vars, sysVars, ghostVars
  <2> QED
    BY <2>1 DEF DueWhileReading
<1> QED
  BY <1>1, <1>2, <1>3 DEF Next

\* What FileSpec takes for the value client c will be returned.
OwedVal(c) == IF c \in Returning THEN ccData.val ELSE due[c].val

\* While the promise holds, what a read will return is what it is due.
LEMMA OwedIsDue == SlotRight /\ Calm => \A c \in Clients : OwedVal(c) = due[c].val
BY DEF SlotRight, Calm, OwedVal

LEMMA FileInit == Init => File!Init
<1> SUFFICES ASSUME Init PROVE File!Init
  OBVIOUS
<1>1. [c \in Clients |-> OwedVal(c)] = [c \in Clients |-> NoVal]
  BY AnswerVal DEF Init, OwedVal, Returning
<1> QED
  BY <1>1 DEF Init, File!Init, OwedVal

\* An access as the register file sees it, while the promise holds.
LEMMA CalmStep ==
  ASSUME TypeOK, DueWhileReading, [Next]_vars, ~crossed', ~mixed'
  PROVE  \/ UNCHANGED <<written, due>>
         \/ \E c \in Clients, a \in Addrs : /\ due[c].val = NoVal
                                            /\ \E f \in Answers :
                                                 /\ f.val = written[a]
                                                 /\ due' = [due EXCEPT ![c] = f]
                                            /\ UNCHANGED written
         \/ \E c \in Clients, a \in Addrs, v \in Vals :
              written' = [written EXCEPT ![a] = v] /\ UNCHANGED due
         \/ \E c \in Clients : /\ due[c].val # NoVal
                              /\ due' = [due EXCEPT ![c] = NoAnswer]
                              /\ UNCHANGED written
<1>1. ASSUME NEW c \in Clients, Send(c), op[c].kind \in ReadKinds
      PROVE  /\ due[c].val = NoVal
             /\ Answer(op[c], written) \in Answers
             /\ op[c].addr \in Addrs
             /\ Answer(op[c], written).val = written[op[c].addr]
             /\ due' = [due EXCEPT ![c] = Answer(op[c], written)]
             /\ UNCHANGED written
  <2>1. op[c] \in Requests /\ pc[c] \in {"send", "getbuffer"}
    BY <1>1 DEF Send, TypeOK
  <2> QED
    BY <1>1, <2>1, AnswerTyped, RequestFields, AnswerVal
       DEF Send, TypeOK, DueWhileReading, Answer
<1>2. ASSUME NEW c \in Clients, Send(c), op[c].kind \notin ReadKinds
      PROVE  /\ UNCHANGED due
             /\ \/ UNCHANGED written
                \/ /\ op[c].addr \in Addrs /\ op[c].val \in Vals
                   /\ written' = [written EXCEPT ![op[c].addr] = op[c].val]
  <2>1. op[c] \in Requests
    BY <1>2 DEF Send, TypeOK
  <2> QED
    BY <1>2, <2>1, RequestFields DEF Send
<1>3. ASSUME NEW c \in Clients, CopyAnswer(c)
      PROVE  /\ due[c].val # NoVal
             /\ due' = [due EXCEPT ![c] = NoAnswer]
             /\ UNCHANGED written
  BY <1>3, AnswerVal DEF CopyAnswer, DueWhileReading
<1>4. ASSUME NEW c \in Clients, Build(c) \/ AwaitBuffer(c) \/ SendTimeout(c)
      PROVE  UNCHANGED <<written, due>>
  BY <1>4 DEF Build, AwaitBuffer, SendTimeout, ghostVars
<1>5. CASE ControlChRecv \/ ControlChBlock \/ ModemServe \/ ModemSend \/ UNCHANGED vars
  BY <1>5 DEF ControlChRecv, ControlChBlock, ModemServe, ModemSend, vars, ghostVars
<1>6. ASSUME NEW c \in Clients, Step(c) PROVE  Send(c) \/ CopyAnswer(c) \/ (Build(c) \/ AwaitBuffer(c) \/ SendTimeout(c))
  BY <1>6 DEF Step
<1> QED
  BY <1>1, <1>2, <1>3, <1>4, <1>5, <1>6 DEF Next

LEMMA FileStep ==
  IInv /\ IInv' /\ DueWhileReading /\ [Next]_vars => [File!Next]_(File!fileVars)
<1> SUFFICES ASSUME IInv, IInv', DueWhileReading, [Next]_vars
             PROVE  File!Next \/ UNCHANGED File!fileVars
  OBVIOUS
<1>1. TypeOK /\ TypeOK' /\ SlotRight /\ SlotRight'
  BY DEF IInv, Owed
<1>2. CASE crossed' \/ mixed'
  <2>1. written' \in [Addrs -> Vals]
    BY <1>1 DEF TypeOK
  <2>2. \A c \in Clients : OwedVal(c)' \in Vals \cup {NoVal}
    BY <1>1, AnswerVal DEF TypeOK, OwedVal, Returning
  <2> QED
    BY <1>2, <2>1, <2>2 DEF File!Next, File!Disturb, OwedVal
<1>3. CASE ~crossed' /\ ~mixed'
  <2>1. ~crossed /\ ~mixed
    BY <1>1, <1>3 DEF Next, Step, Build, Send, AwaitBuffer, SendTimeout, CopyAnswer,
       ControlChRecv, ControlChBlock, ModemServe, ModemSend, vars, ghostVars, TypeOK
  <2>2. \A c \in Clients : OwedVal(c) = due[c].val
    BY <1>1, <2>1, OwedIsDue DEF Calm
  <2>3. \A c \in Clients : OwedVal(c)' = due'[c].val
    BY <1>1, <1>3 DEF SlotRight, Calm, OwedVal
  <2>4. (crossed \/ mixed)' = (crossed \/ mixed)
    BY <1>3, <2>1
  <2>5. CASE UNCHANGED <<written, due>>
    <3>1. [c \in Clients |-> OwedVal(c)'] = [c \in Clients |-> OwedVal(c)]
      BY <2>2, <2>3, <2>5
    <3> QED
      BY <2>4, <2>5, <3>1 DEF File!fileVars, OwedVal
  <2>6. ASSUME NEW c \in Clients, NEW a \in Addrs, NEW f \in Answers,
               due[c].val = NoVal, f.val = written[a],
               due' = [due EXCEPT ![c] = f], UNCHANGED written
        PROVE  File!BeginRead(c, a)
    <3>1. OwedVal(c) = NoVal
      BY <2>2, <2>6
    <3>2. \A d \in Clients : OwedVal(d)' = IF d = c THEN written[a] ELSE OwedVal(d)
      BY <1>1, <2>2, <2>3, <2>6 DEF TypeOK
    <3> QED
      BY <2>4, <2>6, <3>1, <3>2 DEF File!BeginRead, OwedVal
  <2>7. ASSUME NEW c \in Clients, NEW a \in Addrs, NEW v \in Vals,
               written' = [written EXCEPT ![a] = v], UNCHANGED due
        PROVE  File!Write(c, a, v)
    BY <2>2, <2>3, <2>4, <2>7 DEF File!Write, OwedVal
  <2>8. ASSUME NEW c \in Clients, due[c].val # NoVal,
               due' = [due EXCEPT ![c] = NoAnswer], UNCHANGED written
        PROVE  File!EndRead(c)
    <3>1. OwedVal(c) # NoVal
      BY <2>2, <2>8
    <3>2. \A d \in Clients : OwedVal(d)' = IF d = c THEN NoVal ELSE OwedVal(d)
      BY <1>1, <2>2, <2>3, <2>8, AnswerVal DEF TypeOK
    <3> QED
      BY <2>4, <2>8, <3>1, <3>2 DEF File!EndRead, OwedVal
  <2> QED
    BY <1>1, <1>3, <2>5, <2>6, <2>7, <2>8, CalmStep DEF File!Next
<1> QED
  BY <1>2, <1>3

(* The clients of the control channel share a register file, for as long   *)
(* as no two reads overlap and no client commits another's frame: a write  *)
(* takes effect when it is committed, a read returns what its register     *)
(* held when it was committed (a dump, in its first 126 words).            *)
THEOREM ImplementsFile == Spec => FileSpec
<1>1. Init => DueWhileReading
  BY DEF Init, DueWhileReading
<1>2. IInv => TypeOK
  BY DEF IInv
<1> QED
  BY <1>1, <1>2, InitIInv, StepIInv, StepDue, FileInit, FileStep, PTL
     DEF Spec, FileSpec, File!Spec
-----------------------------------------------------------------------------
(* The one frame buffer.                                                   *)

CallbackFrames == UNION {Ops[d] : d \in Callbacks}

\* The frame of a client on its way to the send is still its own, but for the
\* thread that a driver callback has interrupted.
StillOwn ==
  \A c \in Clients : pc[c] = "send" =>
    buffer = op[c] \/ (c \in Threads /\ buffer \in CallbackFrames)

LEMMA BuildStillOwn ==
  ASSUME TypeOK, StillOwn, NEW c \in Clients, Build(c)
  PROVE  StillOwn'
<1> SUFFICES ASSUME NEW d \in Clients, pc'[d] = "send"
             PROVE  buffer' = op'[d] \/ (d \in Threads /\ buffer' \in CallbackFrames)
  BY DEF StillOwn
<1>1. PICK r \in Ops[c] : op' = [op EXCEPT ![c] = r] /\ buffer' = r
  BY DEF Build
<1>2. CASE d = c
  BY <1>1, <1>2 DEF TypeOK
<1>3. CASE d # c
  <2>1. Running(d)
    BY <1>3 DEF Build, Running, TypeOK
  <2>2. MayRun(c)
    BY DEF Build
  <2>3. d \in Threads /\ c \in Callbacks
    BY <1>3, <2>1, <2>2 DEF MayRun
  <2> QED
    BY <1>1, <2>3 DEF CallbackFrames
<1> QED
  BY <1>2, <1>3

LEMMA StepStillOwn == TypeOK /\ StillOwn /\ [Next]_vars => StillOwn'
<1> SUFFICES ASSUME TypeOK, StillOwn, [Next]_vars PROVE StillOwn'
  OBVIOUS
<1>1. ASSUME NEW c \in Clients, Step(c) PROVE StillOwn'
  <2>1. CASE Build(c)
    BY <2>1, BuildStillOwn
  <2>2. CASE Send(c)
    <3>1. /\ \A d \in Clients \ {c} : pc'[d] = pc[d] /\ op'[d] = op[d]
          /\ pc'[c] # "send" /\ UNCHANGED buffer
      <4>1. UNCHANGED buffer
        BY <2>2 DEF Send
      <4> QED
        BY <2>2, <4>1, SendEffect
    <3> QED
      BY <3>1 DEF StillOwn
  <2>3. CASE AwaitBuffer(c) \/ SendTimeout(c) \/ CopyAnswer(c)
    BY <2>3 DEF StillOwn, AwaitBuffer, SendTimeout, CopyAnswer, TypeOK
  <2> QED
    BY <1>1, <2>1, <2>2, <2>3 DEF Step
<1>2. CASE ControlChRecv
  <2>1. /\ UNCHANGED <<op, buffer>>
        /\ pc' = pc \/ pc' = [d \in Clients |-> IF d \in Waiting THEN "woken" ELSE pc[d]]
    BY <1>2 DEF ControlChRecv, TakeAnswer, EventSet, TakeManagement, Discard
  <2> QED
    BY <2>1 DEF StillOwn, TypeOK
<1>3. CASE ControlChBlock \/ ModemServe \/ ModemSend \/ UNCHANGED vars
  <2>1. UNCHANGED <<pc, op, buffer>>
    BY <1>3 DEF ControlChBlock, ModemServe, ModemSend, vars, sysVars
  <2> QED
    BY <2>1 DEF StillOwn
<1> QED
  BY <1>1, <1>2, <1>3 DEF Next

(* Between the threads the frame buffer is safe without a lock: a frame    *)
(* that its committer did not build takes a wait for a DMA buffer, or a    *)
(* driver callback between a thread's building of its frame and the send.  *)
THEOREM FrameBuffer == Spec => MixedOnlyBy
<1>1. Init => StillOwn
  BY DEF Init, StillOwn
<1>2. ASSUME TypeOK, StillOwn, [Next]_vars, ~mixed, mixed'
      PROVE  \E c \in Clients :
               /\ pc'[c] # pc[c]
               /\ \/ pc[c] = "getbuffer"
                  \/ c \in Threads /\ buffer \in UNION {Ops[d] : d \in Callbacks}
  <2>1. PICK c \in Clients : Send(c)
    BY <1>2 DEF Next, Step, Build, AwaitBuffer, SendTimeout, CopyAnswer,
       ControlChRecv, ControlChBlock, ModemServe, ModemSend, vars, ghostVars
  <2>2. buffer # op[c] /\ pc[c] \in {"send", "getbuffer"} /\ pc'[c] # pc[c]
    BY <1>2, <2>1, SendEffect
  <2> QED
    BY <1>2, <2>2 DEF StillOwn, CallbackFrames
<1>3. TypeOK /\ StillOwn /\ [Next]_vars =>
        [~mixed /\ mixed' =>
           \E c \in Clients :
             /\ pc'[c] # pc[c]
             /\ \/ pc[c] = "getbuffer"
                \/ c \in Threads /\ buffer \in UNION {Ops[d] : d \in Callbacks}]_vars
  BY <1>2
<1> QED
  BY <1>1, <1>3, StepStillOwn, TypeCorrect, PTL DEF Spec, MixedOnlyBy
=============================================================================
