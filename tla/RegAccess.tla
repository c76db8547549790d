----------------------------- MODULE RegAccess -----------------------------
(***************************************************************************)
(* Register access over the Zing control channel.                          *)
(*                                                                         *)
(* The FX3 reaches the registers of the Zing modem through two DMA         *)
(* channels.  A client (the application thread, the EP0 command thread, a  *)
(* driver callback) builds a request frame in the ONE static buffer        *)
(* Dma.ControlOut_.Buffer_, takes a DMA buffer of ControlOut, copies the   *)
(* frame into it and commits it.  A register read then sleeps on the ONE   *)
(* event flag EVT_CTLCH0 until the control channel thread, which drains    *)
(* ControlIn, has put a register response into the ONE slot CcCtx.Data_.   *)
(*                                                                         *)
(* Threads run at one priority without time slices, so a thread keeps the  *)
(* processor until it blocks; a driver callback interrupts any thread.  An *)
(* action is the code between two points where another party can run.      *)
(* The module describes the mode the firmware works in after boot,         *)
(* Dma.Mode_ = DMA_SYNC.                                                   *)
(***************************************************************************)
EXTENDS Naturals, Sequences

CONSTANTS
  Threads,        \* clients that are cooperative threads (application, EP0)
  Callbacks,      \* clients that run in a driver callback (uartIntrCb)
  Ops,            \* Ops[c]: the requests client c issues
  Addrs,          \* register addresses
  Vals,           \* register values and management payloads
  NoAddr, NoVal,  \* a frame that carries no address, no payload
  CtlOutCount,    \* DMA buffers of the ControlOut channel (8 in dma.c)
  CtlInCount,     \* DMA buffers of the ControlIn channel (8 in dma.c)
  MaxUnsolicited  \* bound: frames the modem sends on its own account

Clients == Threads \cup Callbacks

\* The two kinds that wait for a register response: Zing_RegRead of one
\* register, and Zing_RegRead(0x8000, regBuf, 512) of the whole block.
ReadKinds == {"read", "dump"}

ASSUME DataAssumption ==
  /\ Addrs # {} /\ Vals # {}
  /\ NoAddr \notin Addrs /\ NoVal \notin Vals

ASSUME BoundAssumption ==
  /\ CtlOutCount \in Nat \ {0}
  /\ CtlInCount \in Nat \ {0}
  /\ MaxUnsolicited \in Nat

-----------------------------------------------------------------------------
(* A request as its caller means it: a Zing header and, for a write or a   *)
(* management frame, four bytes of payload.                                *)
Requests ==
  [kind : ReadKinds, addr : Addrs, val : {NoVal}]
    \cup [kind : {"write"}, addr : Addrs, val : Vals]
    \cup [kind : {"mngt"}, addr : {NoAddr}, val : Vals]

\* No driver callback reads: it would sleep in its driver's thread.
ASSUME ClientAssumption ==
  /\ Threads \cap Callbacks = {}
  /\ Ops \in [Clients -> SUBSET Requests]
  /\ \A c \in Callbacks : \A r \in Ops[c] : r.kind \notin ReadKinds

NoRequest == [kind |-> "none", addr |-> NoAddr, val |-> NoVal]

(* A committed DMA buffer: the copied frame, and whether the byte count    *)
(* covers the payload its header announces.                                *)
OutFrames == [req : Requests, whole : BOOLEAN]

(* What the modem sends: an answer to a register read (`reg`, or `block`   *)
(* for the 512-byte read), a four-byte management frame, and the frames    *)
(* the control channel thread takes no action on (interrupt events, other  *)
(* management frames).                                                     *)
InFrames ==
  [type : {"reg", "block"}, addr : Addrs, val : Vals]
    \cup [type : {"mngt"}, addr : {NoAddr}, val : Vals]
    \cup [type : {"noact"}, addr : {NoAddr}, val : {NoVal}]

\* The frames that answer a read; a `block` is 520 bytes long, a `reg` 12.
Answers == {f \in InFrames : f.type \in {"reg", "block"}}
NoAnswer == [type |-> "none", addr |-> NoAddr, val |-> NoVal]

\* The answer to read request r when the registers hold m.
AnswerType(r) == IF r.kind = "dump" THEN "block" ELSE "reg"
Answer(r, m) == [type |-> AnswerType(r), addr |-> r.addr, val |-> m[r.addr]]

\* A word read from registers that hold v, and the payload of an answer as
\* CcCtx tells its words apart: of a `block` the first 126, then one, then one.
RegWord(v) == [reg |-> v]
RegWords == [reg : Vals]
Payload(f) ==
  [i \in 1..(IF f.type = "block" THEN 3 ELSE 1) |-> RegWord(f.val)]

VARIABLES
  pc,          \* where each client is
  op,          \* the operation each client is performing
  buffer,      \* Dma.ControlOut_.Buffer_, shared by every client
  controlOut,  \* committed buffers of ControlOut, oldest first
  controlIn,   \* produced buffers of ControlIn, oldest first
  regs,        \* the registers of the modem
  event,       \* the EVT_CTLCH0 flag of CcCtx.Event_
  ccData,      \* the answer in CcCtx.Data_, as far as its 512 bytes go
  mngtData,    \* CcCtx.MngtData_
  ccRunning,   \* the control channel thread holds the processor
  unsolicited  \* frames the modem has sent on its own account

(* History variables: no action reads them.                                *)
VARIABLES
  written,     \* the last value committed for each register
  due,         \* the answer a reader is owed since it committed its read
  crossed,     \* two reads have been in progress at once
  mixed        \* a client has committed a frame it did not build

sysVars == <<pc, op, buffer, controlOut, controlIn, regs, event, ccData,
             mngtData, ccRunning, unsolicited>>
ghostVars == <<written, due, crossed, mixed>>
vars == <<sysVars, ghostVars>>

-----------------------------------------------------------------------------
(* Scheduling.  A client holds the processor between building its frame    *)
(* and blocking, and after an event it did not have to wait for.           *)
Running(c) == pc[c] \in {"send", "copy"}

\* A mistake: the threads are created with a time slice.
MayRunSliced(c) ==
  /\ \A d \in Callbacks \ {c} : ~Running(d)
  /\ c \in Threads => ~ccRunning

MayRun(c) ==
  /\ \A d \in Callbacks \ {c} : ~Running(d)
  /\ c \in Threads => /\ \A d \in Threads \ {c} : ~Running(d)
                      /\ ~ccRunning

MayRunControlCh == \A d \in Clients : ~Running(d)

\* A mistake: the last free buffer is handed out twice.
OutFullLate == Len(controlOut) > CtlOutCount

OutFull == Len(controlOut) = CtlOutCount
InFull  == Len(controlIn) = CtlInCount

Init ==
  /\ pc = [c \in Clients |-> "idle"]
  /\ op = [c \in Clients |-> NoRequest]
  /\ buffer = NoRequest
  /\ controlOut = << >>
  /\ controlIn = << >>
  /\ regs \in [Addrs -> Vals]
  /\ event = FALSE
  /\ ccData = NoAnswer
  /\ mngtData = NoVal
  /\ ccRunning = FALSE
  /\ unsolicited = 0
  /\ written = regs
  /\ due = [c \in Clients |-> NoAnswer]
  /\ crossed = FALSE
  /\ mixed = FALSE

\* c is inside Zing_RegRead.
Reading(c) == pc[c] # "idle" /\ op[c].kind \in ReadKinds

(* Zing_RegRead, Zing_RegWrite, Zing_Management_Send up to the send: the   *)
(* header and payload are written into the shared buffer.                  *)
Build(c) ==
  /\ pc[c] = "idle"
  /\ MayRun(c)
  /\ \E r \in Ops[c] :
       /\ op' = [op EXCEPT ![c] = r]
       /\ buffer' = r
       /\ crossed' = (crossed \/ /\ r.kind \in ReadKinds
                                 /\ \E d \in Clients \ {c} : Reading(d))
  /\ pc' = [pc EXCEPT ![c] = "send"]
  /\ UNCHANGED <<controlOut, controlIn, regs, event, ccData, mngtData,
                 ccRunning, unsolicited, written, due, mixed>>

(* What Zing_Transfer_Send copies: the buffer as it is NOW, and as many    *)
(* bytes as the CALLER's frame has.                                        *)
\* A mistake: Zing_RegWrite passes ZING_HDR_SIZE, the length of its header only.
CopiedHeaderOnly(c) == [req |-> buffer, whole |-> op[c].kind \in ReadKinds]

Copied(c) ==
  [req   |-> buffer,
   whole |-> op[c].kind \in ReadKinds => buffer.kind \in ReadKinds]

(* Zing_Transfer_Send with a free DMA buffer: copy, commit, and for a read *)
(* CyU3PEventGet(EVT_CTLCH0, OR_CLEAR), which returns at once if the flag  *)
(* is set.                                                                 *)
Send(c) ==
  /\ pc[c] \in {"send", "getbuffer"}
  /\ MayRun(c)
  /\ ~OutFull
  /\ controlOut' = Append(controlOut, Copied(c))
  /\ mixed' = (mixed \/ buffer # op[c])
  /\ IF op[c].kind \in ReadKinds
       THEN /\ pc' = [pc EXCEPT ![c] = IF event THEN "copy" ELSE "wait"]
            /\ event' = FALSE
            /\ due' = [due EXCEPT ![c] = Answer(op[c], written)]
            /\ UNCHANGED <<op, written>>
       ELSE /\ pc' = [pc EXCEPT ![c] = "idle"]
            /\ op' = [op EXCEPT ![c] = NoRequest]
            /\ written' = IF op[c].kind = "write"
                            THEN [written EXCEPT ![op[c].addr] = op[c].val]
                            ELSE written
            /\ UNCHANGED <<event, due>>
  /\ UNCHANGED <<buffer, controlIn, regs, ccData, mngtData, ccRunning,
                 unsolicited, crossed>>

(* Every DMA buffer is taken: CyU3PDmaChannelGetBuffer suspends.           *)
AwaitBuffer(c) ==
  /\ pc[c] = "send"
  /\ MayRun(c)
  /\ OutFull
  /\ pc' = [pc EXCEPT ![c] = "getbuffer"]
  /\ UNCHANGED <<op, buffer, controlOut, controlIn, regs, event, ccData,
                 mngtData, ccRunning, unsolicited, ghostVars>>

(* ZING_HW_TIMEOUT passed without a free buffer: the access returns an     *)
(* error, nothing was committed.                                           *)
\* A mistake: Zing_RegRead goes on to CyU3PEventGet after a failed send.
SendTimeoutIgnored(c) ==
  /\ pc[c] = "getbuffer"
  /\ MayRun(c)
  /\ OutFull
  /\ pc' = [pc EXCEPT ![c] = IF op[c].kind \in ReadKinds THEN "wait" ELSE "idle"]
  /\ UNCHANGED <<op, buffer, controlOut, controlIn, regs, event, ccData,
                 mngtData, ccRunning, unsolicited, ghostVars>>

SendTimeout(c) ==
  /\ pc[c] = "getbuffer"
  /\ MayRun(c)
  /\ OutFull
  /\ pc' = [pc EXCEPT ![c] = "idle"]
  /\ op' = [op EXCEPT ![c] = NoRequest]
  /\ UNCHANGED <<buffer, controlOut, controlIn, regs, event, ccData, mngtData,
                 ccRunning, unsolicited, ghostVars>>

(* CcCtx.Data_idx_ has the length of the answer in the slot.               *)
DataIdx == [len |-> IF ccData.type = "block" THEN 520 ELSE 12]

(* What Zing_RegRead copies to its caller: Data_idx_ - 8 bytes from        *)
(* Data_ + 8 on.  Of a block 504 bytes are in Data_; then come Data_idx_   *)
(* itself and MngtData_, which a management frame may have replaced.       *)
CopiedOut ==
  IF ccData.type = "block" THEN <<RegWord(ccData.val), DataIdx, mngtData>>
  ELSE <<RegWord(ccData.val)>>

(* The end of Zing_RegRead: the caller has CopiedOut as it is NOW.         *)
CopyAnswer(c) ==
  /\ pc[c] \in {"woken", "copy"}
  /\ MayRun(c)
  /\ pc' = [pc EXCEPT ![c] = "idle"]
  /\ op' = [op EXCEPT ![c] = NoRequest]
  /\ due' = [due EXCEPT ![c] = NoAnswer]
  /\ UNCHANGED <<buffer, controlOut, controlIn, regs, event, ccData, mngtData,
                 ccRunning, unsolicited, written, crossed, mixed>>

-----------------------------------------------------------------------------
(* The control channel thread.  CyU3PEventSet resumes every client that    *)
(* sleeps on the flag; with none asleep the flag stays set.                *)
Waiting == {c \in Clients : pc[c] = "wait"}

\* A mistake: the flag stays set although it has resumed a client.
EventSetSticky ==
  /\ pc' = [c \in Clients |-> IF c \in Waiting THEN "woken" ELSE pc[c]]
  /\ event' = TRUE

EventSet ==
  /\ pc' = [c \in Clients |-> IF c \in Waiting THEN "woken" ELSE pc[c]]
  /\ event' = (event \/ Waiting = {})

(* The tests of the thread are tried in this order: interrupt event,       *)
(* register response, management frame.                                    *)
\* A mistake: the register test comes first and takes interrupt events too.
IsAnswerFirst(f) == f.type \in {"reg", "block", "noact"}

IsAnswer(f) == f.type \in {"reg", "block"}

(* The answer is copied into CcCtx.Data_ and its reader is woken.  The     *)
(* answer to the 512-byte read is 520 bytes, the slot is 512: its last two *)
(* words land in Data_idx_, which is then set (DataIdx), and in MngtData_. *)
TakeAnswer(f) ==
  /\ ccData' = f
  /\ mngtData' = IF f.type = "block" THEN RegWord(f.val) ELSE mngtData
  /\ EventSet

TakeManagement(f) ==
  /\ mngtData' = f.val
  /\ UNCHANGED <<pc, event, ccData>>

Discard(f) == UNCHANGED <<pc, event, ccData, mngtData>>

(* One turn of ControlChThread: receive a frame and act on it.             *)
ControlChRecv ==
  /\ controlIn # << >>
  /\ MayRunControlCh
  /\ LET f == Head(controlIn) IN
       \/ IsAnswer(f) /\ TakeAnswer(f)
       \/ f.type = "mngt" /\ TakeManagement(f)
       \/ f.type = "noact" /\ Discard(f)
  /\ controlIn' = Tail(controlIn)
  /\ ccRunning' = TRUE
  /\ UNCHANGED <<op, buffer, controlOut, regs, unsolicited, ghostVars>>

(* Nothing more to receive: the thread suspends in CyU3PDmaChannelGetBuffer *)
(* with CYU3P_WAIT_FOREVER.                                                *)
ControlChBlock ==
  /\ ccRunning
  /\ controlIn = << >>
  /\ MayRunControlCh
  /\ ccRunning' = FALSE
  /\ UNCHANGED <<pc, op, buffer, controlOut, controlIn, regs, event, ccData,
                 mngtData, unsolicited, ghostVars>>

-----------------------------------------------------------------------------
(* The modem (outside the repository, as the code uses it): it takes the   *)
(* committed frames in order, answers a read, performs a write silently    *)
(* and passes a management frame to the radio.  A write header without its *)
(* payload leaves any value in the register.                               *)
ServeRead(f) ==
  /\ f.req.kind \in ReadKinds
  /\ ~InFull
  /\ controlIn' = Append(controlIn, Answer(f.req, regs))
  /\ UNCHANGED regs

ServeWrite(f) ==
  /\ f.req.kind = "write"
  /\ \E v \in IF f.whole THEN {f.req.val} ELSE Vals :
       regs' = [regs EXCEPT ![f.req.addr] = v]
  /\ UNCHANGED controlIn

ServeManagement(f) ==
  /\ f.req.kind = "mngt"
  /\ UNCHANGED <<regs, controlIn>>

ModemServe ==
  /\ controlOut # << >>
  /\ LET f == Head(controlOut) IN
       ServeRead(f) \/ ServeWrite(f) \/ ServeManagement(f)
  /\ controlOut' = Tail(controlOut)
  /\ UNCHANGED <<pc, op, buffer, event, ccData, mngtData, ccRunning,
                 unsolicited, ghostVars>>

ModemSend ==
  /\ unsolicited < MaxUnsolicited
  /\ ~InFull
  /\ \E f \in InFrames :
       /\ f.type \in {"mngt", "noact"}
       /\ controlIn' = Append(controlIn, f)
  /\ unsolicited' = unsolicited + 1
  /\ UNCHANGED <<pc, op, buffer, controlOut, regs, event, ccData, mngtData,
                 ccRunning, ghostVars>>

-----------------------------------------------------------------------------
Step(c) == Build(c) \/ Send(c) \/ AwaitBuffer(c) \/ SendTimeout(c)
             \/ CopyAnswer(c)

Next ==
  \/ \E c \in Clients : Step(c)
  \/ ControlChRecv
  \/ ControlChBlock
  \/ ModemServe
  \/ ModemSend

Spec == Init /\ [][Next]_vars

(* The modem keeps serving; the ready list of the RTOS is FIFO within a    *)
(* priority, so a thread that is ready again and again runs.  Nobody is    *)
(* obliged to start an access, nor a timeout to expire.                    *)
Fairness ==
  /\ WF_vars(ModemServe)
  /\ SF_vars(ControlChRecv)
  /\ SF_vars(ControlChBlock)
  /\ \A c \in Clients : /\ SF_vars(Send(c))
                        /\ SF_vars(AwaitBuffer(c))
                        /\ SF_vars(CopyAnswer(c))

FairSpec == Spec /\ Fairness

-----------------------------------------------------------------------------
(* Properties.                                                             *)

TypeOK ==
  /\ pc \in [Clients -> {"idle", "send", "getbuffer", "wait", "woken", "copy"}]
  /\ op \in [Clients -> Requests \cup {NoRequest}]
  /\ \A c \in Clients : pc[c] # "idle" => op[c] \in Ops[c]
  /\ buffer \in Requests \cup {NoRequest}
  /\ (\E c \in Clients : pc[c] # "idle") => buffer \in Requests
  /\ controlOut \in Seq(OutFrames) /\ Len(controlOut) <= CtlOutCount
  /\ controlIn \in Seq(InFrames) /\ Len(controlIn) <= CtlInCount
  /\ regs \in [Addrs -> Vals]
  /\ event \in BOOLEAN
  /\ ccData \in Answers \cup {NoAnswer}
  /\ mngtData \in Vals \cup {NoVal} \cup RegWords
  /\ ccRunning \in BOOLEAN
  /\ unsolicited \in 0..MaxUnsolicited
  /\ written \in [Addrs -> Vals]
  /\ due \in [Clients -> Answers \cup {NoAnswer}]
  /\ crossed \in BOOLEAN
  /\ mixed \in BOOLEAN

(* The one frame buffer needs no lock between the threads: they are not    *)
(* time-sliced.  A client can only come to commit a frame it did not build *)
(* if it had to wait for a DMA buffer meanwhile, or if it is a thread and  *)
(* a driver callback has built its own frame in between.                   *)
MixedOnlyBy ==
  [][~mixed /\ mixed' =>
       \E c \in Clients :
         /\ pc'[c] # pc[c]
         /\ \/ pc[c] = "getbuffer"
            \/ c \in Threads /\ buffer \in UNION {Ops[d] : d \in Callbacks}]_vars

HasRead(q) == \E i \in 1..Len(q) : q[i].req.kind \in ReadKinds
HasAnswer(q) == \E i \in 1..Len(q) : q[i].type \in {"reg", "block"}

(* A reader never sleeps on EVT_CTLCH0 with nothing left to wake it: while *)
(* every client commits its own frame, an unanswered read or an unreceived *)
(* answer is on its way as long as somebody waits.                         *)
NoLostWakeup ==
  ~mixed /\ Waiting # {} => HasRead(controlOut) \/ HasAnswer(controlIn)

Returning == {c \in Clients : pc[c] \in {"woken", "copy"}}

(* A reader past its wait finds the answer to its own request in the slot, *)
(* and what it copies out is what it is owed: a register read the value    *)
(* the register had when the request was committed, the 512-byte dump its  *)
(* first 126 words.  The last two words of a dump are not claimed: they    *)
(* are CcCtx's (CopiedOut), never to be relied on.  One client alone, the  *)
(* application thread during boot, relies on it for every read.            *)
AnswerExact ==
  \A c \in Returning :
    /\ ccData.type = due[c].type
    /\ ccData.addr = due[c].addr
    /\ CopiedOut[1] = Payload(due[c])[1]

(* Several clients may rely on it as long as no two reads have overlapped  *)
(* and no client has committed another's frame.                            *)
RightAnswer == ~crossed /\ ~mixed => AnswerExact

IsWrite(f, a) == f.req.kind = "write" /\ f.req.addr = a

\* v is what register a holds once a modem with registers m has served the
\* first n frames of q.
Settles(q, m, a, n, v) ==
  \/ /\ \A i \in 1..n : ~IsWrite(q[i], a)
     /\ m[a] = v
  \/ \E i \in 1..n :
       /\ IsWrite(q[i], a)
       /\ q[i].req.val = v
       /\ \A j \in i+1..n : ~IsWrite(q[j], a)

(* Zing_RegWrite returns when its frame is committed, not when the modem   *)
(* has taken it.  However the writes of threads and of the UART callback   *)
(* interleave, the registers end with the values committed last.           *)
WritesSettle ==
  ~mixed => \A a \in Addrs :
              Settles(controlOut, regs, a, Len(controlOut), written[a])

(* Every read that sleeps with CYU3P_WAIT_FOREVER is woken, even when      *)
(* several readers share the flag, unless a frame has been mixed up.       *)
EveryReadReturns ==
  \A c \in Clients : pc[c] = "wait" ~> (pc[c] = "idle" \/ mixed)

(* To its callers the control channel is a register file: what a read will *)
(* return is settled when its frame is committed and is what it copies out *)
(* of CcCtx.Data_ in the end (of a dump, the first 126 words).             *)
File == INSTANCE RegFile WITH
  file <- written,
  owed <- [c \in Clients |-> IF c \in Returning THEN ccData.val ELSE due[c].val],
  disturbed <- crossed \/ mixed

FileSpec == File!Spec

(* What a register read over EP0 promises: the value of the register named *)
(* by the command, whoever else is reading.                                *)
ReadsOwnRegister ==
  \A c \in Returning : ~mixed => ccData.addr = op[c].addr

(* ZING MNGT_RX4B hands out the payload of a management frame: MngtData_   *)
(* holds one the modem has sent, or nothing yet.                           *)
MngtDataReceived == mngtData \in Vals \cup {NoVal}
=============================================================================
