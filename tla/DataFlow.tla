------------------------------ MODULE DataFlow -----------------------------
(***************************************************************************)
(* The data that pass through the channels of DmaModes: the two data       *)
(* endpoints of the USB block, the DMA buffers of DataOut and DataIn, the  *)
(* callbacks of dma.c that hand a buffer on, AppStart and AppStop, and the *)
(* CLEAR_FEATURE requests of the host.                                     *)
(*                                                                         *)
(* A packet is the number of its sending.  The host, the modem and the     *)
(* test commands send; the hardware moves packets from an endpoint to a    *)
(* DMA buffer and on.  A buffer of a manual channel waits for its callback *)
(* between the two (DMA_NORMAL_MANUAL; with the AUTO_SIGNAL channels of    *)
(* the other build the callback only counts, as if it ran at once).        *)
(*                                                                         *)
(* In DMA_SINKSOURCE the CPU is the source: DMASrcSinkFillInBuffers fills  *)
(* and commits every buffer of DataIn once, and from then on the callback  *)
(* commits again each buffer the USB block has emptied.  The callback      *)
(* interrupts the thread that fills.                                       *)
(*                                                                         *)
(* Every action on the channels is written as one of DmaModes with what it *)
(* does to the data; the others leave the channels alone.                  *)
(***************************************************************************)
EXTENDS DmaModes, FiniteSets

CONSTANTS
  DataBufs,  \* DMA buffers of a data channel (4 in dma.c)
  EpDepth,   \* packets an endpoint's memory holds
  MaxSends   \* bound: packets sent

ASSUME FlowAssumption ==
  DataBufs \in Nat \ {0} /\ EpDepth \in Nat \ {0} /\ MaxSends \in Nat

Buffers == 1..DataBufs
Ring == [i \in Buffers |-> i]
Packets == 1..MaxSends
Source == 0  \* a packet of the source in an endpoint's memory

VARIABLES
  outEp,   \* memory of the data OUT endpoint
  inEp,    \* memory of the data IN endpoint
  raised,  \* per data channel, the buffers whose callback has not run
  queue,   \* per data channel, the buffers its consumer may take
  given,   \* source: the buffers of DataIn committed to the USB block
  idle,    \* source: the others, in the order GetBuffer returns them
  pattern, \* source: the buffers that hold the 0xA5 pattern
  events,  \* source: buffers emptied whose callback has not run
  fill     \* DMASrcSinkFillInBuffers: its next call, buf_p and index

(* History variables: no action reads them but to bound the sends.         *)
VARIABLES
  sent,    \* packets sent
  mark,    \* packets sent when the data channels were last destroyed
  stopped, \* packets sent when AppStop last ran
  last,    \* the last packet the modem and the host have received
  cleared, \* CLEAR_FEATURE has reset the source
  raced    \* the host emptied a buffer, or cleared, during the preload

lineVars == <<outEp, inEp, raised, queue>>
sourceVars == <<given, idle, pattern, events, fill>>
flowVars == <<lineVars, sourceVars, sent, mark, stopped, last, cleared, raced>>

NoData == [c \in DataChannels |-> << >>]
FillBegin == [at |-> "get", buf |-> 1, index |-> 0]

DataInit ==
  /\ Init
  /\ outEp = << >> /\ inEp = << >>
  /\ raised = NoData /\ queue = NoData
  /\ given = << >> /\ idle = Ring /\ pattern = {} /\ events = 0
  /\ fill = FillBegin
  /\ sent = 0 /\ mark = 0 /\ stopped = 0
  /\ last = [modem |-> 0, host |-> 0]
  /\ cleared = FALSE /\ raced = FALSE

-----------------------------------------------------------------------------
(* Switching.                                                              *)

FlushEps == outEp' = << >> /\ inEp' = << >>

\* The channels are new: no data, and memory of unknown contents.
NewChannels ==
  /\ raised' = NoData /\ queue' = NoData
  /\ given' = << >> /\ idle' = Ring /\ pattern' = {} /\ events' = 0
  /\ fill' = FillBegin
  /\ mark' = sent
  /\ cleared' = FALSE /\ raced' = FALSE
  /\ UNCHANGED <<sent, stopped, last>>

\* A mistake: the endpoints keep their packets.
RestartDataNoFlush == NewChannels /\ UNCHANGED <<outEp, inEp>>

\* A switch aborts and destroys the channels, then flushes the endpoints.
RestartData == NewChannels /\ FlushEps

Switching ==
  /\ BootSync \/ DataOnly \/ \E m \in Modes : ModeCommand(m)
  /\ RestartData

\* A mistake: one buffer too many is filled.
FillingOneMore ==
  /\ ~dead
  /\ switch # NoSwitch /\ switch.todo = {} /\ switch.layout = "SINKSOURCE"
  /\ fill.index <= DataBufs

\* The thread is in the preload of DMA_SinkSource_mode, that of DataIn (the
\* one of ControlIn before it has the same form, on a channel of its own).
Filling ==
  /\ ~dead
  /\ switch # NoSwitch /\ switch.todo = {} /\ switch.layout = "SINKSOURCE"
  /\ fill.index < DataBufs

\* A mistake: the buffer is looked up before the loop.
FillGetOnce ==
  /\ Filling /\ fill.at = "get" /\ idle # << >>
  /\ fill' = [fill EXCEPT !.at = "set", !.buf = IF fill.index = 0 THEN Head(idle) ELSE @]
  /\ UNCHANGED <<vars, lineVars, given, idle, pattern, events,
                 sent, mark, stopped, last, cleared, raced>>

(* DMASrcSinkFillInBuffers.  GetBuffer looks at the next idle buffer, and  *)
(* CommitBuffer hands the next idle buffer over, whichever it is by then.  *)
FillGet ==
  /\ Filling /\ fill.at = "get" /\ idle # << >>
  /\ fill' = [fill EXCEPT !.at = "set", !.buf = Head(idle)]
  /\ UNCHANGED <<vars, lineVars, given, idle, pattern, events,
                 sent, mark, stopped, last, cleared, raced>>

FillSet ==
  /\ Filling /\ fill.at = "set"
  /\ pattern' = pattern \cup {fill.buf}
  /\ fill' = [fill EXCEPT !.at = "commit"]
  /\ UNCHANGED <<vars, lineVars, given, idle, events,
                 sent, mark, stopped, last, cleared, raced>>

Commit ==
  given' = Append(given, Head(idle)) /\ idle' = Tail(idle)

FillCommit ==
  /\ Filling /\ fill.at = "commit" /\ idle # << >>
  /\ Commit
  /\ fill' = [fill EXCEPT !.at = "get", !.index = @ + 1]
  /\ UNCHANGED <<vars, lineVars, pattern, events,
                 sent, mark, stopped, last, cleared, raced>>

\* The other steps of DmaModes leave the data alone.
OtherStep ==
  /\ \/ \E c \in Channels : CreateChannel(c) \/ CreateFails(c)
     \/ ~Filling /\ Announce
     \/ NoMemory \/ DataTxBegin \/ DataTxEnd \/ DataSink
  /\ UNCHANGED flowVars

-----------------------------------------------------------------------------
(* Data to the modem, or to the CPU, or back to the host.                  *)
Room(c) == Len(raised[c]) + Len(queue[c]) < DataBufs

Send == sent < MaxSends /\ sent' = sent + 1

HostSend ==
  /\ active /\ ~dead
  /\ Len(outEp) < EpDepth
  /\ Send
  /\ outEp' = Append(outEp, sent')
  /\ UNCHANGED <<vars, inEp, raised, queue, sourceVars,
                 mark, stopped, last, cleared, raced>>

(* A packet fills a buffer of DataOut.  The callback has to hand it on,    *)
(* unless the channel is automatic (DMA_LP).                               *)
ProduceOut ==
  /\ active /\ ~dead
  /\ outEp # << >> /\ Room("DataOut")
  /\ outEp' = Tail(outEp)
  /\ \/ /\ chan["DataOut"] \in {"UibToPib", "UibToCpu"}
        /\ raised' = [raised EXCEPT !["DataOut"] = Append(@, Head(outEp))]
        /\ UNCHANGED queue
     \/ /\ chan["DataOut"] = "UibToUib"
        /\ queue' = [queue EXCEPT !["DataOut"] = Append(@, Head(outEp))]
        /\ UNCHANGED raised
  /\ UNCHANGED <<vars, inEp, sourceVars, sent, mark, stopped, last, cleared, raced>>

\* A mistake: the newest buffer is committed first.
CallbackNewest(c) ==
  /\ ~dead
  /\ raised[c] # << >>
  /\ raised' = [raised EXCEPT ![c] = SubSeq(@, 1, Len(@) - 1)]
  /\ queue' = IF chan[c] = "UibToCpu" THEN queue
              ELSE [queue EXCEPT ![c] = Append(@, raised[c][Len(raised[c])])]
  /\ UNCHANGED <<vars, outEp, inEp, sourceVars,
                 sent, mark, stopped, last, cleared, raced>>

(* PROD_EVENT: DMA_Normal_DataOut_Cb and DMA_Normal_DataIn_Cb commit the   *)
(* buffer, DMA_SinkSource_Cb discards it.                                  *)
Callback(c) ==
  /\ ~dead
  /\ raised[c] # << >>
  /\ raised' = [raised EXCEPT ![c] = Tail(@)]
  /\ queue' = IF chan[c] = "UibToCpu" THEN queue
              ELSE [queue EXCEPT ![c] = Append(@, Head(raised[c]))]
  /\ UNCHANGED <<vars, outEp, inEp, sourceVars,
                 sent, mark, stopped, last, cleared, raced>>

(* SENDMSG and DATATX: Zing_Transfer_Send fills and commits a buffer.  On  *)
(* a channel the CPU does not produce for, GetBuffer fails; that a manual  *)
(* channel may hand it a buffer whose callback is due is left out.         *)
CpuSend ==
  /\ Quiet /\ app # "boot"
  /\ chan["DataOut"] = "CpuToPib" /\ Room("DataOut")
  /\ Send
  /\ queue' = [queue EXCEPT !["DataOut"] = Append(@, sent')]
  /\ UNCHANGED <<vars, outEp, inEp, raised, sourceVars,
                 mark, stopped, last, cleared, raced>>

ModemTake ==
  /\ ~dead
  /\ chan["DataOut"] \in {"UibToPib", "CpuToPib"} /\ queue["DataOut"] # << >>
  /\ last' = [last EXCEPT !.modem = Head(queue["DataOut"])]
  /\ queue' = [queue EXCEPT !["DataOut"] = Tail(@)]
  /\ UNCHANGED <<vars, outEp, inEp, raised, sourceVars,
                 sent, mark, stopped, cleared, raced>>

-----------------------------------------------------------------------------
(* Data from the modem.                                                    *)
ModemSend ==
  /\ ~dead
  /\ Room("DataIn")
  /\ Send
  /\ \/ /\ chan["DataIn"] = "PibToUib"
        /\ raised' = [raised EXCEPT !["DataIn"] = Append(@, sent')]
        /\ UNCHANGED queue
     \/ /\ chan["DataIn"] = "PibToCpu"
        /\ queue' = [queue EXCEPT !["DataIn"] = Append(@, sent')]
        /\ UNCHANGED raised
  /\ UNCHANGED <<vars, outEp, inEp, sourceVars, mark, stopped, last, cleared, raced>>

\* RECVMSG and the loop of DATASINK take and discard a buffer.
CpuReceive ==
  /\ Commanded
  /\ chan["DataIn"] = "PibToCpu" /\ queue["DataIn"] # << >>
  /\ queue' = [queue EXCEPT !["DataIn"] = Tail(@)]
  /\ UNCHANGED <<vars, outEp, inEp, raised, sourceVars,
                 sent, mark, stopped, last, cleared, raced>>

\* The channel whose buffers go to the data IN endpoint.
Inward ==
  {c \in DataChannels : chan[c] \in {"PibToUib", "UibToUib"}}

ToEndpoint ==
  /\ active /\ ~dead
  /\ Len(inEp) < EpDepth
  /\ \E c \in Inward :
        /\ queue[c] # << >>
        /\ inEp' = Append(inEp, Head(queue[c]))
        /\ queue' = [queue EXCEPT ![c] = Tail(@)]
  /\ UNCHANGED <<vars, outEp, raised, sourceVars,
                 sent, mark, stopped, last, cleared, raced>>

HostReceive ==
  /\ active /\ ~dead
  /\ inEp # << >>
  /\ inEp' = Tail(inEp)
  /\ last' = IF Head(inEp) = Source THEN last ELSE [last EXCEPT !.host = Head(inEp)]
  /\ UNCHANGED <<vars, outEp, raised, queue, sourceVars,
                 sent, mark, stopped, cleared, raced>>

-----------------------------------------------------------------------------
(* The source.                                                             *)

\* The USB block empties a buffer of DataIn and raises CONS_EVENT.
TakeSource ==
  /\ active /\ ~dead
  /\ given # << >> /\ Len(inEp) < EpDepth
  /\ inEp' = Append(inEp, Source)
  /\ given' = Tail(given)
  /\ idle' = Append(idle, Head(given))
  /\ events' = events + 1
  /\ raced' = (raced \/ switch # NoSwitch)
  /\ UNCHANGED <<vars, outEp, raised, queue, pattern, fill,
                 sent, mark, stopped, last, cleared>>

\* A mistake: a callback while the CPU fills is ignored.
SourceCallbackIdle ==
  /\ ~dead
  /\ events > 0
  /\ events' = events - 1
  /\ IF idle # << >> /\ switch = NoSwitch THEN Commit ELSE UNCHANGED <<given, idle>>
  /\ UNCHANGED <<vars, lineVars, pattern, fill,
                 sent, mark, stopped, last, cleared, raced>>

\* CONS_EVENT: DMA_SinkSource_Cb commits a buffer again, whatever it holds.
SourceCallback ==
  /\ ~dead
  /\ events > 0
  /\ events' = events - 1
  /\ IF idle # << >> THEN Commit ELSE UNCHANGED <<given, idle>>
  /\ UNCHANGED <<vars, lineVars, pattern, fill,
                 sent, mark, stopped, last, cleared, raced>>

-----------------------------------------------------------------------------
(* USB events.                                                             *)

\* A mistake: AppStop leaves the IN endpoint full.
StopOutOnly ==
  /\ outEp' = << >>
  /\ stopped' = sent
  /\ UNCHANGED <<inEp, raised, queue, sourceVars, sent, mark, last, cleared, raced>>

(* AppStop flushes and disables the endpoints.  The buffers of the         *)
(* channels keep their data.                                               *)
Stop ==
  /\ FlushEps
  /\ stopped' = sent
  /\ UNCHANGED <<raised, queue, sourceVars, sent, mark, last, cleared, raced>>

\* USBEventCB: SETCONF stops the application if it runs and starts it.
Configured ==
  /\ SetConf
  /\ IF active THEN Stop ELSE UNCHANGED flowVars

Stopped ==
  /\ ResetOrDisconnect
  /\ Stop

\* CLEAR_FEATURE resets a channel and its endpoint.
ClearOut ==
  /\ active /\ ~dead
  /\ outEp' = << >>
  /\ raised' = [raised EXCEPT !["DataOut"] = << >>]
  /\ queue' = [queue EXCEPT !["DataOut"] = << >>]
  /\ UNCHANGED <<vars, inEp, sourceVars, sent, mark, stopped, last, cleared, raced>>

(* The buffers the source had committed are idle again, and with no buffer *)
(* committed no callback will commit one.                                  *)
ClearIn ==
  /\ active /\ ~dead
  /\ inEp' = << >>
  /\ raised' = [raised EXCEPT !["DataIn"] = << >>]
  /\ queue' = [queue EXCEPT !["DataIn"] = << >>]
  /\ given' = << >> /\ idle' = Ring /\ events' = 0
  /\ cleared' = TRUE
  /\ raced' = (raced \/ switch # NoSwitch)
  /\ UNCHANGED <<vars, outEp, pattern, fill, sent, mark, stopped, last>>

-----------------------------------------------------------------------------
DataNext ==
  \/ Switching \/ OtherStep
  \/ FillGet \/ FillSet \/ FillCommit
  \/ HostSend \/ ProduceOut \/ CpuSend \/ ModemTake
  \/ \E c \in DataChannels : Callback(c)
  \/ ModemSend \/ CpuReceive \/ ToEndpoint \/ HostReceive
  \/ TakeSource \/ SourceCallback
  \/ Configured \/ Stopped \/ ClearOut \/ ClearIn

DataSpec == DataInit /\ [][DataNext]_<<vars, flowVars>>

-----------------------------------------------------------------------------
(* Properties.                                                             *)

FlowTypeOK ==
  /\ TypeOK
  /\ outEp \in Seq(Packets) /\ Len(outEp) <= EpDepth
  /\ inEp \in Seq(Packets \cup {Source}) /\ Len(inEp) <= EpDepth
  /\ raised \in [DataChannels -> Seq(Packets)]
  /\ queue \in [DataChannels -> Seq(Packets)]
  /\ \A c \in DataChannels : Len(raised[c]) + Len(queue[c]) <= DataBufs
  /\ given \in Seq(Buffers) /\ idle \in Seq(Buffers)
  /\ Len(given) + Len(idle) = DataBufs
  /\ pattern \subseteq Buffers
  /\ events \in Nat
  /\ fill \in [at : {"get", "set", "commit"}, buf : Buffers, index : 0..DataBufs]
  /\ {sent, mark, stopped, last.modem, last.host} \subseteq 0..MaxSends
  /\ cleared \in BOOLEAN /\ raced \in BOOLEAN

(* Where packets wait on their way to the modem and to the host, the place *)
(* they reach last first.                                                  *)
ModemPlaces ==
  CASE chan["DataOut"] = "UibToUib" -> << >>
    [] chan["DataOut"] = "UibToPib" -> <<queue["DataOut"], raised["DataOut"], outEp>>
    [] OTHER                        -> <<queue["DataOut"], raised["DataOut"]>>
HostPlaces ==
  IF chan["DataOut"] = "UibToUib"
  THEN <<inEp, queue["DataOut"], outEp>>
  ELSE <<inEp, queue["DataIn"], raised["DataIn"]>>

\* Every packet of s was sent before every packet of t.
Precede(s, t) ==
  \A i \in DOMAIN s, j \in DOMAIN t : s[i] # Source /\ t[j] # Source => s[i] < t[j]
Rising(s) ==
  \A i, j \in DOMAIN s : i < j /\ s[i] # Source /\ s[j] # Source => s[i] < s[j]

\* After packet p come the packets of the places, in the order they were sent.
InLine(p, places) ==
  \A a \in DOMAIN places :
    /\ Precede(<<p>>, places[a]) /\ Rising(places[a])
    /\ \A b \in DOMAIN places : a < b => Precede(places[a], places[b])

(* Nothing is delivered twice or overtaken on the way, through endpoints,  *)
(* buffers and callbacks, whatever is flushed, reset or destroyed.         *)
InOrder ==
  InLine(last.modem, ModemPlaces) /\ InLine(last.host, HostPlaces)

\* The packets in endpoints and buffers.
Elements(s) == {s[i] : i \in DOMAIN s}
Underway ==
  Elements(outEp) \cup (Elements(inEp) \ {Source})
    \cup UNION {Elements(raised[c]) \cup Elements(queue[c]) : c \in DataChannels}

(* A mode begins with empty endpoints and channels: no packet sent before  *)
(* the switch reaches a receiver after it.                                 *)
NoCarryOver == \A p \in Underway : p > mark

(* AppStop keeps what the channels hold, and a new configuration delivers  *)
(* it: at most DataBufs packets each way outlive a session.                *)
SessionBound ==
  \A places \in {ModemPlaces, HostPlaces} :
    LET Carried == (UNION {Elements(places[a]) : a \in DOMAIN places}) \ {Source}
    IN  Cardinality({p \in Carried : p <= stopped}) <= DataBufs

(* DMASrcSinkFillInBuffers finds a buffer each time, even if the host has  *)
(* begun to read and callbacks commit buffers between its calls.           *)
PreloadSucceeds == Filling /\ fill.at # "set" => idle # << >>

SourceRuns ==
  mode = "SINKSOURCE" /\ switch = NoSwitch /\ chan["DataIn"] = "CpuToUib"

(* The source never runs dry: each buffer is with the USB block or has an  *)
(* event that will commit one, unless CLEAR_FEATURE took them back.        *)
SourceConserved ==
  SourceRuns /\ ~cleared => Len(given) + events = DataBufs

(* The source sends the pattern, unless the host read or cleared during    *)
(* the preload: the callback then commits the buffer the thread is about   *)
(* to fill, or the thread fills again one it has filled.                   *)
SourcePattern ==
  SourceRuns /\ ~raced => Elements(given) \subseteq pattern
=============================================================================
