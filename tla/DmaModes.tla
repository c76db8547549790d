------------------------------ MODULE DmaModes -----------------------------
(***************************************************************************)
(* The four DMA channels of dma.c, the mode Dma.Mode_ that names their     *)
(* configuration, and the buffer heap they and the test commands live on.  *)
(*                                                                         *)
(* A mode is entered by destroying channels and creating them anew one by  *)
(* one.  The first creation that fails for want of memory ends the switch  *)
(* with an error (CHECK): the channels created so far stay, Dma.Mode_      *)
(* keeps its old value, and the EP0 thread does not look at the status.    *)
(*                                                                         *)
(* Three parties act: the application thread (boot, then                   *)
(* DMA_Normal_DataOnly once the host has configured the device), the EP0   *)
(* thread (mode and test commands) and the USB event callback, which       *)
(* interrupts the others.  A switch does not block, so no other thread     *)
(* runs before it ends.                                                    *)
(***************************************************************************)
EXTENDS Integers, Sequences

CONSTANTS
  ControlUnits,  \* heap units a control channel takes (8 buffers of 1 KB)
  DataUnits,     \* heap units a data channel takes (4 buffers of 8 KB)
  BlockUnits,    \* heap units a test command's block takes (8 KB)
  HeapUnits      \* units of the buffer heap left for channels and blocks

ASSUME UnitsAssumption ==
  /\ ControlUnits \in Nat \ {0} /\ DataUnits \in Nat \ {0}
  /\ BlockUnits \in Nat \ {0} /\ HeapUnits \in Nat

\* What the four channels take together; the heap is made for them.
AllUnits == 2 * ControlUnits + 2 * DataUnits
ASSUME BootAssumption == AllUnits <= HeapUnits

Channels == {"ControlOut", "ControlIn", "DataOut", "DataIn"}
DataChannels == {"DataOut", "DataIn"}
Units(c) == IF c \in DataChannels THEN DataUnits ELSE ControlUnits

\* What produces the data of a channel and what consumes them.
Configs == {"CpuToPib", "PibToCpu", "UibToPib", "PibToUib", "UibToUib",
            "UibToCpu", "CpuToUib"}
None == "none"

Modes == {"SYNC", "NORMAL", "LP", "SINKSOURCE"}

\* The configurations of a mode; a channel it does not create stays None.
Layout(m) ==
  CASE m = "SYNC"       -> [ControlOut |-> "CpuToPib", ControlIn |-> "PibToCpu",
                            DataOut |-> "CpuToPib", DataIn |-> "PibToCpu"]
    [] m = "NORMAL"     -> [ControlOut |-> "UibToPib", ControlIn |-> "PibToUib",
                            DataOut |-> "UibToPib", DataIn |-> "PibToUib"]
    [] m = "LP"         -> [ControlOut |-> "UibToUib", ControlIn |-> None,
                            DataOut |-> "UibToUib", DataIn |-> None]
    [] m = "SINKSOURCE" -> [ControlOut |-> "UibToCpu", ControlIn |-> "CpuToUib",
                            DataOut |-> "UibToCpu", DataIn |-> "CpuToUib"]

(* A switch under way: who performs it, the layout it aims at, the mode it *)
(* announces at its end and the channels it has still to create.           *)
NoSwitch == [by |-> "nobody", layout |-> "SYNC", announce |-> "SYNC", todo |-> {}]
Switches ==
  [by : {"app", "ep0"}, layout : Modes, announce : Modes, todo : SUBSET Channels]

VARIABLES
  chan,    \* the configuration of each channel, or None
  mode,    \* Dma.Mode_
  free,    \* units left in the buffer heap
  app,     \* where the application thread is
  active,  \* IsApplnActive
  switch,  \* the switch under way
  dataTx,  \* the EP0 thread sleeps in Zing_Test_DataTx2 and holds its block
  dead     \* a block was filled through a NULL pointer

(* History variables: no action reads them.                                *)
VARIABLES
  leaked,  \* blocks Zing_Test_DataSink2 has not given back
  short,   \* the last switch ended early
  early    \* a mode command came before the application thread's own switch

vars == <<chan, mode, free, app, active, switch, dataTx, dead, leaked, short, early>>

Init ==
  /\ chan = [c \in Channels |-> None]
  /\ mode = "UNINITIALIZED"
  /\ free = HeapUnits
  /\ app = "boot"
  /\ active = FALSE
  /\ switch = NoSwitch
  /\ dataTx = FALSE
  /\ dead = FALSE
  /\ leaked = 0
  /\ short = FALSE
  /\ early = FALSE

-----------------------------------------------------------------------------
(* Switching.                                                              *)

\* No thread is inside a switch: another may run.
Quiet == switch = NoSwitch /\ ~dead

HeldBy(c) == IF chan[c] = None THEN 0 ELSE Units(c)
Held(S) ==
  (IF "ControlOut" \in S THEN HeldBy("ControlOut") + HeldBy("ControlIn") ELSE 0)
    + HeldBy("DataOut") + HeldBy("DataIn")

\* A mistake: DataIn is left out.
DestroyForgets(S) ==
  /\ chan' = [c \in Channels |-> IF c \in S \ {"DataIn"} THEN None ELSE chan[c]]
  /\ free' = free + Held(S) - HeldBy("DataIn")

(* channelReset (S = Channels), or the beginning of DMA_Normal_DataOnly:   *)
(* the channels are aborted and destroyed, their buffers are freed.        *)
Destroy(S) ==
  /\ chan' = [c \in Channels |-> IF c \in S THEN None ELSE chan[c]]
  /\ free' = free + Held(S)

\* The channels of S that layout m has.
Wanted(m, S) == {c \in S : Layout(m)[c] # None}

\* The order of the createChannel calls, the same in every mode.
Rank == [ControlOut |-> 1, ControlIn |-> 2, DataOut |-> 3, DataIn |-> 4]
IsNext(c, S) == c \in S /\ \A d \in S : Rank[c] <= Rank[d]

\* ApplicationThread up to DMA_Sync.
BootSync ==
  /\ Quiet
  /\ app = "boot"
  /\ Destroy(Channels)
  /\ switch' = [by |-> "app", layout |-> "SYNC", announce |-> "SYNC",
                todo |-> Wanted("SYNC", Channels)]
  /\ UNCHANGED <<mode, app, active, dataTx, dead, leaked, short, early>>

\* A mistake: it announces DMA_NORMAL.
DataOnlyNormal ==
  /\ Quiet
  /\ app = "connect" /\ active
  /\ Destroy(DataChannels)
  /\ switch' = [by |-> "app", layout |-> "NORMAL", announce |-> "NORMAL",
                todo |-> Wanted("NORMAL", DataChannels)]
  /\ UNCHANGED <<mode, app, active, dataTx, dead, leaked, short, early>>

(* DMA_Normal_DataOnly, once the host has configured the device: the data  *)
(* channels only; it announces DMA_SYNC.                                   *)
DataOnly ==
  /\ Quiet
  /\ app = "connect" /\ active
  /\ Destroy(DataChannels)
  /\ switch' = [by |-> "app", layout |-> "NORMAL", announce |-> "SYNC",
                todo |-> Wanted("NORMAL", DataChannels)]
  /\ UNCHANGED <<mode, app, active, dataTx, dead, leaked, short, early>>

\* DMA_Sync, DMA_Normal, DMA_LoopBack, DMA_SinkSource on a command of the host.
ModeCommand(m) ==
  /\ Quiet
  /\ app # "boot" /\ ~dataTx
  /\ Destroy(Channels)
  /\ switch' = [by |-> "ep0", layout |-> m, announce |-> m,
                todo |-> Wanted(m, Channels)]
  /\ early' = (app = "connect")
  /\ UNCHANGED <<mode, app, active, dataTx, dead, leaked, short>>

CreateChannel(c) ==
  /\ ~dead
  /\ IsNext(c, switch.todo)
  /\ Units(c) <= free
  /\ chan' = [chan EXCEPT ![c] = Layout(switch.layout)[c]]
  /\ free' = free - Units(c)
  /\ switch' = [switch EXCEPT !.todo = @ \ {c}]
  /\ UNCHANGED <<mode, app, active, dataTx, dead, leaked, short, early>>

\* The application thread stops for ever in CheckStatus when a switch fails.
AppAfter(ok) ==
  IF switch.by # "app" THEN app
  ELSE IF ~ok THEN "hung"
  ELSE IF app = "boot" THEN "connect" ELSE "poll"

(* No memory for the channel: the function returns, the rest is not        *)
(* created.  The CyU3PDmaChannelSetXfer that follows a creation is taken   *)
(* to succeed on the new channel.                                          *)
CreateFails(c) ==
  /\ ~dead
  /\ IsNext(c, switch.todo)
  /\ Units(c) > free
  /\ switch' = NoSwitch
  /\ app' = AppAfter(FALSE)
  /\ short' = TRUE
  /\ UNCHANGED <<chan, mode, free, active, dataTx, dead, leaked, early>>

Announce ==
  /\ ~dead
  /\ switch # NoSwitch /\ switch.todo = {}
  /\ mode' = switch.announce
  /\ switch' = NoSwitch
  /\ app' = AppAfter(TRUE)
  /\ short' = (short /\ switch.by = "app")
  /\ UNCHANGED <<chan, free, active, dataTx, dead, leaked, early>>

-----------------------------------------------------------------------------
(* Test commands of the EP0 thread that take a block of the heap.  Neither *)
(* looks at the pointer: without memory CyU3PMemSet fills from address 0.  *)
Commanded == Quiet /\ app # "boot" /\ ~dataTx

NoMemory ==
  /\ Commanded
  /\ BlockUnits > free
  /\ dead' = TRUE
  /\ UNCHANGED <<chan, mode, free, app, active, switch, dataTx, leaked, short, early>>

\* Zing_Test_DataTx2 sleeps for free buffers and gives its block back.
DataTxBegin ==
  /\ Commanded
  /\ BlockUnits <= free
  /\ free' = free - BlockUnits
  /\ dataTx' = TRUE
  /\ UNCHANGED <<chan, mode, app, active, switch, dead, leaked, short, early>>

\* A mistake: the block is given back twice.
DataTxEndTwice ==
  /\ Quiet
  /\ dataTx
  /\ free' = free + 2 * BlockUnits
  /\ dataTx' = FALSE
  /\ UNCHANGED <<chan, mode, app, active, switch, dead, leaked, short, early>>

DataTxEnd ==
  /\ Quiet
  /\ dataTx
  /\ free' = free + BlockUnits
  /\ dataTx' = FALSE
  /\ UNCHANGED <<chan, mode, app, active, switch, dead, leaked, short, early>>

\* Zing_Test_DataSink2 does not.
DataSink ==
  /\ Commanded
  /\ BlockUnits <= free
  /\ free' = free - BlockUnits
  /\ leaked' = leaked + 1
  /\ UNCHANGED <<chan, mode, app, active, switch, dataTx, dead, short, early>>

-----------------------------------------------------------------------------
(* USB events.  AppStart and AppStop configure endpoints and set           *)
(* IsApplnActive; they leave the DMA channels alone.                       *)
SetConf ==
  /\ app # "boot" /\ ~dead
  /\ active' = TRUE
  /\ UNCHANGED <<chan, mode, free, app, switch, dataTx, dead, leaked, short, early>>

ResetOrDisconnect ==
  /\ active /\ ~dead
  /\ active' = FALSE
  /\ UNCHANGED <<chan, mode, free, app, switch, dataTx, dead, leaked, short, early>>

-----------------------------------------------------------------------------
Next ==
  \/ BootSync \/ DataOnly
  \/ \E m \in Modes : ModeCommand(m)
  \/ \E c \in Channels : CreateChannel(c) \/ CreateFails(c)
  \/ Announce
  \/ NoMemory \/ DataTxBegin \/ DataTxEnd \/ DataSink
  \/ SetConf \/ ResetOrDisconnect

Spec == Init /\ [][Next]_vars

-----------------------------------------------------------------------------
(* Properties.                                                             *)

TypeOK ==
  /\ chan \in [Channels -> Configs \cup {None}]
  /\ mode \in Modes \cup {"UNINITIALIZED"}
  /\ free \in 0..HeapUnits
  /\ app \in {"boot", "connect", "poll", "hung"}
  /\ active \in BOOLEAN
  /\ switch \in Switches \cup {NoSwitch}
  /\ dataTx \in BOOLEAN
  /\ dead \in BOOLEAN
  /\ leaked \in Nat
  /\ short \in BOOLEAN
  /\ early \in BOOLEAN

(* Every unit of the heap is free, in a channel, or in a test block: no    *)
(* sequence of mode switches, complete or broken off, loses one.           *)
HeapExact ==
  free + Held(Channels) + BlockUnits * (leaked + (IF dataTx THEN 1 ELSE 0))
    = HeapUnits

\* The layout Dma.Mode_ names; DMA_SYNC says nothing of the data channels.
Named(m, c) ==
  \/ chan[c] = Layout(m)[c]
  \/ m = "SYNC" /\ c \in DataChannels /\ chan[c] = Layout("NORMAL")[c]

(* The mode names the channels: in particular the control channel thread,  *)
(* which reads Dma.Mode_, never polls a ControlIn that is not there.  Not  *)
(* so while a switch is under way, after one that ended early, or when a   *)
(* mode command came before the application thread's DMA_Normal_DataOnly.  *)
ModeHonest ==
  switch = NoSwitch /\ ~short /\ ~early /\ mode # "UNINITIALIZED"
    => \A c \in Channels : Named(mode, c)

(* A switch finds the memory for its channels unless test commands hold    *)
(* it, whatever switches came before.                                      *)
SwitchSucceeds ==
  [][short' /\ ~short => BlockUnits * (leaked + 1) > HeapUnits - AllUnits]_vars

(* As long as the blocks of the sink test and the channels leave room for  *)
(* one more, no test command writes through a NULL pointer.                *)
DeadLate == dead => BlockUnits * (leaked + 1) > HeapUnits - AllUnits
=============================================================================
