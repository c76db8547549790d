--------------------------- MODULE DmaModesProofs --------------------------
(***************************************************************************)
(* Proofs about DmaModes, for a heap and channels of any size.             *)
(***************************************************************************)
EXTENDS DmaModes, TLAPS

-----------------------------------------------------------------------------
(* The inductive invariant.                                                *)

\* TypeOK without the upper bound of free, which HeapExact gives.
Typed ==
  /\ chan \in [Channels -> Configs \cup {None}]
  /\ mode \in Modes \cup {"UNINITIALIZED"}
  /\ free \in Nat
  /\ app \in {"boot", "connect", "poll", "hung"}
  /\ active \in BOOLEAN
  /\ switch \in Switches \cup {NoSwitch}
  /\ dataTx \in BOOLEAN
  /\ dead \in BOOLEAN
  /\ leaked \in Nat
  /\ short \in BOOLEAN
  /\ early \in BOOLEAN

\* What a switch has still to create is not there and is wanted.
TodoOpen ==
  switch # NoSwitch =>
    \A c \in switch.todo : chan[c] = None /\ Layout(switch.layout)[c] # None

\* The switch of DMA_Normal_DataOnly.
DataOnlySwitch ==
  /\ switch.by = "app" /\ app = "connect"
  /\ switch.layout = "NORMAL" /\ switch.announce = "SYNC"
  /\ switch.todo \subseteq DataChannels

WholeSwitch ==
  /\ switch.announce = switch.layout
  /\ switch.by = "app" <=> app = "boot"
  /\ app = "boot" => switch.layout = "SYNC"
  /\ app = "connect" => early

(* What a switch has done agrees with the mode it will announce.           *)
SwitchOnWay ==
  switch # NoSwitch =>
    \/ /\ WholeSwitch
       /\ \A c \in Channels \ switch.todo : chan[c] = Layout(switch.layout)[c]
    \/ /\ DataOnlySwitch
       /\ \A c \in DataChannels \ switch.todo : chan[c] = Layout("NORMAL")[c]
       /\ ~early => \A c \in Channels \ DataChannels : chan[c] = Layout("SYNC")[c]

(* From the end of the boot until DMA_Normal_DataOnly the channels are     *)
(* those of DMA_SYNC, if no command of the host has come between.          *)
BootLayout ==
  app = "connect" /\ switch = NoSwitch /\ ~early =>
    \A c \in Channels : chan[c] = Layout("SYNC")[c]

Inv == Typed /\ HeapExact /\ TodoOpen /\ SwitchOnWay /\ BootLayout /\ ModeHonest /\ DeadLate

-----------------------------------------------------------------------------
(* Operators.                                                              *)

\* A layout gives every channel a configuration or None.
LEMMA LayoutFacts ==
  ASSUME NEW m \in Modes, NEW c \in Channels
  PROVE  Layout(m)[c] \in Configs \cup {None}
<1>1. CASE m = "SYNC"
  BY <1>1 DEF Layout, Channels, Configs, None
<1>2. CASE m = "NORMAL"
  BY <1>2 DEF Layout, Channels, Configs, None
<1>3. CASE m = "LP"
  BY <1>3 DEF Layout, Channels, Configs, None
<1>4. CASE m = "SINKSOURCE"
  BY <1>4 DEF Layout, Channels, Configs, None
<1> QED
  BY <1>1, <1>2, <1>3, <1>4 DEF Modes

LEMMA UnitsFacts ==
  /\ Units("ControlOut") = ControlUnits /\ Units("ControlIn") = ControlUnits
  /\ Units("DataOut") = DataUnits /\ Units("DataIn") = DataUnits
  /\ \A c \in Channels : Units(c) \in Nat
BY UnitsAssumption DEF Units, Channels, DataChannels

\* What the channels hold, a number for each of them.
LEMMA HeldFacts ==
  ASSUME Typed
  PROVE  /\ Held(Channels) = HeldBy("ControlOut") + HeldBy("ControlIn")
                               + HeldBy("DataOut") + HeldBy("DataIn")
         /\ Held(DataChannels) = HeldBy("DataOut") + HeldBy("DataIn")
         /\ \A c \in Channels : HeldBy(c) \in 0..Units(c)
         /\ Held(Channels) \in 0..AllUnits
<1>1. \A c \in Channels : HeldBy(c) \in 0..Units(c)
  BY UnitsFacts DEF HeldBy
<1>2. /\ HeldBy("ControlOut") \in 0..ControlUnits /\ HeldBy("ControlIn") \in 0..ControlUnits
      /\ HeldBy("DataOut") \in 0..DataUnits /\ HeldBy("DataIn") \in 0..DataUnits
  BY <1>1, UnitsFacts DEF Channels
<1>3. /\ Held(Channels) = HeldBy("ControlOut") + HeldBy("ControlIn")
                            + HeldBy("DataOut") + HeldBy("DataIn")
      /\ Held(DataChannels) = HeldBy("DataOut") + HeldBy("DataIn")
  BY <1>2, UnitsAssumption DEF Held, Channels, DataChannels
<1> QED
  BY <1>1, <1>2, <1>3, UnitsAssumption DEF AllUnits

\* One block more.
LEMMA BlockStep ==
  ASSUME NEW n \in Nat
  PROVE  /\ BlockUnits * n \in Nat
         /\ BlockUnits * (n + 1) = BlockUnits * n + BlockUnits
         /\ BlockUnits * (n + 0) = BlockUnits * n
BY UnitsAssumption

-----------------------------------------------------------------------------
(* Type correctness.                                                       *)

LEMMA NextInTodo ==
  ASSUME NEW c, IsNext(c, switch.todo), Typed
  PROVE  switch # NoSwitch /\ switch \in Switches /\ c \in switch.todo /\ c \in Channels
<1>1. c \in switch.todo
  BY DEF IsNext
<1>2. switch # NoSwitch
  BY <1>1 DEF NoSwitch
<1> QED
  BY <1>1, <1>2 DEF Typed, Switches

LEMMA DestroyTyped ==
  ASSUME Typed, NEW S, S = Channels \/ S = DataChannels, Destroy(S)
  PROVE  chan' \in [Channels -> Configs \cup {None}] /\ free' \in Nat
<1>1. chan' \in [Channels -> Configs \cup {None}]
  BY DEF Typed, Destroy
<1>2. Held(S) \in Nat
  <2>1. HeldBy("DataOut") \in Nat /\ HeldBy("DataIn") \in Nat /\ Held(Channels) \in Nat
    BY HeldFacts, UnitsFacts, UnitsAssumption DEF AllUnits, Channels
  <2> QED
    BY <2>1, HeldFacts
<1> QED
  BY <1>1, <1>2 DEF Typed, Destroy

LEMMA InitTyped == Init => Typed
<1> SUFFICES ASSUME Init PROVE Typed
  OBVIOUS
<1>1. chan \in [Channels -> Configs \cup {None}]
  BY DEF Init
<1>2. /\ active \in BOOLEAN /\ dataTx \in BOOLEAN /\ dead \in BOOLEAN
      /\ short \in BOOLEAN /\ early \in BOOLEAN
  BY DEF Init
<1>3. free \in Nat /\ leaked \in Nat
  BY UnitsAssumption DEF Init
<1> QED
  BY <1>1, <1>2, <1>3 DEF Init, Typed

LEMMA StepTyped == Typed /\ [Next]_vars => Typed'
<1> SUFFICES ASSUME Typed, [Next]_vars PROVE Typed'
  OBVIOUS
<1>1. CASE BootSync
  <2>1. switch' \in Switches
    BY <1>1 DEF BootSync, Switches, Modes, Wanted
  <2> QED
    BY <1>1, <2>1, DestroyTyped DEF BootSync, Typed
<1>2. CASE DataOnly
  <2>1. switch' \in Switches
    BY <1>2 DEF DataOnly, Switches, Modes, Wanted, DataChannels, Channels
  <2> QED
    BY <1>2, <2>1, DestroyTyped DEF DataOnly, Typed
<1>3. ASSUME NEW m \in Modes, ModeCommand(m) PROVE Typed'
  <2>1. switch' \in Switches
    BY <1>3 DEF ModeCommand, Switches, Wanted
  <2>2. early' \in BOOLEAN
    BY <1>3 DEF ModeCommand
  <2> QED
    BY <1>3, <2>1, <2>2, DestroyTyped DEF ModeCommand, Typed
<1>4. ASSUME NEW c \in Channels, CreateChannel(c) PROVE Typed'
  <2>1. switch \in Switches /\ c \in Channels
    BY <1>4, NextInTodo DEF CreateChannel
  <2>2. switch' \in Switches
    BY <1>4, <2>1 DEF CreateChannel, Switches
  <2>3. chan' \in [Channels -> Configs \cup {None}]
    BY <1>4, <2>1, LayoutFacts DEF CreateChannel, Switches, Typed
  <2>4. free' \in Nat
    BY <1>4, UnitsFacts DEF CreateChannel, Typed
  <2> QED
    BY <1>4, <2>2, <2>3, <2>4 DEF CreateChannel, Typed
<1>5. ASSUME NEW c \in Channels, CreateFails(c) PROVE Typed'
  BY <1>5 DEF CreateFails, Typed, AppAfter
<1>6. CASE Announce
  <2>1. mode' \in Modes
    BY <1>6 DEF Announce, Typed, Switches
  <2>2. short' \in BOOLEAN /\ switch' = NoSwitch
    BY <1>6 DEF Announce
  <2>3. app' \in {"boot", "connect", "poll", "hung"}
    BY <1>6 DEF Announce, AppAfter, Typed
  <2> QED
    BY <1>6, <2>1, <2>2, <2>3 DEF Announce, Typed
<1>7. CASE NoMemory
  BY <1>7 DEF NoMemory, Typed
<1>8. CASE DataTxBegin
  BY <1>8, UnitsAssumption DEF DataTxBegin, Typed
<1>9. CASE DataTxEnd
  <2>1. free' \in Nat
    BY <1>9, UnitsAssumption DEF DataTxEnd, Typed
  <2>2. dataTx' \in BOOLEAN
    BY <1>9 DEF DataTxEnd
  <2> QED
    BY <1>9, <2>1, <2>2 DEF DataTxEnd, Typed
<1>10. CASE DataSink
  BY <1>10, UnitsAssumption DEF DataSink, Typed
<1>11. CASE SetConf
  BY <1>11 DEF SetConf, Typed
<1>12. CASE ResetOrDisconnect
  BY <1>12 DEF ResetOrDisconnect, Typed
<1>13. CASE UNCHANGED vars
  BY <1>13 DEF vars, Typed
<1> QED
  BY <1>1, <1>2, <1>3, <1>4, <1>5, <1>6, <1>7, <1>8, <1>9, <1>10, <1>11, <1>12,
     <1>13 DEF Next

-----------------------------------------------------------------------------
(* The heap.                                                               *)

\* What a channel holds is decided by its configuration alone.
LEMMA HeldSame ==
  ASSUME Typed, Typed', chan' = chan
  PROVE  Held(Channels)' = Held(Channels)
<1>1. \A c \in Channels : HeldBy(c)' = HeldBy(c)
  BY DEF HeldBy
<1>2. /\ HeldBy("ControlOut")' = HeldBy("ControlOut") /\ HeldBy("ControlIn")' = HeldBy("ControlIn")
      /\ HeldBy("DataOut")' = HeldBy("DataOut") /\ HeldBy("DataIn")' = HeldBy("DataIn")
  BY <1>1 DEF Channels
<1>3. /\ Held(Channels)' = HeldBy("ControlOut")' + HeldBy("ControlIn")'
                             + HeldBy("DataOut")' + HeldBy("DataIn")'
  BY DEF Held, Channels
<1> QED
  BY <1>2, <1>3, HeldFacts

LEMMA HeldPrimed ==
  Held(Channels)' = HeldBy("ControlOut")' + HeldBy("ControlIn")'
                     + HeldBy("DataOut")' + HeldBy("DataIn")'
BY DEF Held, Channels

\* Destroying channels moves what they hold to the heap.
LEMMA DestroyKeeps ==
  ASSUME Typed, NEW S, S = Channels \/ S = DataChannels, Destroy(S)
  PROVE  free' + Held(Channels)' = free + Held(Channels)
<1>1. \A c \in S : HeldBy(c)' = 0
  BY DEF Typed, Destroy, HeldBy, DataChannels, Channels
<1>2. \A c \in Channels \ S : HeldBy(c)' = HeldBy(c)
  BY DEF Typed, Destroy, HeldBy
<1>3. /\ HeldBy("ControlOut") \in Nat /\ HeldBy("ControlIn") \in Nat
      /\ HeldBy("DataOut") \in Nat /\ HeldBy("DataIn") \in Nat
  BY HeldFacts, UnitsFacts DEF Channels
<1>4. free' = free + Held(S) /\ free \in Nat
  BY DEF Destroy, Typed
<1>5. CASE S = Channels
  <2>1. /\ HeldBy("ControlOut")' = 0 /\ HeldBy("ControlIn")' = 0
        /\ HeldBy("DataOut")' = 0 /\ HeldBy("DataIn")' = 0
    BY <1>1, <1>5 DEF Channels
  <2> QED
    BY <1>3, <1>4, <1>5, <2>1, HeldFacts, HeldPrimed
<1>6. CASE S = DataChannels
  <2>1. /\ HeldBy("ControlOut")' = HeldBy("ControlOut")
        /\ HeldBy("ControlIn")' = HeldBy("ControlIn")
        /\ HeldBy("DataOut")' = 0 /\ HeldBy("DataIn")' = 0
    BY <1>1, <1>2, <1>6 DEF Channels, DataChannels
  <2> QED
    BY <1>3, <1>4, <1>6, <2>1, HeldFacts, HeldPrimed
<1> QED
  BY <1>5, <1>6

\* Creating a channel moves its units from the heap to it.
LEMMA CreateKeeps ==
  ASSUME Typed, TodoOpen, NEW c \in Channels, CreateChannel(c)
  PROVE  free' + Held(Channels)' = free + Held(Channels)
<1>1. switch # NoSwitch /\ c \in switch.todo
  BY NextInTodo DEF CreateChannel
<1>2. HeldBy(c) = 0
  BY <1>1 DEF TodoOpen, HeldBy
<1>3. HeldBy(c)' = Units(c)
  BY <1>1 DEF TodoOpen, HeldBy, CreateChannel, Typed
<1>4. \A d \in Channels \ {c} : HeldBy(d)' = HeldBy(d)
  BY DEF HeldBy, CreateChannel, Typed
<1>5. /\ HeldBy("ControlOut") \in Nat /\ HeldBy("ControlIn") \in Nat
      /\ HeldBy("DataOut") \in Nat /\ HeldBy("DataIn") \in Nat
  BY HeldFacts, UnitsFacts DEF Channels
<1>6. free' = free - Units(c) /\ free \in Nat /\ Units(c) \in Nat
  BY UnitsFacts DEF CreateChannel, Typed
<1>7. Held(Channels)' = Held(Channels) + Units(c)
  <2> USE <1>2, <1>3, <1>4, <1>5, <1>6, HeldFacts, HeldPrimed
  <2>1. CASE c = "ControlOut"
    BY <2>1 DEF Channels
  <2>2. CASE c = "ControlIn"
    BY <2>2 DEF Channels
  <2>3. CASE c = "DataOut"
    BY <2>3 DEF Channels
  <2>4. CASE c = "DataIn"
    BY <2>4 DEF Channels
  <2> QED
    BY <2>1, <2>2, <2>3, <2>4 DEF Channels
<1>8. Held(Channels) \in Nat
  BY HeldFacts, UnitsAssumption DEF AllUnits
<1> QED
  BY <1>6, <1>7, <1>8

\* What test commands hold, and the heap in terms of it.
Blocks == BlockUnits * (leaked + (IF dataTx THEN 1 ELSE 0))

LEMMA HeapExactBlocks == HeapExact <=> free + Held(Channels) + Blocks = HeapUnits
BY DEF HeapExact, Blocks

LEMMA HeapExactStep ==
  ASSUME Typed, Typed', TodoOpen, HeapExact, [Next]_vars
  PROVE  HeapExact'
<1>1. /\ free \in Nat /\ Held(Channels) \in Nat /\ Blocks \in Nat
      /\ free' \in Nat /\ free + Held(Channels) + Blocks = HeapUnits
  <2>1. Blocks \in Nat
    BY BlockStep DEF Blocks, Typed
  <2> QED
    BY <2>1, HeldFacts, UnitsAssumption, HeapExactBlocks DEF Typed, AllUnits
<1>2. SUFFICES free' + Held(Channels)' + Blocks' = HeapUnits
  BY DEF HeapExact, Blocks
<1>3. ASSUME leaked' = leaked, dataTx' = dataTx PROVE Blocks' = Blocks
  BY <1>3 DEF Blocks
<1>4. ASSUME free' + Held(Channels)' = free + Held(Channels),
             leaked' = leaked, dataTx' = dataTx
      PROVE  free' + Held(Channels)' + Blocks' = HeapUnits
  BY <1>1, <1>3, <1>4
<1>5. ASSUME chan' = chan, free' = free, leaked' = leaked, dataTx' = dataTx
      PROVE  free' + Held(Channels)' + Blocks' = HeapUnits
  BY <1>4, <1>5, HeldSame
<1>6. CASE BootSync
  BY <1>4, <1>6, DestroyKeeps DEF BootSync
<1>7. CASE DataOnly
  BY <1>4, <1>7, DestroyKeeps DEF DataOnly
<1>8. ASSUME NEW m \in Modes, ModeCommand(m) PROVE free' + Held(Channels)' + Blocks' = HeapUnits
  BY <1>4, <1>8, DestroyKeeps DEF ModeCommand
<1>9. ASSUME NEW c \in Channels, CreateChannel(c)
      PROVE  free' + Held(Channels)' + Blocks' = HeapUnits
  BY <1>4, <1>9, CreateKeeps DEF CreateChannel
<1>10. ASSUME NEW c \in Channels, CreateFails(c)
       PROVE  free' + Held(Channels)' + Blocks' = HeapUnits
  BY <1>5, <1>10 DEF CreateFails
<1>11. CASE Announce
  BY <1>5, <1>11 DEF Announce
<1>12. CASE NoMemory
  BY <1>5, <1>12 DEF NoMemory
<1>13. CASE DataTxBegin
  <2>1. Blocks' = Blocks + BlockUnits
    BY <1>13, BlockStep DEF Blocks, DataTxBegin, Commanded, Typed
  <2>2. Held(Channels)' = Held(Channels) /\ free' = free - BlockUnits
    BY <1>13, HeldSame DEF DataTxBegin
  <2> QED
    BY <1>1, <2>1, <2>2, UnitsAssumption
<1>14. CASE DataTxEnd
  <2>1. Blocks = Blocks' + BlockUnits
    BY <1>14, BlockStep DEF Blocks, DataTxEnd, Typed
  <2>2. Held(Channels)' = Held(Channels) /\ free' = free + BlockUnits
    BY <1>14, HeldSame DEF DataTxEnd
  <2>3. Blocks' \in Nat
    BY BlockStep DEF Blocks, Typed
  <2> QED
    BY <1>1, <2>1, <2>2, <2>3, UnitsAssumption
<1>15. CASE DataSink
  <2>1. Blocks' = Blocks + BlockUnits
    BY <1>15, BlockStep DEF Blocks, DataSink, Commanded, Typed
  <2>2. Held(Channels)' = Held(Channels) /\ free' = free - BlockUnits
    BY <1>15, HeldSame DEF DataSink
  <2> QED
    BY <1>1, <2>1, <2>2, UnitsAssumption
<1>16. CASE SetConf
  BY <1>5, <1>16 DEF SetConf
<1>17. CASE ResetOrDisconnect
  BY <1>5, <1>17 DEF ResetOrDisconnect
<1>18. CASE UNCHANGED vars
  BY <1>5, <1>18 DEF vars
<1> QED
  BY <1>6, <1>7, <1>8, <1>9, <1>10, <1>11, <1>12, <1>13, <1>14, <1>15, <1>16,
     <1>17, <1>18 DEF Next

-----------------------------------------------------------------------------
(* The mode and the channels.                                              *)

\* A switch begins: what it wants is destroyed.
LEMMA DestroyOpens ==
  ASSUME Typed, NEW S, S = Channels \/ S = DataChannels, Destroy(S), NEW m \in Modes
  PROVE  /\ \A c \in Wanted(m, S) : chan'[c] = None /\ Layout(m)[c] # None
         /\ \A c \in S \ Wanted(m, S) : chan'[c] = Layout(m)[c]
         /\ \A c \in Channels \ S : chan'[c] = chan[c]
<1>1. \A c \in S : c \in Channels /\ chan'[c] = None
  BY DEF Destroy, Channels, DataChannels
<1>2. \A c \in Channels \ S : chan'[c] = chan[c]
  BY DEF Destroy
<1> QED
  BY <1>1, <1>2 DEF Wanted

LEMMA TodoOpenStep ==
  ASSUME Typed, Typed', TodoOpen, [Next]_vars
  PROVE  TodoOpen'
<1>1. CASE BootSync
  BY <1>1, DestroyOpens DEF BootSync, TodoOpen, Modes
<1>2. CASE DataOnly
  BY <1>2, DestroyOpens DEF DataOnly, TodoOpen, Modes
<1>3. ASSUME NEW m \in Modes, ModeCommand(m) PROVE TodoOpen'
  BY <1>3, DestroyOpens DEF ModeCommand, TodoOpen
<1>4. ASSUME NEW c \in Channels, CreateChannel(c) PROVE TodoOpen'
  <2>1. switch # NoSwitch /\ switch \in Switches
    BY <1>4, NextInTodo DEF CreateChannel
  <2>2. switch'.todo = switch.todo \ {c} /\ switch'.layout = switch.layout
    BY <1>4, <2>1 DEF CreateChannel, Switches
  <2>3. \A d \in switch.todo \ {c} : chan'[d] = chan[d]
    BY <1>4, <2>1 DEF CreateChannel, Switches, Typed
  <2> QED
    BY <2>1, <2>2, <2>3 DEF TodoOpen
<1>5. ASSUME NEW c \in Channels, CreateFails(c) PROVE TodoOpen'
  BY <1>5 DEF CreateFails, TodoOpen
<1>6. CASE Announce
  BY <1>6 DEF Announce, TodoOpen
<1>7. ASSUME chan' = chan, switch' = switch PROVE TodoOpen'
  BY <1>7 DEF TodoOpen
<1>8. CASE NoMemory \/ DataTxBegin \/ DataTxEnd \/ DataSink
  BY <1>7, <1>8 DEF NoMemory, DataTxBegin, DataTxEnd, DataSink
<1>9. CASE SetConf \/ ResetOrDisconnect \/ UNCHANGED vars
  BY <1>7, <1>9 DEF SetConf, ResetOrDisconnect, vars
<1> QED
  BY <1>1, <1>2, <1>3, <1>4, <1>5, <1>6, <1>8, <1>9 DEF Next

LEMMA SwitchOnWayStep ==
  ASSUME Typed, Typed', TodoOpen, SwitchOnWay, BootLayout, [Next]_vars
  PROVE  SwitchOnWay'
<1>1. CASE BootSync
  <2>1. /\ switch' = [by |-> "app", layout |-> "SYNC", announce |-> "SYNC",
                      todo |-> Wanted("SYNC", Channels)]
        /\ app' = "boot"
    BY <1>1 DEF BootSync
  <2>2. WholeSwitch'
    BY <2>1 DEF WholeSwitch
  <2>3. \A c \in Channels \ switch'.todo : chan'[c] = Layout(switch'.layout)[c]
    BY <1>1, <2>1, DestroyOpens DEF BootSync, Modes
  <2> QED
    BY <2>2, <2>3 DEF SwitchOnWay
<1>2. CASE DataOnly
  <2>1. /\ switch' = [by |-> "app", layout |-> "NORMAL", announce |-> "SYNC",
                      todo |-> Wanted("NORMAL", DataChannels)]
        /\ app' = "connect" /\ app = "connect" /\ switch = NoSwitch /\ early' = early
    BY <1>2 DEF DataOnly, Quiet
  <2>2. DataOnlySwitch'
    BY <2>1 DEF DataOnlySwitch, Wanted
  <2>3. /\ \A c \in DataChannels \ switch'.todo : chan'[c] = Layout("NORMAL")[c]
        /\ \A c \in Channels \ DataChannels : chan'[c] = chan[c]
    BY <1>2, <2>1, DestroyOpens DEF DataOnly, Modes
  <2>4. ~early' => \A c \in Channels \ DataChannels : chan'[c] = Layout("SYNC")[c]
    BY <2>1, <2>3 DEF BootLayout
  <2> QED
    BY <2>2, <2>3, <2>4 DEF SwitchOnWay
<1>3. ASSUME NEW m \in Modes, ModeCommand(m) PROVE SwitchOnWay'
  <2>1. /\ switch' = [by |-> "ep0", layout |-> m, announce |-> m,
                      todo |-> Wanted(m, Channels)]
        /\ app' = app /\ app # "boot" /\ early' = (app = "connect")
    BY <1>3 DEF ModeCommand
  <2>2. WholeSwitch'
    BY <2>1 DEF WholeSwitch
  <2>3. \A c \in Channels \ switch'.todo : chan'[c] = Layout(switch'.layout)[c]
    BY <1>3, <2>1, DestroyOpens DEF ModeCommand
  <2> QED
    BY <2>2, <2>3 DEF SwitchOnWay
<1>4. ASSUME NEW c \in Channels, CreateChannel(c) PROVE SwitchOnWay'
  <2>1. switch # NoSwitch /\ switch \in Switches /\ c \in switch.todo
    BY <1>4, NextInTodo DEF CreateChannel
  <2>2. /\ switch'.by = switch.by /\ switch'.layout = switch.layout
        /\ switch'.announce = switch.announce /\ switch'.todo = switch.todo \ {c}
    BY <1>4, <2>1 DEF CreateChannel, Switches
  <2>3. app' = app /\ early' = early
    BY <1>4 DEF CreateChannel
  <2>4. chan'[c] = Layout(switch.layout)[c] /\ \A d \in Channels \ {c} : chan'[d] = chan[d]
    BY <1>4 DEF CreateChannel, Typed
  <2>5. CASE WholeSwitch /\ \A d \in Channels \ switch.todo :
                               chan[d] = Layout(switch.layout)[d]
    <3>1. WholeSwitch'
      BY <2>2, <2>3, <2>5 DEF WholeSwitch
    <3>2. \A d \in Channels \ switch'.todo : chan'[d] = Layout(switch'.layout)[d]
      BY <2>2, <2>4, <2>5
    <3> QED
      BY <3>1, <3>2 DEF SwitchOnWay
  <2>6. CASE /\ DataOnlySwitch
             /\ \A d \in DataChannels \ switch.todo : chan[d] = Layout("NORMAL")[d]
             /\ ~early => \A d \in Channels \ DataChannels :
                            chan[d] = Layout("SYNC")[d]
    <3>1. DataOnlySwitch'
      BY <2>2, <2>3, <2>6 DEF DataOnlySwitch
    <3>2. c \in DataChannels
      BY <2>1, <2>6 DEF DataOnlySwitch
    <3>3. \A d \in DataChannels \ switch'.todo : chan'[d] = Layout("NORMAL")[d]
      BY <2>2, <2>4, <2>6 DEF DataOnlySwitch, DataChannels, Channels
    <3>4. ~early' => \A d \in Channels \ DataChannels : chan'[d] = Layout("SYNC")[d]
      BY <2>3, <2>4, <2>6, <3>2
    <3> QED
      BY <3>1, <3>3, <3>4 DEF SwitchOnWay
  <2> QED
    BY <2>1, <2>5, <2>6 DEF SwitchOnWay
<1>5. ASSUME NEW c \in Channels, CreateFails(c) PROVE SwitchOnWay'
  BY <1>5 DEF CreateFails, SwitchOnWay
<1>6. CASE Announce
  BY <1>6 DEF Announce, SwitchOnWay
<1>7. ASSUME chan' = chan, switch' = switch, app' = app, early' = early PROVE SwitchOnWay'
  BY <1>7 DEF SwitchOnWay, WholeSwitch, DataOnlySwitch
<1>8. CASE NoMemory \/ DataTxBegin \/ DataTxEnd \/ DataSink
  BY <1>7, <1>8 DEF NoMemory, DataTxBegin, DataTxEnd, DataSink
<1>9. CASE SetConf \/ ResetOrDisconnect \/ UNCHANGED vars
  BY <1>7, <1>9 DEF SetConf, ResetOrDisconnect, vars
<1> QED
  BY <1>1, <1>2, <1>3, <1>4, <1>5, <1>6, <1>8, <1>9 DEF Next

LEMMA BootLayoutStep ==
  ASSUME Typed, Typed', SwitchOnWay, BootLayout, [Next]_vars
  PROVE  BootLayout'
<1>1. CASE BootSync
  BY <1>1 DEF BootSync, BootLayout
<1>2. ASSUME switch' # NoSwitch PROVE BootLayout'
  BY <1>2 DEF BootLayout
<1>3. CASE DataOnly
  BY <1>2, <1>3 DEF DataOnly, NoSwitch
<1>4. ASSUME NEW m \in Modes, ModeCommand(m) PROVE BootLayout'
  BY <1>2, <1>4 DEF ModeCommand, NoSwitch
<1>5. ASSUME NEW c \in Channels, CreateChannel(c) PROVE BootLayout'
  <2>1. switch \in Switches
    BY <1>5, NextInTodo DEF CreateChannel
  <2>2. switch'.by = switch.by /\ switch.by # "nobody"
    BY <1>5, <2>1 DEF CreateChannel, Switches
  <2> QED
    BY <1>2, <2>2 DEF NoSwitch
<1>6. ASSUME NEW c \in Channels, CreateFails(c) PROVE BootLayout'
  <2>1. switch # NoSwitch
    BY <1>6, NextInTodo DEF CreateFails
  <2>2. app' = (IF switch.by # "app" THEN app ELSE "hung") /\ early' = early
    BY <1>6 DEF CreateFails, AppAfter
  <2> QED
    BY <2>1, <2>2 DEF SwitchOnWay, WholeSwitch, DataOnlySwitch, BootLayout
<1>7. CASE Announce
  <2>1. switch # NoSwitch /\ switch.todo = {} /\ early' = early /\ chan' = chan
    BY <1>7 DEF Announce
  <2>2. app' = IF switch.by # "app" THEN app
               ELSE IF app = "boot" THEN "connect" ELSE "poll"
    BY <1>7 DEF Announce, AppAfter
  <2>3. CASE WholeSwitch /\ \A c \in Channels \ switch.todo :
                               chan[c] = Layout(switch.layout)[c]
    BY <2>1, <2>2, <2>3 DEF WholeSwitch, BootLayout
  <2>4. CASE DataOnlySwitch
    BY <2>1, <2>2, <2>4 DEF DataOnlySwitch, BootLayout
  <2> QED
    BY <2>1, <2>3, <2>4 DEF SwitchOnWay
<1>8. ASSUME chan' = chan, switch' = switch, app' = app, early' = early PROVE BootLayout'
  BY <1>8 DEF BootLayout
<1>9. CASE NoMemory \/ DataTxBegin \/ DataTxEnd \/ DataSink
  BY <1>8, <1>9 DEF NoMemory, DataTxBegin, DataTxEnd, DataSink
<1>10. CASE SetConf \/ ResetOrDisconnect \/ UNCHANGED vars
  BY <1>8, <1>10 DEF SetConf, ResetOrDisconnect, vars
<1> QED
  BY <1>1, <1>3, <1>4, <1>5, <1>6, <1>7, <1>9, <1>10 DEF Next

LEMMA ModeHonestStep ==
  ASSUME Typed, Typed', SwitchOnWay, ModeHonest, [Next]_vars
  PROVE  ModeHonest'
<1>1. ASSUME switch' # NoSwitch PROVE ModeHonest'
  BY <1>1 DEF ModeHonest
<1>2. CASE BootSync \/ DataOnly
  BY <1>1, <1>2 DEF BootSync, DataOnly, NoSwitch
<1>3. ASSUME NEW m \in Modes, ModeCommand(m) PROVE ModeHonest'
  BY <1>1, <1>3 DEF ModeCommand, NoSwitch
<1>4. ASSUME NEW c \in Channels, CreateChannel(c) PROVE ModeHonest'
  <2>1. switch \in Switches
    BY <1>4, NextInTodo DEF CreateChannel
  <2>2. switch'.by = switch.by /\ switch.by # "nobody"
    BY <1>4, <2>1 DEF CreateChannel, Switches
  <2> QED
    BY <1>1, <2>2 DEF NoSwitch
<1>5. ASSUME NEW c \in Channels, CreateFails(c) PROVE ModeHonest'
  BY <1>5 DEF CreateFails, ModeHonest
<1>6. CASE Announce
  <2>1. /\ switch # NoSwitch /\ switch.todo = {} /\ early' = early /\ chan' = chan
        /\ mode' = switch.announce
    BY <1>6 DEF Announce
  <2>2. CASE WholeSwitch /\ \A c \in Channels \ switch.todo :
                               chan[c] = Layout(switch.layout)[c]
    BY <2>1, <2>2 DEF WholeSwitch, ModeHonest, Named
  <2>3. CASE /\ DataOnlySwitch
             /\ \A c \in DataChannels \ switch.todo : chan[c] = Layout("NORMAL")[c]
             /\ ~early => \A c \in Channels \ DataChannels :
                            chan[c] = Layout("SYNC")[c]
    <3>1. mode' = "SYNC" /\ \A c \in DataChannels : chan'[c] = Layout("NORMAL")[c]
      BY <2>1, <2>3 DEF DataOnlySwitch
    <3>2. ~early' => \A c \in Channels \ DataChannels : chan'[c] = Layout("SYNC")[c]
      BY <2>1, <2>3
    <3> QED
      BY <3>1, <3>2 DEF ModeHonest, Named
  <2> QED
    BY <2>1, <2>2, <2>3 DEF SwitchOnWay
<1>7. ASSUME UNCHANGED <<chan, switch, short, early, mode>> PROVE ModeHonest'
  BY <1>7 DEF ModeHonest, Named
<1>8. CASE NoMemory \/ DataTxBegin \/ DataTxEnd \/ DataSink
  BY <1>7, <1>8 DEF NoMemory, DataTxBegin, DataTxEnd, DataSink
<1>9. CASE SetConf \/ ResetOrDisconnect \/ UNCHANGED vars
  BY <1>7, <1>9 DEF SetConf, ResetOrDisconnect, vars
<1> QED
  BY <1>2, <1>3, <1>4, <1>5, <1>6, <1>8, <1>9 DEF Next

-----------------------------------------------------------------------------
(* Memory runs out only for the blocks of the test commands.               *)

\* The heap is short by what the blocks hold beyond the spare room.
LEMMA Shortage ==
  ASSUME Typed, HeapExact, NEW u \in Nat, NEW h \in Nat,
         Held(Channels) + h <= AllUnits, u > free, u <= h + BlockUnits,
         dataTx => u <= h
  PROVE  BlockUnits * (leaked + 1) > HeapUnits - AllUnits
<1>1. /\ free \in Nat /\ Held(Channels) \in Nat /\ AllUnits \in Nat
      /\ BlockUnits * leaked \in Nat /\ HeapUnits \in Nat /\ BlockUnits \in Nat
      /\ BlockUnits * (leaked + 1) = BlockUnits * leaked + BlockUnits
      /\ BlockUnits * (leaked + 0) = BlockUnits * leaked
  BY HeldFacts, BlockStep, UnitsAssumption DEF Typed, AllUnits
<1>2. CASE dataTx
  <2>1. free + Held(Channels) + BlockUnits * leaked + BlockUnits = HeapUnits
    BY <1>1, <1>2 DEF HeapExact
  <2> QED
    BY <1>1, <1>2, <2>1
<1>3. CASE ~dataTx
  <2>1. free + Held(Channels) + BlockUnits * leaked = HeapUnits
    BY <1>1, <1>3 DEF HeapExact
  <2> QED
    BY <1>1, <2>1
<1> QED
  BY <1>2, <1>3

LEMMA DeadLateStep ==
  ASSUME Typed, Typed', HeapExact, DeadLate, [Next]_vars
  PROVE  DeadLate'
<1>1. CASE NoMemory
  <2>1. BlockUnits > free /\ ~dataTx /\ leaked' = leaked
    BY <1>1 DEF NoMemory, Commanded
  <2>2. BlockUnits * (leaked + 1) > HeapUnits - AllUnits
    <3>1. Held(Channels) + 0 <= AllUnits /\ BlockUnits \in Nat /\ BlockUnits <= 0 + BlockUnits
      BY HeldFacts, UnitsAssumption DEF AllUnits
    <3> QED
      BY <2>1, <3>1, Shortage
  <2> QED
    BY <2>1, <2>2 DEF DeadLate
<1>2. ASSUME dead' = FALSE PROVE DeadLate'
  BY <1>2 DEF DeadLate
<1>3. ASSUME dead' = dead, leaked' = leaked PROVE DeadLate'
  BY <1>3 DEF DeadLate
<1>4. CASE DataSink
  BY <1>4 DEF DataSink, Commanded, Quiet, DeadLate
<1>5. CASE BootSync \/ DataOnly
  BY <1>3, <1>5 DEF BootSync, DataOnly
<1>6. ASSUME NEW m \in Modes, ModeCommand(m) PROVE DeadLate'
  BY <1>3, <1>6 DEF ModeCommand
<1>7. ASSUME NEW c \in Channels, CreateChannel(c) \/ CreateFails(c) PROVE DeadLate'
  BY <1>3, <1>7 DEF CreateChannel, CreateFails
<1>8. CASE Announce \/ DataTxBegin \/ DataTxEnd
  BY <1>3, <1>8 DEF Announce, DataTxBegin, DataTxEnd
<1>9. CASE SetConf \/ ResetOrDisconnect \/ UNCHANGED vars
  BY <1>3, <1>9 DEF SetConf, ResetOrDisconnect, vars
<1> QED
  BY <1>1, <1>4, <1>5, <1>6, <1>7, <1>8, <1>9 DEF Next

\* A channel that cannot be created is not there: the others leave it room.
LEMMA ShortStep ==
  ASSUME Typed, HeapExact, TodoOpen, [Next]_vars, short' /\ ~short
  PROVE  BlockUnits * (leaked + 1) > HeapUnits - AllUnits
<1>1. PICK c \in Channels : CreateFails(c)
  <2>1. CASE BootSync \/ DataOnly
    BY <2>1 DEF BootSync, DataOnly
  <2>2. ASSUME NEW m \in Modes, ModeCommand(m) PROVE FALSE
    BY <2>2 DEF ModeCommand
  <2>3. ASSUME NEW c \in Channels, CreateChannel(c) PROVE FALSE
    BY <2>3 DEF CreateChannel
  <2>4. CASE Announce
    BY <2>4 DEF Announce
  <2>5. CASE NoMemory \/ DataTxBegin \/ DataTxEnd \/ DataSink
    BY <2>5 DEF NoMemory, DataTxBegin, DataTxEnd, DataSink
  <2>6. CASE SetConf \/ ResetOrDisconnect \/ UNCHANGED vars
    BY <2>6 DEF SetConf, ResetOrDisconnect, vars
  <2> QED
    BY <2>1, <2>2, <2>3, <2>4, <2>5, <2>6 DEF Next
<1>2. switch # NoSwitch /\ c \in switch.todo /\ Units(c) > free
  BY <1>1, NextInTodo DEF CreateFails
<1>3. HeldBy(c) = 0
  BY <1>2 DEF TodoOpen, HeldBy
<1>4. \A d \in Channels : HeldBy(d) \in Nat /\ HeldBy(d) <= Units(d) /\ Units(d) \in Nat
  BY HeldFacts, UnitsFacts
<1>5. Held(Channels) + Units(c) <= AllUnits
  <2>1. /\ HeldBy("ControlOut") \in Nat /\ HeldBy("ControlIn") \in Nat
        /\ HeldBy("DataOut") \in Nat /\ HeldBy("DataIn") \in Nat
        /\ HeldBy("ControlOut") <= ControlUnits /\ HeldBy("ControlIn") <= ControlUnits
        /\ HeldBy("DataOut") <= DataUnits /\ HeldBy("DataIn") <= DataUnits
    BY <1>4, UnitsFacts DEF Channels
  <2> USE <1>3, <2>1, HeldFacts, UnitsFacts, UnitsAssumption DEF AllUnits
  <2>2. CASE c = "ControlOut"
    BY <2>2
  <2>3. CASE c = "ControlIn"
    BY <2>3
  <2>4. CASE c = "DataOut"
    BY <2>4
  <2>5. CASE c = "DataIn"
    BY <2>5
  <2> QED
    BY <2>2, <2>3, <2>4, <2>5 DEF Channels
<1>6. Units(c) \in Nat /\ Units(c) <= Units(c) + BlockUnits
  BY UnitsFacts, UnitsAssumption
<1> QED
  BY <1>2, <1>5, <1>6, Shortage

-----------------------------------------------------------------------------
(* The theorems.                                                           *)

LEMMA InitInv == Init => Inv
<1> SUFFICES ASSUME Init PROVE Inv
  OBVIOUS
<1>1. Typed
  BY InitTyped
<1>2. HeapExact
  <2>1. \A c \in Channels : HeldBy(c) = 0
    BY DEF Init, HeldBy
  <2>2. Held(Channels) = 0
    BY <1>1, <2>1, HeldFacts DEF Channels
  <2>3. BlockUnits * (0 + 0) = 0
    BY UnitsAssumption
  <2> QED
    BY <2>2, <2>3, UnitsAssumption DEF HeapExact, Init
<1>3. TodoOpen /\ SwitchOnWay /\ BootLayout
  BY DEF Init, TodoOpen, SwitchOnWay, BootLayout
<1>4. ModeHonest /\ DeadLate
  BY DEF Init, ModeHonest, DeadLate
<1> QED
  BY <1>1, <1>2, <1>3, <1>4 DEF Inv

LEMMA StepInv == Inv /\ [Next]_vars => Inv'
<1> SUFFICES ASSUME Inv, [Next]_vars PROVE Inv'
  OBVIOUS
<1>1. Typed /\ HeapExact /\ TodoOpen /\ SwitchOnWay /\ BootLayout /\ ModeHonest /\ DeadLate
  BY DEF Inv
<1>2. Typed'
  BY <1>1, StepTyped
<1> QED
  BY <1>1, <1>2, HeapExactStep, TodoOpenStep, SwitchOnWayStep, BootLayoutStep,
     ModeHonestStep, DeadLateStep DEF Inv

LEMMA InvInvariant == Spec => []Inv
BY InitInv, StepInv, PTL DEF Spec

(* The types are right; free never exceeds the heap.                       *)
THEOREM TypeCorrect == Spec => []TypeOK
<1>1. ASSUME Inv PROVE TypeOK
  <2>1. Typed /\ free + Held(Channels) + Blocks = HeapUnits
    BY <1>1, HeapExactBlocks DEF Inv
  <2>2. Held(Channels) \in Nat /\ Blocks \in Nat
    BY <2>1, HeldFacts, BlockStep, UnitsAssumption DEF Typed, Blocks, AllUnits
  <2>3. free \in 0..HeapUnits
    BY <2>1, <2>2, UnitsAssumption DEF Typed
  <2> QED
    BY <2>1, <2>3 DEF Typed, TypeOK
<1> QED
  BY <1>1, InvInvariant, PTL

(* No unit of the buffer heap is lost or counted twice: createChannel,     *)
(* channelReset and the test commands, in any order and for a heap and     *)
(* buffers of any size.                                                    *)
THEOREM HeapCorrect == Spec => []HeapExact
<1>1. Inv => HeapExact
  BY DEF Inv
<1> QED
  BY <1>1, InvInvariant, PTL

(* Dma.Mode_ names the channels of dma.c whenever no switch is under way,  *)
(* failed, or came before DMA_Normal_DataOnly.                             *)
THEOREM ModeCorrect == Spec => []ModeHonest
<1>1. Inv => ModeHonest
  BY DEF Inv
<1> QED
  BY <1>1, InvInvariant, PTL

(* A mode switch runs out of memory only when test commands hold what the  *)
(* heap has beyond the four channels.                                      *)
THEOREM SwitchCorrect == Spec => SwitchSucceeds
<1>1. Inv /\ [Next]_vars
        => [short' /\ ~short => BlockUnits * (leaked + 1) > HeapUnits - AllUnits]_vars
  BY ShortStep DEF Inv
<1> QED
  BY <1>1, InvInvariant, PTL DEF Spec, SwitchSucceeds

(* A test command writes through a NULL pointer only then, too.            *)
THEOREM DeadCorrect == Spec => []DeadLate
<1>1. Inv => DeadLate
  BY DEF Inv
<1> QED
  BY <1>1, InvInvariant, PTL
=============================================================================
