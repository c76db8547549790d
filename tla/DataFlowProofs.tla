-------------------------- MODULE DataFlowProofs --------------------------
(***************************************************************************)
(* Proofs about the data flow.                                             *)
(*                                                                         *)
(* Its actions are those of DmaModes with their data, or leave the         *)
(* variables of DmaModes alone (StepImplements); so what DmaModesProofs    *)
(* proves of DmaModes may be used here.                                    *)
(*                                                                         *)
(* Three invariants carry the theorems.  SourceInv counts the buffers of   *)
(* the source during and after the preload.  FlowInv puts every packet in  *)
(* the line of its receiver: one line per layout of the channels, and what *)
(* is not in a line is empty.  Few counts what is left of a session.       *)
(***************************************************************************)
EXTENDS DataFlow, DmaModesProofs, FiniteSetTheorems, TLAPS

\* A step on the channels is one of DmaModes.
LEMMA SwitchingStep == Switching => Next
  BY DEF Switching, Next

LEMMA OtherStepStep == OtherStep => Next
  BY DEF OtherStep, Next

LEMMA EventStep == Configured \/ Stopped => Next
  BY DEF Configured, Stopped, Next

\* A step on the data alone leaves the channels alone.
LEMMA SourceStep ==
  FillGet \/ FillSet \/ FillCommit \/ TakeSource \/ SourceCallback => UNCHANGED vars
  BY DEF FillGet, FillSet, FillCommit, TakeSource, SourceCallback

LEMMA ModemStep ==
  HostSend \/ ProduceOut \/ CpuSend \/ ModemTake
    \/ (\E c \in DataChannels : Callback(c)) => UNCHANGED vars
  BY DEF HostSend, ProduceOut, CpuSend, ModemTake, Callback

LEMMA HostStep ==
  ModemSend \/ CpuReceive \/ ToEndpoint \/ HostReceive => UNCHANGED vars
  BY DEF ModemSend, CpuReceive, ToEndpoint, HostReceive

LEMMA ClearStep == ClearOut \/ ClearIn => UNCHANGED vars
  BY DEF ClearOut, ClearIn

LEMMA StepImplements == [DataNext]_<<vars, flowVars>> => [Next]_vars
  <1> SUFFICES ASSUME [DataNext]_<<vars, flowVars>> PROVE Next \/ UNCHANGED vars
    OBVIOUS
  <1>1. CASE UNCHANGED <<vars, flowVars>>
    BY <1>1
  <1>2. CASE Switching \/ OtherStep \/ Configured \/ Stopped
    BY <1>2, SwitchingStep, OtherStepStep, EventStep
  <1>3. CASE FillGet \/ FillSet \/ FillCommit \/ TakeSource \/ SourceCallback
    BY <1>3, SourceStep
  <1>4. CASE HostSend \/ ProduceOut \/ CpuSend \/ ModemTake
               \/ \E c \in DataChannels : Callback(c)
    BY <1>4, ModemStep
  <1>5. CASE ModemSend \/ CpuReceive \/ ToEndpoint \/ HostReceive
    BY <1>5, HostStep
  <1>6. CASE ClearOut \/ ClearIn
    BY <1>6, ClearStep
  <1> QED
    BY <1>1, <1>2, <1>3, <1>4, <1>5, <1>6 DEF DataNext

\* By the form of its actions, so that what is proved of DmaModes holds here.
LEMMA ModesHold == DataSpec => Spec
  <1>1. DataInit => Init
    BY DEF DataInit
  <1> QED
    BY <1>1, StepImplements, PTL DEF DataSpec, Spec

-----------------------------------------------------------------------------
(* Sequences.                                                              *)

LEMMA EmptySequence ==
  ASSUME NEW S
  PROVE  << >> \in Seq(S) /\ Len(<< >>) = 0 /\ DOMAIN << >> = {}
OBVIOUS

LEMMA AppendFacts ==
  ASSUME NEW S, NEW s \in Seq(S), NEW x \in S
  PROVE  /\ Append(s, x) \in Seq(S) /\ Len(Append(s, x)) = Len(s) + 1
         /\ DOMAIN Append(s, x) = 1..(Len(s) + 1)
         /\ \A i \in DOMAIN s : i \in Nat /\ i < Len(s) + 1 /\ Append(s, x)[i] = s[i]
         /\ \A i \in DOMAIN Append(s, x) : i = Len(s) + 1 \/ i \in DOMAIN s
         /\ Append(s, x)[Len(s) + 1] = x
OBVIOUS

LEMMA TailFacts ==
  ASSUME NEW S, NEW s \in Seq(S), s # << >>
  PROVE  /\ Len(s) \in Nat \ {0}
         /\ Head(s) \in S /\ 1 \in DOMAIN s /\ Head(s) = s[1]
         /\ Tail(s) \in Seq(S) /\ Len(Tail(s)) = Len(s) - 1
         /\ \A i \in DOMAIN Tail(s) :
              i \in Nat \ {0} /\ i + 1 \in DOMAIN s /\ Tail(s)[i] = s[i + 1]
OBVIOUS

LEMMA ElementsAppend ==
  ASSUME NEW S, NEW s \in Seq(S), NEW x \in S
  PROVE  Elements(Append(s, x)) = Elements(s) \cup {x}
BY AppendFacts DEF Elements

LEMMA ElementsTail ==
  ASSUME NEW S, NEW s \in Seq(S), s # << >>
  PROVE  Head(s) \in Elements(s) /\ Elements(Tail(s)) \subseteq Elements(s)
BY TailFacts DEF Elements

-----------------------------------------------------------------------------
(* Types.                                                                  *)

LineTyped ==
  /\ outEp \in Seq(Packets) /\ Len(outEp) <= EpDepth
  /\ inEp \in Seq(Packets \cup {Source}) /\ Len(inEp) <= EpDepth
  /\ raised \in [DataChannels -> Seq(Packets)]
  /\ queue \in [DataChannels -> Seq(Packets)]
  /\ \A c \in DataChannels : Len(raised[c]) + Len(queue[c]) <= DataBufs

SourceTyped ==
  /\ given \in Seq(Buffers) /\ idle \in Seq(Buffers)
  /\ Len(given) + Len(idle) = DataBufs
  /\ pattern \subseteq Buffers
  /\ events \in Nat
  /\ fill \in [at : {"get", "set", "commit"}, buf : Buffers, index : 0..DataBufs]

GhostTyped ==
  /\ {sent, mark, stopped, last.modem, last.host} \subseteq 0..MaxSends
  /\ last \in [modem : 0..MaxSends, host : 0..MaxSends]
  /\ cleared \in BOOLEAN /\ raced \in BOOLEAN

FlowTyped == LineTyped /\ SourceTyped /\ GhostTyped

LEMMA FlowTypedOK == TypeOK /\ FlowTyped => FlowTypeOK
BY DEF FlowTyped, LineTyped, SourceTyped, GhostTyped, FlowTypeOK

LEMMA RingTyped == Ring \in Seq(Buffers) /\ Len(Ring) = DataBufs /\ FillBegin.index = 0
  /\ FillBegin \in [at : {"get", "set", "commit"}, buf : Buffers, index : 0..DataBufs]
<1>1. DataBufs \in Nat /\ 1 \in Buffers /\ 0 \in 0..DataBufs
  BY FlowAssumption DEF Buffers
<1>2. Ring \in [1..DataBufs -> Buffers]
  BY DEF Ring, Buffers
<1>3. Ring \in Seq(Buffers) /\ Len(Ring) = DataBufs
  BY <1>1, <1>2
<1> QED
  BY <1>1, <1>3 DEF FillBegin

LEMMA NoDataTyped ==
  /\ NoData \in [DataChannels -> Seq(Packets)]
  /\ \A c \in DataChannels : NoData[c] = << >>
BY DEF NoData

LEMMA InitFlowTyped == DataInit => FlowTyped
<1> SUFFICES ASSUME DataInit PROVE FlowTyped
  OBVIOUS
<1>1. 0 \in 0..MaxSends /\ EpDepth \in Nat /\ DataBufs \in Nat
  BY FlowAssumption
<1>2. LineTyped
  BY <1>1, NoDataTyped, EmptySequence DEF DataInit, LineTyped
<1>3. SourceTyped
  BY <1>1, RingTyped, EmptySequence DEF DataInit, SourceTyped
<1>4. GhostTyped
  BY <1>1 DEF DataInit, GhostTyped
<1> QED
  BY <1>2, <1>3, <1>4 DEF FlowTyped

\* A channel's buffers after a packet has gone from one place to another.
LEMMA ExceptTyped ==
  ASSUME NEW f \in [DataChannels -> Seq(Packets)], NEW c \in DataChannels,
         NEW s \in Seq(Packets)
  PROVE  /\ [f EXCEPT ![c] = s] \in [DataChannels -> Seq(Packets)]
         /\ [f EXCEPT ![c] = s][c] = s
         /\ \A d \in DataChannels \ {c} : [f EXCEPT ![c] = s][d] = f[d]
OBVIOUS

LEMMA NewSend == GhostTyped /\ Send => /\ sent' = sent + 1 /\ sent' \in Packets
                                       /\ sent' \in 0..MaxSends
BY FlowAssumption DEF GhostTyped, Send, Packets

LEMMA NewChannelsTyped == FlowTyped /\ NewChannels /\ FlushEps => FlowTyped'
<1> SUFFICES ASSUME FlowTyped, NewChannels, FlushEps PROVE FlowTyped'
  OBVIOUS
<1>1. 0 \in 0..MaxSends /\ EpDepth \in Nat /\ DataBufs \in Nat
  BY FlowAssumption
<1>2. LineTyped'
  BY <1>1, NoDataTyped, EmptySequence DEF NewChannels, FlushEps, LineTyped
<1>3. SourceTyped'
  BY <1>1, RingTyped, EmptySequence DEF NewChannels, SourceTyped
<1>4. GhostTyped'
  BY DEF FlowTyped, GhostTyped, NewChannels
<1> QED
  BY <1>2, <1>3, <1>4 DEF FlowTyped

LEMMA StopTyped == FlowTyped /\ Stop => FlowTyped'
<1> SUFFICES ASSUME FlowTyped, Stop PROVE FlowTyped'
  OBVIOUS
<1>1. EpDepth \in Nat
  BY FlowAssumption
<1>2. LineTyped'
  BY <1>1, EmptySequence DEF Stop, FlushEps, FlowTyped, LineTyped
<1>3. SourceTyped'
  BY DEF Stop, FlowTyped, SourceTyped, sourceVars
<1>4. GhostTyped'
  BY DEF Stop, FlowTyped, GhostTyped
<1> QED
  BY <1>2, <1>3, <1>4 DEF FlowTyped

LEMMA FlowUnchanged == FlowTyped /\ UNCHANGED flowVars => FlowTyped'
BY DEF FlowTyped, LineTyped, SourceTyped, GhostTyped, flowVars, lineVars, sourceVars

LEMMA FillTyped ==
  FlowTyped /\ (FillGet \/ FillSet \/ FillCommit \/ SourceCallback) => FlowTyped'
<1> SUFFICES ASSUME FlowTyped, FillGet \/ FillSet \/ FillCommit \/ SourceCallback
             PROVE  FlowTyped'
  OBVIOUS
<1>1. LineTyped' /\ GhostTyped'
  BY DEF FlowTyped, LineTyped, GhostTyped, FillGet, FillSet, FillCommit, SourceCallback,
         lineVars
<1>2. SourceTyped
  BY DEF FlowTyped
<1>3. ASSUME Commit, idle # << >>
      PROVE  /\ given' \in Seq(Buffers) /\ idle' \in Seq(Buffers)
             /\ Len(given') + Len(idle') = DataBufs
  <2>1. Head(idle) \in Buffers /\ Tail(idle) \in Seq(Buffers) /\ Len(Tail(idle)) = Len(idle) - 1
    BY <1>2, <1>3, TailFacts DEF SourceTyped
  <2>2. Append(given, Head(idle)) \in Seq(Buffers)
        /\ Len(Append(given, Head(idle))) = Len(given) + 1
    BY <1>2, <2>1, AppendFacts DEF SourceTyped
  <2>3. Len(given) \in Nat /\ Len(idle) \in Nat /\ Len(given) + Len(idle) = DataBufs
    BY <1>2 DEF SourceTyped
  <2> QED
    BY <1>3, <2>1, <2>2, <2>3 DEF Commit
<1>4. CASE FillGet
  <2>1. Head(idle) \in Buffers
    BY <1>2, <1>4, TailFacts DEF SourceTyped, FillGet
  <2>2. fill' \in [at : {"get", "set", "commit"}, buf : Buffers, index : 0..DataBufs]
    BY <1>2, <1>4, <2>1 DEF SourceTyped, FillGet
  <2> QED
    BY <1>1, <1>2, <1>4, <2>2 DEF FlowTyped, SourceTyped, FillGet
<1>5. CASE FillSet
  <2>1. fill' \in [at : {"get", "set", "commit"}, buf : Buffers, index : 0..DataBufs]
    BY <1>2, <1>5 DEF SourceTyped, FillSet
  <2>2. pattern' \subseteq Buffers
    BY <1>2, <1>5 DEF SourceTyped, FillSet
  <2> QED
    BY <1>1, <1>2, <1>5, <2>1, <2>2 DEF FlowTyped, SourceTyped, FillSet
<1>6. CASE FillCommit
  <2>1. fill.index \in 0..DataBufs /\ fill.index < DataBufs /\ DataBufs \in Nat
    BY <1>2, <1>6, FlowAssumption DEF SourceTyped, FillCommit, Filling
  <2>2. fill.index + 1 \in 0..DataBufs
    BY <2>1
  <2>3. fill' \in [at : {"get", "set", "commit"}, buf : Buffers, index : 0..DataBufs]
    BY <1>2, <1>6, <2>2 DEF SourceTyped, FillCommit
  <2> QED
    BY <1>1, <1>2, <1>3, <1>6, <2>3 DEF FlowTyped, SourceTyped, FillCommit
<1>7. CASE SourceCallback
  <2>1. events' \in Nat
    BY <1>2, <1>7 DEF SourceTyped, SourceCallback
  <2> QED
    BY <1>1, <1>2, <1>3, <1>7, <2>1 DEF FlowTyped, SourceTyped, SourceCallback
<1> QED
  BY <1>4, <1>5, <1>6, <1>7

LEMMA TakeSourceTyped == FlowTyped /\ TakeSource => FlowTyped'
<1> SUFFICES ASSUME FlowTyped, TakeSource PROVE FlowTyped'
  OBVIOUS
<1>1. LineTyped /\ SourceTyped /\ GhostTyped
  BY DEF FlowTyped
<1>2. LineTyped'
  <2>1. Len(inEp) < EpDepth /\ Len(inEp) \in Nat /\ EpDepth \in Nat
    BY <1>1, FlowAssumption DEF TakeSource, LineTyped
  <2>2. inEp' \in Seq(Packets \cup {Source}) /\ Len(inEp') <= EpDepth
    BY <1>1, <2>1, AppendFacts DEF TakeSource, LineTyped
  <2> QED
    BY <1>1, <2>2 DEF TakeSource, LineTyped
<1>3. SourceTyped'
  <2>1. Head(given) \in Buffers /\ Tail(given) \in Seq(Buffers)
        /\ Len(Tail(given)) = Len(given) - 1
    BY <1>1, TailFacts DEF TakeSource, SourceTyped
  <2>2. Append(idle, Head(given)) \in Seq(Buffers)
        /\ Len(Append(idle, Head(given))) = Len(idle) + 1
    BY <1>1, <2>1, AppendFacts DEF SourceTyped
  <2>3. Len(given) \in Nat /\ Len(idle) \in Nat /\ Len(given) + Len(idle) = DataBufs
    BY <1>1 DEF SourceTyped
  <2>4. Len(given') + Len(idle') = DataBufs
    BY <2>1, <2>2, <2>3 DEF TakeSource
  <2>5. events' \in Nat
    BY <1>1 DEF TakeSource, SourceTyped
  <2> QED
    BY <1>1, <2>1, <2>2, <2>4, <2>5 DEF TakeSource, SourceTyped
<1>4. GhostTyped'
  BY <1>1 DEF TakeSource, GhostTyped
<1> QED
  BY <1>2, <1>3, <1>4 DEF FlowTyped

LEMMA ClearTyped == FlowTyped /\ (ClearOut \/ ClearIn) => FlowTyped'
<1> SUFFICES ASSUME FlowTyped, ClearOut \/ ClearIn PROVE FlowTyped'
  OBVIOUS
<1>1. LineTyped /\ SourceTyped /\ GhostTyped
  BY DEF FlowTyped
<1>2. EpDepth \in Nat /\ DataBufs \in Nat
  BY FlowAssumption
<1>3. << >> \in Seq(Packets) /\ << >> \in Seq(Packets \cup {Source}) /\ Len(<< >>) = 0
  BY EmptySequence
<1>4. ASSUME NEW c \in DataChannels,
             raised' = [raised EXCEPT ![c] = << >>], queue' = [queue EXCEPT ![c] = << >>]
      PROVE  /\ raised' \in [DataChannels -> Seq(Packets)]
             /\ queue' \in [DataChannels -> Seq(Packets)]
             /\ \A d \in DataChannels : Len(raised'[d]) + Len(queue'[d]) <= DataBufs
  BY <1>1, <1>2, <1>3, <1>4, ExceptTyped DEF LineTyped
<1>5. GhostTyped'
  BY <1>1 DEF GhostTyped, ClearOut, ClearIn
<1>6. CASE ClearOut
  BY <1>1, <1>2, <1>3, <1>4, <1>5, <1>6
     DEF ClearOut, FlowTyped, LineTyped, SourceTyped, sourceVars, DataChannels
<1>7. CASE ClearIn
  <2>1. LineTyped'
    BY <1>1, <1>2, <1>3, <1>4, <1>7 DEF ClearIn, LineTyped, DataChannels
  <2>2. SourceTyped'
    BY <1>1, <1>2, <1>7, RingTyped, EmptySequence DEF ClearIn, SourceTyped
  <2> QED
    BY <1>5, <2>1, <2>2 DEF FlowTyped
<1> QED
  BY <1>6, <1>7

LEMMA SourceSame == SourceTyped /\ UNCHANGED sourceVars => SourceTyped'
BY DEF SourceTyped, sourceVars

\* The packets of a channel, one more in a place or one less.
LEMMA PlaceTyped ==
  ASSUME LineTyped, NEW c \in DataChannels
  PROVE  /\ raised[c] \in Seq(Packets) /\ queue[c] \in Seq(Packets)
         /\ Len(raised[c]) \in Nat /\ Len(queue[c]) \in Nat
         /\ Len(raised[c]) + Len(queue[c]) <= DataBufs
BY DEF LineTyped

\* Places filled up to n, one more packet or one less in one of them.
LEMMA Arithmetic ==
  ASSUME NEW a \in Nat, NEW b \in Nat, NEW n \in Nat
  PROVE  /\ a + b < n => a + 1 + b <= n /\ a + (b + 1) <= n
         /\ a + b <= n => a + (b - 1) <= n /\ a - 1 + b <= n /\ a - 1 + (b + 1) <= n
OBVIOUS

LEMMA MoreTyped ==
  ASSUME LineTyped, NEW c \in DataChannels, NEW p \in Packets, Room(c)
  PROVE  LET r == [raised EXCEPT ![c] = Append(@, p)]
             q == [queue EXCEPT ![c] = Append(@, p)]
         IN  /\ r \in [DataChannels -> Seq(Packets)] /\ q \in [DataChannels -> Seq(Packets)]
             /\ \A d \in DataChannels :
                  Len(r[d]) + Len(queue[d]) <= DataBufs /\ Len(raised[d]) + Len(q[d]) <= DataBufs
<1> DEFINE r == [raised EXCEPT ![c] = Append(raised[c], p)]
           q == [queue EXCEPT ![c] = Append(queue[c], p)]
<1>0. raised[c] \in Seq(Packets) /\ queue[c] \in Seq(Packets)
  BY PlaceTyped
<1>1. /\ Append(raised[c], p) \in Seq(Packets) /\ Len(Append(raised[c], p)) = Len(raised[c]) + 1
      /\ Append(queue[c], p) \in Seq(Packets) /\ Len(Append(queue[c], p)) = Len(queue[c]) + 1
  BY <1>0, AppendFacts
<1>2. raised \in [DataChannels -> Seq(Packets)] /\ queue \in [DataChannels -> Seq(Packets)]
  BY DEF LineTyped
<1>3. /\ r \in [DataChannels -> Seq(Packets)] /\ r[c] = Append(raised[c], p)
      /\ \A d \in DataChannels \ {c} : r[d] = raised[d]
  BY <1>1, <1>2, ExceptTyped
<1>4. /\ q \in [DataChannels -> Seq(Packets)] /\ q[c] = Append(queue[c], p)
      /\ \A d \in DataChannels \ {c} : q[d] = queue[d]
  BY <1>1, <1>2, ExceptTyped
<1>5. Len(raised[c]) + Len(queue[c]) < DataBufs /\ DataBufs \in Nat
  BY FlowAssumption DEF Room
<1>6. ASSUME NEW d \in DataChannels
      PROVE  Len(r[d]) + Len(queue[d]) <= DataBufs /\ Len(raised[d]) + Len(q[d]) <= DataBufs
  <2>1. CASE d = c
    <3>1. Len(raised[c]) \in Nat /\ Len(queue[c]) \in Nat
      BY PlaceTyped
    <3>2. Len(r[c]) = Len(raised[c]) + 1 /\ Len(q[c]) = Len(queue[c]) + 1
      BY <1>1, <1>3, <1>4
    <3>3. /\ Len(raised[c]) + 1 + Len(queue[c]) <= DataBufs
          /\ Len(raised[c]) + (Len(queue[c]) + 1) <= DataBufs
      BY ONLY <1>5, <3>1, Arithmetic
    <3> HIDE DEF r, q
    <3>4. Len(r[c]) + Len(queue[c]) <= DataBufs /\ Len(raised[c]) + Len(q[c]) <= DataBufs
      BY ONLY <3>2, <3>3, Zenon
    <3> QED
      BY ONLY <2>1, <3>4, Zenon
  <2>2. CASE d # c
    BY <1>3, <1>4, <2>2, PlaceTyped
  <2> QED
    BY <2>1, <2>2
<1> QED
  BY <1>3, <1>4, <1>6

LEMMA LessTyped ==
  ASSUME LineTyped, NEW c \in DataChannels, queue[c] # << >>
  PROVE  LET q == [queue EXCEPT ![c] = Tail(@)]
         IN  /\ Head(queue[c]) \in Packets
             /\ q \in [DataChannels -> Seq(Packets)]
             /\ \A d \in DataChannels : Len(raised[d]) + Len(q[d]) <= DataBufs
<1> DEFINE q == [queue EXCEPT ![c] = Tail(queue[c])]
<1>1. /\ Head(queue[c]) \in Packets /\ Tail(queue[c]) \in Seq(Packets)
      /\ Len(Tail(queue[c])) = Len(queue[c]) - 1
  BY PlaceTyped, TailFacts
<1>2. queue \in [DataChannels -> Seq(Packets)]
  BY DEF LineTyped
<1>3. /\ q \in [DataChannels -> Seq(Packets)] /\ q[c] = Tail(queue[c])
      /\ \A d \in DataChannels \ {c} : q[d] = queue[d]
  BY <1>1, <1>2, ExceptTyped
<1>4. ASSUME NEW d \in DataChannels PROVE Len(raised[d]) + Len(q[d]) <= DataBufs
  <2>1. CASE d = c
    <3>1. /\ Len(raised[c]) \in Nat /\ Len(queue[c]) \in Nat
          /\ Len(raised[c]) + Len(queue[c]) <= DataBufs
      BY PlaceTyped
    <3>2. Len(q[c]) = Len(queue[c]) - 1 /\ DataBufs \in Nat
      BY <1>1, <1>3, FlowAssumption
    <3>3. Len(raised[c]) + (Len(queue[c]) - 1) <= DataBufs
      BY ONLY <3>1, <3>2, Arithmetic
    <3> HIDE DEF q
    <3>4. Len(raised[c]) + Len(q[c]) <= DataBufs
      BY ONLY <3>2, <3>3, Zenon
    <3> QED
      BY ONLY <2>1, <3>4, Zenon
  <2>2. CASE d # c
    BY <1>3, <2>2, PlaceTyped
  <2> QED
    BY <2>1, <2>2
<1> QED
  BY <1>1, <1>3, <1>4

LEMMA CallbackTyped ==
  ASSUME LineTyped, NEW c \in DataChannels, Callback(c)
  PROVE  LineTyped'
<1>1. /\ raised[c] \in Seq(Packets) /\ queue[c] \in Seq(Packets) /\ raised[c] # << >>
      /\ Len(raised[c]) \in Nat /\ Len(queue[c]) \in Nat
      /\ Len(raised[c]) + Len(queue[c]) <= DataBufs /\ DataBufs \in Nat
  BY PlaceTyped, FlowAssumption DEF Callback
<1>2. /\ Head(raised[c]) \in Packets /\ Tail(raised[c]) \in Seq(Packets)
      /\ Len(Tail(raised[c])) = Len(raised[c]) - 1
  BY <1>1, TailFacts
<1>3. /\ Append(queue[c], Head(raised[c])) \in Seq(Packets)
      /\ Len(Append(queue[c], Head(raised[c]))) = Len(queue[c]) + 1
  BY <1>1, <1>2, AppendFacts
<1>4. raised \in [DataChannels -> Seq(Packets)] /\ queue \in [DataChannels -> Seq(Packets)]
  BY DEF LineTyped
<1>5. /\ raised' \in [DataChannels -> Seq(Packets)] /\ raised'[c] = Tail(raised[c])
      /\ \A d \in DataChannels \ {c} : raised'[d] = raised[d]
  BY <1>2, <1>4, ExceptTyped DEF Callback
<1>6. /\ queue' \in [DataChannels -> Seq(Packets)]
      /\ queue'[c] \in {queue[c], Append(queue[c], Head(raised[c]))}
      /\ \A d \in DataChannels \ {c} : queue'[d] = queue[d]
  BY <1>3, <1>4, ExceptTyped DEF Callback
<1>7. ASSUME NEW d \in DataChannels PROVE Len(raised'[d]) + Len(queue'[d]) <= DataBufs
  <2>1. CASE d = c
    <3>1. Len(raised'[c]) = Len(raised[c]) - 1
          /\ Len(queue'[c]) \in {Len(queue[c]), Len(queue[c]) + 1}
      BY <1>2, <1>3, <1>5, <1>6
    <3>2. /\ Len(raised[c]) - 1 + Len(queue[c]) <= DataBufs
          /\ Len(raised[c]) - 1 + (Len(queue[c]) + 1) <= DataBufs
      BY ONLY <1>1, Arithmetic
    <3>3. Len(raised'[c]) + Len(queue'[c]) <= DataBufs
      BY ONLY <3>1, <3>2, Zenon
    <3> QED
      BY ONLY <2>1, <3>3, Zenon
  <2>2. CASE d # c
    BY <1>5, <1>6, <2>2, PlaceTyped
  <2> QED
    BY <2>1, <2>2
<1> QED
  BY <1>5, <1>6, <1>7 DEF LineTyped, Callback

LEMMA CallbackFlowTyped ==
  FlowTyped /\ (\E c \in DataChannels : Callback(c)) => FlowTyped'
<1> SUFFICES ASSUME FlowTyped, NEW c \in DataChannels, Callback(c) PROVE FlowTyped'
  OBVIOUS
<1>1. LineTyped'
  BY CallbackTyped DEF FlowTyped
<1>2. SourceTyped'
  BY SourceSame DEF FlowTyped, Callback
<1>3. GhostTyped'
  BY DEF FlowTyped, GhostTyped, Callback
<1> QED
  BY <1>1, <1>2, <1>3 DEF FlowTyped

LEMMA SendingTyped ==
  FlowTyped /\ (HostSend \/ CpuSend \/ ModemSend) => FlowTyped'
<1> SUFFICES ASSUME FlowTyped, HostSend \/ CpuSend \/ ModemSend PROVE FlowTyped'
  OBVIOUS
<1>1. LineTyped /\ SourceTyped /\ GhostTyped /\ Send
  BY DEF FlowTyped, HostSend, CpuSend, ModemSend
<1>2. sent' \in Packets /\ sent' \in 0..MaxSends
  BY <1>1, NewSend
<1>3. SourceTyped'
  BY <1>1, SourceSame DEF HostSend, CpuSend, ModemSend
<1>4. GhostTyped'
  BY <1>1, <1>2 DEF GhostTyped, HostSend, CpuSend, ModemSend
<1>5. CASE HostSend
  <2>1. Len(outEp) < EpDepth /\ Len(outEp) \in Nat /\ EpDepth \in Nat
    BY <1>1, <1>5, FlowAssumption DEF HostSend, LineTyped
  <2>2. outEp' \in Seq(Packets) /\ Len(outEp') <= EpDepth
    BY <1>1, <1>2, <1>5, <2>1, AppendFacts DEF HostSend, LineTyped
  <2> QED
    BY <1>1, <1>3, <1>4, <1>5, <2>2 DEF HostSend, LineTyped, FlowTyped
<1>6. CASE CpuSend
  BY <1>1, <1>2, <1>3, <1>4, <1>6, MoreTyped DEF CpuSend, LineTyped, FlowTyped, DataChannels
<1>7. CASE ModemSend
  BY <1>1, <1>2, <1>3, <1>4, <1>7, MoreTyped DEF ModemSend, LineTyped, FlowTyped, DataChannels
<1> QED
  BY <1>5, <1>6, <1>7

LEMMA ProduceTyped == FlowTyped /\ ProduceOut => FlowTyped'
<1> SUFFICES ASSUME FlowTyped, ProduceOut PROVE FlowTyped'
  OBVIOUS
<1>1. LineTyped /\ SourceTyped' /\ GhostTyped'
  BY SourceSame DEF FlowTyped, ProduceOut, GhostTyped
<1>2. Len(outEp) \in Nat /\ EpDepth \in Nat
  BY <1>1, FlowAssumption DEF LineTyped
<1>3. Head(outEp) \in Packets /\ outEp' \in Seq(Packets) /\ Len(outEp') <= EpDepth
  BY <1>1, <1>2, TailFacts DEF ProduceOut, LineTyped
<1> QED
  BY <1>1, <1>3, MoreTyped DEF ProduceOut, LineTyped, FlowTyped, DataChannels

LEMMA TakingTyped == FlowTyped /\ (ModemTake \/ CpuReceive) => FlowTyped'
<1> SUFFICES ASSUME FlowTyped, ModemTake \/ CpuReceive PROVE FlowTyped'
  OBVIOUS
<1>1. LineTyped /\ SourceTyped' /\ GhostTyped
  BY SourceSame DEF FlowTyped, ModemTake, CpuReceive
<1>2. CASE ModemTake
  <2>1. "DataOut" \in DataChannels /\ queue["DataOut"] # << >>
    BY <1>2 DEF ModemTake, DataChannels
  <2>2. Head(queue["DataOut"]) \in Packets
    BY <1>1, <2>1, LessTyped
  <2>3. Head(queue["DataOut"]) \in 0..MaxSends
    BY <2>2, FlowAssumption DEF Packets
  <2>4. GhostTyped'
    BY <1>1, <1>2, <2>3 DEF ModemTake, GhostTyped
  <2>5. LineTyped'
    BY <1>1, <1>2, <2>1, LessTyped DEF ModemTake, LineTyped
  <2> QED
    BY <1>1, <2>4, <2>5 DEF FlowTyped
<1>3. CASE CpuReceive
  <2>1. "DataIn" \in DataChannels /\ queue["DataIn"] # << >>
    BY <1>3 DEF CpuReceive, DataChannels
  <2>2. LineTyped'
    BY <1>1, <1>3, <2>1, LessTyped DEF CpuReceive, LineTyped
  <2> QED
    BY <1>1, <1>3, <2>2 DEF CpuReceive, GhostTyped, FlowTyped
<1> QED
  BY <1>2, <1>3

LEMMA ToEndpointTyped == FlowTyped /\ ToEndpoint => FlowTyped'
<1> SUFFICES ASSUME FlowTyped, ToEndpoint PROVE FlowTyped'
  OBVIOUS
<1>1. LineTyped /\ SourceTyped' /\ GhostTyped'
  BY SourceSame DEF FlowTyped, ToEndpoint, GhostTyped
<1>2. PICK c \in DataChannels : /\ queue[c] # << >>
                                /\ inEp' = Append(inEp, Head(queue[c]))
                                /\ queue' = [queue EXCEPT ![c] = Tail(@)]
  BY DEF ToEndpoint, Inward
<1>3. Len(inEp) < EpDepth /\ Len(inEp) \in Nat /\ EpDepth \in Nat
  BY <1>1, FlowAssumption DEF ToEndpoint, LineTyped
<1>4. Head(queue[c]) \in Packets \cup {Source}
  BY <1>1, <1>2, LessTyped
<1>5. inEp' \in Seq(Packets \cup {Source}) /\ Len(inEp') <= EpDepth
  BY <1>1, <1>2, <1>3, <1>4, AppendFacts DEF LineTyped
<1>6. LineTyped'
  BY <1>1, <1>2, <1>5, LessTyped DEF ToEndpoint, LineTyped
<1> QED
  BY <1>1, <1>6 DEF FlowTyped

LEMMA HostReceiveTyped == FlowTyped /\ HostReceive => FlowTyped'
<1> SUFFICES ASSUME FlowTyped, HostReceive PROVE FlowTyped'
  OBVIOUS
<1>1. LineTyped /\ SourceTyped' /\ GhostTyped
  BY SourceSame DEF FlowTyped, HostReceive
<1>2. Len(inEp) \in Nat /\ EpDepth \in Nat
  BY <1>1, FlowAssumption DEF LineTyped
<1>3. /\ Head(inEp) \in Packets \cup {Source}
      /\ inEp' \in Seq(Packets \cup {Source}) /\ Len(inEp') <= EpDepth
  BY <1>1, <1>2, TailFacts DEF HostReceive, LineTyped
<1>4. Head(inEp) \in 0..MaxSends
  BY <1>3, FlowAssumption DEF Packets, Source
<1>5. GhostTyped'
  BY <1>1, <1>4 DEF HostReceive, GhostTyped
<1>6. LineTyped'
  BY <1>1, <1>3 DEF HostReceive, LineTyped
<1> QED
  BY <1>1, <1>5, <1>6 DEF FlowTyped

LEMMA NextFlowTyped == FlowTyped /\ [DataNext]_<<vars, flowVars>> => FlowTyped'
<1> SUFFICES ASSUME FlowTyped, [DataNext]_<<vars, flowVars>> PROVE FlowTyped'
  OBVIOUS
<1>1. CASE UNCHANGED <<vars, flowVars>> \/ OtherStep
  BY <1>1, FlowUnchanged DEF OtherStep
<1>2. CASE Switching
  BY <1>2, NewChannelsTyped DEF Switching, RestartData
<1>3. CASE Configured \/ Stopped
  BY <1>3, StopTyped, FlowUnchanged DEF Configured, Stopped
<1>4. CASE FillGet \/ FillSet \/ FillCommit \/ TakeSource \/ SourceCallback
  BY <1>4, FillTyped, TakeSourceTyped
<1>5. CASE HostSend \/ ProduceOut \/ CpuSend \/ ModemTake
             \/ \E c \in DataChannels : Callback(c)
  BY <1>5, SendingTyped, ProduceTyped, TakingTyped, CallbackFlowTyped
<1>6. CASE ModemSend \/ CpuReceive \/ ToEndpoint \/ HostReceive
  BY <1>6, SendingTyped, TakingTyped, ToEndpointTyped, HostReceiveTyped
<1>7. CASE ClearOut \/ ClearIn
  BY <1>7, ClearTyped
<1> QED
  BY <1>1, <1>2, <1>3, <1>4, <1>5, <1>6, <1>7 DEF DataNext

(* Modes and heap are typed as in DmaModes whatever the data do.           *)
(* The endpoints and the buffers of a data channel hold packets only, and  *)
(* never more than they have room for; each buffer of the source is either *)
(* with the USB block or idle.                                             *)
THEOREM FlowTypeCorrect == DataSpec => []FlowTypeOK
<1>1. DataSpec => []FlowTyped
  BY InitFlowTyped, NextFlowTyped, PTL DEF DataSpec
<1> QED
  BY <1>1, ModesHold, TypeCorrect, FlowTypedOK, PTL

-----------------------------------------------------------------------------
(* The source.                                                             *)

\* A buffer filled is with the USB block or has an event; none fills twice.
SourceCounted ==
  /\ Len(given) + events <= fill.index
  /\ ~cleared => Len(given) + events = fill.index

Preloading == switch # NoSwitch /\ switch.todo = {} /\ switch.layout = "SINKSOURCE"

\* The preload comes last in its switch and fills every buffer.
SourceFilled ==
  /\ ~Preloading => fill.index \in {0, DataBufs}
  /\ switch # NoSwitch /\ ~Preloading => fill.index = 0
  /\ chan["DataIn"] = "CpuToUib" =>
       IF switch = NoSwitch THEN fill.index = DataBufs ELSE Preloading

\* The first n buffers are given, the others are idle.
FirstGiven(n) ==
  /\ given = [i \in 1..n |-> i]
  /\ idle = [i \in 1..(DataBufs - n) |-> n + i]

(* While nothing has disturbed the preload, the buffer GetBuffer returned  *)
(* is the one CommitBuffer will take.                                      *)
Unraced ==
  ~raced =>
    /\ fill.index = DataBufs => pattern = Buffers
    /\ switch # NoSwitch =>
         /\ events = 0 /\ FirstGiven(fill.index)
         /\ 1..fill.index \subseteq pattern
         /\ fill.at # "get" => fill.buf = fill.index + 1
         /\ fill.at = "commit" => fill.buf \in pattern

SourceInv == FlowTyped /\ Typed /\ SourceCounted /\ SourceFilled /\ Unraced

LEMMA SourceNumbers ==
  ASSUME SourceTyped
  PROVE  /\ DataBufs \in Nat \ {0} /\ fill.index \in 0..DataBufs /\ events \in Nat
         /\ fill.index \in Nat /\ fill.buf \in Buffers
         /\ Len(given) \in Nat /\ Len(idle) \in Nat /\ Len(given) + Len(idle) = DataBufs
         /\ idle = << >> <=> Len(idle) = 0
BY FlowAssumption DEF SourceTyped

LEMMA FirstNone ==
  /\ << >> = [i \in 1..0 |-> i]
  /\ Ring = [i \in 1..(DataBufs - 0) |-> 0 + i]
  /\ 1..0 = {}
<1>1. DataBufs \in Nat
  BY FlowAssumption
<1>2. DataBufs - 0 = DataBufs /\ \A i \in 1..DataBufs : 0 + i = i
  BY <1>1
<1>3. Ring = [i \in 1..(DataBufs - 0) |-> 0 + i]
  BY <1>2 DEF Ring, Buffers
<1>4. << >> = [i \in 1..0 |-> i] /\ 1..0 = {}
  OBVIOUS
<1> QED
  BY <1>3, <1>4

LEMMA FirstOneMore ==
  ASSUME NEW n \in Nat, n < DataBufs
  PROVE  /\ Append([i \in 1..n |-> i], n + 1) = [i \in 1..(n + 1) |-> i]
         /\ Head([i \in 1..(DataBufs - n) |-> n + i]) = n + 1
         /\ Tail([i \in 1..(DataBufs - n) |-> n + i])
              = [i \in 1..(DataBufs - (n + 1)) |-> (n + 1) + i]
<1>1. DataBufs \in Nat
  BY FlowAssumption
<1> DEFINE g == [i \in 1..n |-> i]
           d == [i \in 1..(DataBufs - n) |-> n + i]
<1>2. g \in Seq(Nat) /\ Len(g) = n
  OBVIOUS
<1>3. d \in Seq(Nat) /\ Len(d) = DataBufs - n /\ d # << >> /\ d[1] = n + 1
  BY <1>1
<1>4. Append(g, n + 1) = [i \in 1..(n + 1) |-> i]
  BY <1>2
<1>5. Tail(d) = [i \in 1..(DataBufs - (n + 1)) |-> (n + 1) + i]
  BY <1>1, <1>3
<1>6. Head(d) = n + 1
  BY <1>3
<1> QED
  BY <1>4, <1>5, <1>6

LEMMA InitSource == DataInit => SourceInv
<1> SUFFICES ASSUME DataInit PROVE SourceInv
  OBVIOUS
<1>1. FlowTyped /\ Typed
  BY InitFlowTyped, InitTyped DEF DataInit
<1>2. fill.index = 0 /\ Len(given) = 0 /\ events = 0 /\ switch = NoSwitch
      /\ chan["DataIn"] = None
  BY DEF DataInit, Init, FillBegin, Channels
<1>3. SourceCounted
  BY <1>2 DEF SourceCounted
<1>4. SourceFilled
  BY <1>2 DEF SourceFilled, Preloading, None
<1>5. Unraced
  BY <1>2, FlowAssumption DEF Unraced
<1> QED
  BY <1>1, <1>3, <1>4, <1>5 DEF SourceInv

\* A mode begins with an empty source.
LEMMA SwitchingSource == SourceInv /\ Switching => SourceCounted' /\ SourceFilled' /\ Unraced'
<1> SUFFICES ASSUME SourceInv, Switching PROVE SourceCounted' /\ SourceFilled' /\ Unraced'
  OBVIOUS
<1>1. given' = << >> /\ idle' = Ring /\ events' = 0 /\ fill' = FillBegin /\ ~cleared'
  BY DEF Switching, RestartData, NewChannels
<1>2. fill'.index = 0 /\ fill'.at = "get" /\ Len(given') = 0
  BY <1>1 DEF FillBegin
<1>3. chan'["DataIn"] = None
  BY DEF Switching, BootSync, DataOnly, ModeCommand, Destroy, Channels, DataChannels
<1>4. switch' # NoSwitch /\ (switch'.todo = {} => switch'.layout # "SINKSOURCE")
  <2>1. "DataIn" \in Wanted("SYNC", Channels) /\ "DataIn" \in Wanted("NORMAL", DataChannels)
        /\ "DataIn" \in Wanted("SINKSOURCE", Channels)
    BY DEF Wanted, Layout, Channels, DataChannels, None
  <2> QED
    BY <2>1 DEF Switching, BootSync, DataOnly, ModeCommand, NoSwitch
<1>5. SourceCounted'
  BY <1>1, <1>2 DEF SourceCounted
<1>6. SourceFilled'
  BY <1>2, <1>3, <1>4 DEF SourceFilled, Preloading, None
<1>7. DataBufs # 0
  BY FlowAssumption
<1>8. Unraced'
  BY <1>1, <1>2, <1>7, FirstNone DEF Unraced, FirstGiven
<1> QED
  BY <1>5, <1>6, <1>8

\* The rest of a switch: the last channel created is DataIn.
LEMMA OtherSource == SourceInv /\ OtherStep => SourceCounted' /\ SourceFilled' /\ Unraced'
<1> SUFFICES ASSUME SourceInv, OtherStep PROVE SourceCounted' /\ SourceFilled' /\ Unraced'
  OBVIOUS
<1>1. UNCHANGED <<given, idle, pattern, events, fill, cleared, raced>>
  BY DEF OtherStep, flowVars, sourceVars
<1>2. SourceCounted'
  BY <1>1 DEF SourceInv, SourceCounted
<1>3. SourceFilled /\ Unraced /\ Typed /\ SourceTyped
  BY DEF SourceInv, FlowTyped
<1>4. ASSUME NEW c \in Channels, CreateChannel(c) PROVE SourceFilled' /\ Unraced'
  <2>1. switch # NoSwitch /\ switch \in Switches /\ c \in switch.todo
    BY <1>3, <1>4, NextInTodo DEF CreateChannel
  <2>2. switch' # NoSwitch
    BY <1>4, <2>1 DEF CreateChannel, NoSwitch, Switches
  <2>3. fill.index = 0 /\ ~Preloading
    BY <1>3, <2>1 DEF SourceFilled, Preloading
  <2>4. CASE c = "DataIn"
    <3>1. switch.todo \subseteq {"DataIn"}
      BY <1>4, <2>1, <2>4 DEF CreateChannel, IsNext, Rank, Switches, Channels
    <3>2. switch'.todo = {} /\ switch'.layout = switch.layout
      BY <1>4, <2>1, <2>4, <3>1 DEF CreateChannel, Switches
    <3>3. chan'["DataIn"] = Layout(switch.layout)["DataIn"]
      BY <1>3, <1>4, <2>4 DEF CreateChannel, Typed, Channels
    <3>4. chan'["DataIn"] = "CpuToUib" => switch.layout = "SINKSOURCE"
      BY <2>1, <3>3 DEF Layout, Switches, Modes, None
    <3> QED
      BY <1>1, <1>3, <2>1, <2>2, <2>3, <3>2, <3>4 DEF SourceFilled, Preloading, Unraced, FirstGiven
  <2>5. CASE c # "DataIn"
    <3>1. chan'["DataIn"] = chan["DataIn"]
      BY <1>3, <1>4, <2>5 DEF CreateChannel, Typed
    <3>2. chan["DataIn"] # "CpuToUib"
      BY <1>3, <2>1, <2>3 DEF SourceFilled
    <3> QED
      BY <1>1, <1>3, <2>1, <2>2, <2>3, <3>1, <3>2 DEF SourceFilled, Preloading, Unraced, FirstGiven
  <2> QED
    BY <2>4, <2>5
<1>5. ASSUME NEW c \in Channels, CreateFails(c) PROVE SourceFilled' /\ Unraced'
  <2>1. switch # NoSwitch /\ c \in switch.todo
    BY <1>3, <1>5, NextInTodo DEF CreateFails
  <2>2. fill.index = 0 /\ ~Preloading /\ chan["DataIn"] # "CpuToUib"
    BY <1>3, <2>1 DEF SourceFilled, Preloading
  <2>3. switch' = NoSwitch /\ chan' = chan
    BY <1>5 DEF CreateFails
  <2> QED
    BY <1>1, <1>3, <2>2, <2>3 DEF SourceFilled, Preloading, Unraced
<1>6. ASSUME ~Filling, Announce PROVE SourceFilled' /\ Unraced'
  <2>1. switch # NoSwitch /\ switch.todo = {} /\ switch' = NoSwitch /\ chan' = chan /\ ~dead
    BY <1>6 DEF Announce
  <2>2. Preloading => fill.index = DataBufs
    BY <1>3, <1>6, <2>1, SourceNumbers DEF Filling, Preloading
  <2>3. ~Preloading'
    BY <2>1 DEF Preloading
  <2>4. SourceFilled'
    BY <1>1, <1>3, <2>1, <2>2, <2>3 DEF SourceFilled
  <2>5. Unraced'
    BY <1>1, <1>3, <2>1 DEF Unraced
  <2> QED
    BY <2>4, <2>5
<1>7. CASE NoMemory \/ DataTxBegin \/ DataTxEnd \/ DataSink
  <2>1. UNCHANGED <<chan, switch>>
    BY <1>7 DEF NoMemory, DataTxBegin, DataTxEnd, DataSink
  <2>2. SourceFilled'
    BY <1>1, <1>3, <2>1 DEF SourceFilled, Preloading
  <2>3. Unraced'
    BY <1>1, <1>3, <2>1 DEF Unraced, FirstGiven
  <2> QED
    BY <1>2, <2>2, <2>3
<1> QED
  BY <1>2, <1>4, <1>5, <1>6, <1>7 DEF OtherStep

LEMMA FillSource ==
  SourceInv /\ (FillGet \/ FillSet \/ FillCommit) => SourceCounted' /\ SourceFilled' /\ Unraced'
<1> SUFFICES ASSUME SourceInv, FillGet \/ FillSet \/ FillCommit
             PROVE  SourceCounted' /\ SourceFilled' /\ Unraced'
  OBVIOUS
<1>1. /\ SourceCounted /\ SourceFilled /\ Unraced /\ SourceTyped
      /\ UNCHANGED <<switch, chan, cleared, raced, events>>
      /\ Preloading /\ fill.index < DataBufs /\ ~dead
  BY DEF SourceInv, FlowTyped, FillGet, FillSet, FillCommit, Filling, Preloading, vars
<1>2. DataBufs \in Nat \ {0} /\ fill.index \in Nat /\ fill.buf \in Buffers
  BY <1>1, SourceNumbers
<1>3. fill \in [at : {"get", "set", "commit"}, buf : Buffers, index : 0..DataBufs]
  BY <1>1 DEF SourceTyped
<1>4. Preloading' /\ switch # NoSwitch /\ switch' # NoSwitch
  BY <1>1 DEF Preloading
<1>5. SourceFilled'
  BY <1>1, <1>4 DEF SourceFilled
<1>6. CASE FillGet
  <2>1. UNCHANGED <<given, idle, pattern>> /\ idle # << >>
        /\ fill'.at = "set" /\ fill'.buf = Head(idle) /\ fill'.index = fill.index
    BY <1>3, <1>6 DEF FillGet
  <2>2. SourceCounted'
    BY <1>1, <2>1 DEF SourceCounted
  <2>3. ~raced => Head(idle) = fill.index + 1
    BY <1>1, <1>2, <1>4, FirstOneMore DEF Unraced, FirstGiven
  <2>4. Unraced'
    BY <1>1, <1>4, <2>1, <2>3 DEF Unraced, FirstGiven
  <2> QED
    BY <1>5, <2>2, <2>4
<1>7. CASE FillSet
  <2>1. UNCHANGED <<given, idle>> /\ pattern' = pattern \cup {fill.buf} /\ fill.at = "set"
        /\ fill'.at = "commit" /\ fill'.buf = fill.buf /\ fill'.index = fill.index
    BY <1>3, <1>7 DEF FillSet
  <2>2. SourceCounted'
    BY <1>1, <2>1 DEF SourceCounted
  <2>3. fill'.index # DataBufs
    BY <1>1, <1>2, <2>1
  <2>4. Unraced'
    BY <1>1, <1>4, <2>1, <2>3 DEF Unraced, FirstGiven
  <2> QED
    BY <1>5, <2>2, <2>4
<1>8. CASE FillCommit
  <2>1. UNCHANGED pattern /\ idle # << >> /\ fill.at = "commit" /\ Commit
        /\ fill'.at = "get" /\ fill'.buf = fill.buf /\ fill'.index = fill.index + 1
    BY <1>3, <1>8 DEF FillCommit
  <2>2. Len(given') = Len(given) + 1 /\ Len(given) \in Nat /\ events \in Nat
    BY <1>1, <2>1, TailFacts, AppendFacts, SourceNumbers DEF Commit, SourceTyped
  <2>3. SourceCounted'
    BY <1>1, <1>2, <2>1, <2>2 DEF SourceCounted
  <2>4. ASSUME ~raced
        PROVE  /\ given' = [i \in 1..(fill.index + 1) |-> i]
               /\ idle' = [i \in 1..(DataBufs - (fill.index + 1)) |-> fill.index + 1 + i]
               /\ 1..(fill.index + 1) \subseteq pattern
    <3>1. FirstGiven(fill.index) /\ 1..fill.index \subseteq pattern /\ fill.index + 1 \in pattern
      BY <1>1, <1>4, <2>1, <2>4 DEF Unraced
    <3>2. 1..(fill.index + 1) \subseteq pattern
      BY <1>2, <3>1
    <3>3. given' = Append(given, Head(idle)) /\ idle' = Tail(idle)
      BY <2>1 DEF Commit
    <3>4. /\ given' = [i \in 1..(fill.index + 1) |-> i]
          /\ idle' = [i \in 1..(DataBufs - (fill.index + 1)) |-> fill.index + 1 + i]
      BY <1>1, <1>2, <3>1, <3>3, FirstOneMore DEF FirstGiven
    <3> QED
      BY <3>2, <3>4
  <2>5. ~raced /\ fill.index + 1 = DataBufs => pattern = Buffers
    BY <1>1, <2>4 DEF Buffers, SourceTyped
  <2>6. Unraced'
    BY <1>1, <1>4, <2>1, <2>4, <2>5 DEF Unraced, FirstGiven
  <2> QED
    BY <1>5, <2>3, <2>6
<1> QED
  BY <1>6, <1>7, <1>8

\* The USB block takes a buffer; its callback commits one again.
LEMMA EventSource ==
  SourceInv /\ (TakeSource \/ SourceCallback) => SourceCounted' /\ SourceFilled' /\ Unraced'
<1> SUFFICES ASSUME SourceInv, TakeSource \/ SourceCallback
             PROVE  SourceCounted' /\ SourceFilled' /\ Unraced'
  OBVIOUS
<1>1. /\ SourceCounted /\ SourceFilled /\ Unraced /\ SourceTyped
      /\ UNCHANGED <<switch, chan, cleared, pattern, fill>>
  BY DEF SourceInv, FlowTyped, TakeSource, SourceCallback, vars
<1>2. /\ DataBufs \in Nat \ {0} /\ fill.index \in 0..DataBufs /\ events \in Nat
      /\ Len(given) \in Nat /\ Len(idle) \in Nat /\ Len(given) + Len(idle) = DataBufs
      /\ idle = << >> <=> Len(idle) = 0
  BY <1>1, SourceNumbers
<1>3. SourceFilled'
  BY <1>1 DEF SourceFilled, Preloading
<1>4. CASE TakeSource
  <2>1. Len(given') = Len(given) - 1 /\ events' = events + 1
    BY <1>1, <1>4, TailFacts DEF TakeSource, SourceTyped
  <2>2. SourceCounted'
    BY <1>1, <1>2, <2>1 DEF SourceCounted
  <2>3. ~raced' => ~raced /\ switch = NoSwitch
    BY <1>4 DEF TakeSource
  <2>4. Unraced'
    BY <1>1, <2>3 DEF Unraced
  <2> QED
    BY <1>3, <2>2, <2>4
<1>5. CASE SourceCallback
  <2>1. events > 0 /\ events' = events - 1 /\ raced' = raced
    BY <1>5 DEF SourceCallback
  <2>2. idle # << >>
    BY <1>1, <1>2, <2>1 DEF SourceCounted
  <2>3. Commit
    BY <1>5, <2>2 DEF SourceCallback
  <2>4. Len(given') = Len(given) + 1
    BY <1>1, <2>2, <2>3, TailFacts, AppendFacts DEF Commit, SourceTyped
  <2>5. SourceCounted'
    BY <1>1, <1>2, <2>1, <2>4 DEF SourceCounted
  <2>6. ~raced => switch = NoSwitch
    BY <1>1, <2>1 DEF Unraced
  <2>7. Unraced'
    BY <1>1, <2>1, <2>6 DEF Unraced
  <2> QED
    BY <1>3, <2>5, <2>7
<1> QED
  BY <1>4, <1>5

\* CLEAR_FEATURE takes the buffers back, and says so.
LEMMA ClearInSource == SourceInv /\ ClearIn => SourceCounted' /\ SourceFilled' /\ Unraced'
<1> SUFFICES ASSUME SourceInv, ClearIn PROVE SourceCounted' /\ SourceFilled' /\ Unraced'
  OBVIOUS
<1>1. /\ SourceFilled /\ Unraced /\ SourceTyped
      /\ UNCHANGED <<switch, chan, pattern, fill>>
      /\ Len(given') = 0 /\ events' = 0 /\ cleared'
      /\ (~raced' => ~raced /\ switch = NoSwitch)
  BY DEF SourceInv, FlowTyped, ClearIn, vars
<1>2. SourceCounted'
  BY <1>1, SourceNumbers DEF SourceCounted
<1>3. SourceFilled'
  BY <1>1 DEF SourceFilled, Preloading
<1>4. Unraced'
  BY <1>1 DEF Unraced
<1> QED
  BY <1>2, <1>3, <1>4

\* A step that leaves the source alone, and at most sets IsApplnActive.
LEMMA AwaySource ==
  SourceInv /\ UNCHANGED <<sourceVars, cleared, raced, switch, chan>>
    => SourceCounted' /\ SourceFilled' /\ Unraced'
BY DEF SourceInv, SourceCounted, SourceFilled, Unraced, FirstGiven, Preloading, sourceVars

LEMMA NextSource == SourceInv /\ [DataNext]_<<vars, flowVars>> => SourceInv'
<1> SUFFICES ASSUME SourceInv, [DataNext]_<<vars, flowVars>> PROVE SourceInv'
  OBVIOUS
<1>1. FlowTyped' /\ Typed'
  BY NextFlowTyped, StepImplements, StepTyped DEF SourceInv
<1>2. CASE UNCHANGED <<vars, flowVars>>
  <2>1. UNCHANGED <<sourceVars, cleared, raced, switch, chan>>
    BY <1>2 DEF vars, flowVars
  <2> QED
    BY <1>1, <2>1, AwaySource DEF SourceInv
<1>3. CASE Switching \/ OtherStep \/ FillGet \/ FillSet \/ FillCommit
             \/ TakeSource \/ SourceCallback \/ ClearIn
  BY <1>1, <1>3, SwitchingSource, OtherSource, FillSource, EventSource, ClearInSource
     DEF SourceInv
<1>4. CASE \/ HostSend \/ ProduceOut \/ CpuSend \/ ModemTake
           \/ \E c \in DataChannels : Callback(c)
           \/ ModemSend \/ CpuReceive \/ ToEndpoint \/ HostReceive
  <2>1. UNCHANGED <<sourceVars, cleared, raced, switch, chan>>
    BY <1>4 DEF HostSend, ProduceOut, CpuSend, ModemTake, Callback, ModemSend, CpuReceive,
                ToEndpoint, HostReceive, vars
  <2> QED
    BY <1>1, <2>1, AwaySource DEF SourceInv
<1>5. CASE Configured \/ Stopped \/ ClearOut
  <2>1. UNCHANGED <<sourceVars, cleared, raced, switch, chan>>
    BY <1>5 DEF Configured, Stopped, SetConf, ResetOrDisconnect, Stop, ClearOut, vars, flowVars
  <2> QED
    BY <1>1, <2>1, AwaySource DEF SourceInv
<1> QED
  BY <1>2, <1>3, <1>4, <1>5 DEF DataNext

LEMMA SourceHolds == DataSpec => []SourceInv
  BY InitSource, NextSource, PTL DEF DataSpec

(* However many buffers the host empties while DMASrcSinkFillInBuffers     *)
(* fills, each of its calls finds a buffer: no error path is taken.        *)
THEOREM PreloadAlwaysSucceeds == DataSpec => []PreloadSucceeds
<1>1. SourceInv => PreloadSucceeds
  BY SourceNumbers DEF SourceInv, FlowTyped, SourceCounted, PreloadSucceeds, Filling
<1> QED
  BY <1>1, SourceHolds, PTL

(* The source never runs dry, whatever the order of callbacks and preload: *)
(* each of its buffers is with the USB block or has an event to come.      *)
THEOREM SourceNeverDry == DataSpec => []SourceConserved
<1>1. SourceInv => SourceConserved
  BY SourceNumbers DEF SourceInv, SourceCounted, SourceFilled, SourceConserved, SourceRuns
<1> QED
  BY <1>1, SourceHolds, PTL

(* A preload nothing disturbs fills every buffer it commits, so the source *)
(* sends the pattern and nothing else.                                     *)
THEOREM SourcePatternSent == DataSpec => []SourcePattern
<1>1. ASSUME SourceInv, SourceRuns, ~raced PROVE Elements(given) \subseteq pattern
  <2>1. pattern = Buffers
    BY <1>1 DEF SourceInv, SourceFilled, SourceRuns, Unraced
  <2>2. given \in Seq(Buffers)
    BY <1>1 DEF SourceInv, FlowTyped, SourceTyped
  <2> QED
    BY <2>1, <2>2 DEF Elements
<1>2. SourceInv => SourcePattern
  BY <1>1 DEF SourcePattern
<1> QED
  BY <1>2, SourceHolds, PTL

-----------------------------------------------------------------------------
(* Packets in line.                                                        *)

Above(m, s) == \A x \in Elements(s) : x # Source => m < x
Below(s, t) == \A x \in Elements(s), y \in Elements(t) : x # Source /\ y # Source => x < y

\* After packet m come the packets of a, of b and of c.
Line(m, a, b, c) ==
  /\ Rising(a) /\ Rising(b) /\ Rising(c)
  /\ Above(m, a) /\ Above(m, b) /\ Above(m, c)
  /\ Below(a, b) /\ Below(a, c) /\ Below(b, c)

LEMMA ElementsEmpty == Elements(<< >>) = {} /\ Rising(<< >>)
BY DEF Elements, Rising

LEMMA ElementsNat == \A s \in Seq(Nat) : Elements(s) \subseteq Nat
BY DEF Elements

LEMMA NatSequence ==
  ASSUME NEW S, S \subseteq Nat, NEW s \in Seq(S)
  PROVE  s \in Seq(Nat)
<1>1. Len(s) \in Nat /\ s \in [1..Len(s) -> S]
  OBVIOUS
<1>2. s \in [1..Len(s) -> Nat]
  BY <1>1
<1> QED
  BY <1>1, <1>2

LEMMA NumberAppend ==
  \A s \in Seq(Nat), x \in Nat : Elements(Append(s, x)) = Elements(s) \cup {x}
<1> SUFFICES ASSUME NEW s \in Seq(Nat), NEW x \in Nat
             PROVE  Elements(Append(s, x)) = Elements(s) \cup {x}
  OBVIOUS
<1> QED
  BY AppendFacts DEF Elements

LEMMA RisingAppend ==
  ASSUME NEW s \in Seq(Nat), NEW x \in Nat, Rising(s),
         x # Source => \A y \in Elements(s) : y < x
  PROVE  Rising(Append(s, x))
<1> DEFINE t == Append(s, x)
<1>1. SUFFICES ASSUME NEW i \in DOMAIN t, NEW j \in DOMAIN t, i < j,
                      t[i] # Source, t[j] # Source
               PROVE  t[i] < t[j]
  BY DEF Rising
<1>2. DOMAIN s = 1..Len(s) /\ Len(s) \in Nat /\ DOMAIN t = 1..(Len(s) + 1)
  BY AppendFacts
<1>3. i \in DOMAIN s /\ t[i] = s[i] /\ t[i] \in Elements(s)
  BY <1>1, <1>2, AppendFacts DEF Elements
<1>4. CASE j = Len(s) + 1
  <2>1. t[j] = x
    BY <1>4, AppendFacts
  <2> QED
    BY <1>1, <1>3, <2>1
<1>5. CASE j # Len(s) + 1
  <2>1. j \in DOMAIN s /\ t[j] = s[j]
    BY <1>2, <1>5, AppendFacts
  <2> QED
    BY <1>1, <1>3, <2>1 DEF Rising
<1> QED
  BY <1>4, <1>5

LEMMA RisingTail ==
  ASSUME NEW s \in Seq(Nat), s # << >>, Rising(s)
  PROVE  /\ Rising(Tail(s))
         /\ \A y \in Elements(Tail(s)) : Head(s) # Source /\ y # Source => Head(s) < y
<1> DEFINE t == Tail(s)
<1>1. /\ 1 \in DOMAIN s /\ Head(s) = s[1]
      /\ \A i \in DOMAIN t : i \in Nat \ {0} /\ i + 1 \in DOMAIN s /\ t[i] = s[i + 1]
  BY TailFacts
<1>2. Rising(t)
  <2>1. SUFFICES ASSUME NEW i \in DOMAIN t, NEW j \in DOMAIN t, i < j,
                        t[i] # Source, t[j] # Source
                 PROVE  t[i] < t[j]
    BY DEF Rising
  <2>2. /\ i + 1 \in DOMAIN s /\ j + 1 \in DOMAIN s /\ i + 1 < j + 1
        /\ t[i] = s[i + 1] /\ t[j] = s[j + 1]
    BY <1>1, <2>1
  <2> QED
    BY <2>1, <2>2 DEF Rising
<1>3. ASSUME NEW y \in Elements(t), Head(s) # Source, y # Source
      PROVE  Head(s) < y
  <2>1. PICK i \in DOMAIN t : y = t[i]
    BY DEF Elements
  <2>2. i + 1 \in DOMAIN s /\ y = s[i + 1] /\ 1 < i + 1
    BY <1>1, <2>1
  <2> QED
    BY <1>1, <1>3, <2>2 DEF Rising
<1> QED
  BY <1>2, <1>3

\* No packets, or fewer.
LEMMA LineNone == ASSUME NEW m PROVE Line(m, << >>, << >>, << >>)
BY ElementsEmpty DEF Line, Above, Below

LEMMA LineFewer ==
  ASSUME NEW m, NEW a, NEW b, NEW c, Line(m, a, b, c), NEW d, NEW e, NEW f,
         Elements(d) \subseteq Elements(a), Rising(d),
         Elements(e) \subseteq Elements(b), Rising(e),
         Elements(f) \subseteq Elements(c), Rising(f)
  PROVE  Line(m, d, e, f)
<1>1. Above(m, d) /\ Above(m, e) /\ Above(m, f)
  BY DEF Line, Above
<1>2. Below(d, e) /\ Below(d, f) /\ Below(e, f)
  BY DEF Line, Below
<1> QED
  BY <1>1, <1>2 DEF Line

LEMMA LineCleared ==
  ASSUME NEW m, NEW a, NEW b, NEW c, Line(m, a, b, c)
  PROVE  /\ Line(m, << >>, b, c) /\ Line(m, a, << >>, c) /\ Line(m, a, b, << >>)
         /\ Line(m, << >>, b, << >>) /\ Line(m, a, << >>, << >>)
BY LineFewer, ElementsEmpty DEF Line

LEMMA LineTails ==
  ASSUME NEW m, NEW a \in Seq(Nat), NEW b \in Seq(Nat), NEW c \in Seq(Nat), Line(m, a, b, c)
  PROVE  /\ a # << >> => Line(m, Tail(a), b, c)
         /\ b # << >> => Line(m, a, Tail(b), c)
<1>1. Rising(a) /\ Rising(b) /\ Rising(c)
  BY DEF Line
<1>2. ASSUME a # << >> PROVE Line(m, Tail(a), b, c)
  <2>1. Elements(Tail(a)) \subseteq Elements(a) /\ Rising(Tail(a))
    BY <1>1, <1>2, RisingTail, ElementsTail
  <2> QED
    BY <1>1, <2>1, LineFewer
<1>3. ASSUME b # << >> PROVE Line(m, a, Tail(b), c)
  <2>1. Elements(Tail(b)) \subseteq Elements(b) /\ Rising(Tail(b))
    BY <1>1, <1>3, RisingTail, ElementsTail
  <2> QED
    BY <1>1, <2>1, LineFewer
<1> QED
  BY <1>2, <1>3

\* A packet of the last place moves on to the second one.
LEMMA LineLastMoves ==
  ASSUME NEW m \in Nat, NEW a \in Seq(Nat), NEW b \in Seq(Nat), NEW c \in Seq(Nat),
         Line(m, a, b, c), c # << >>, Source \notin Elements(c)
  PROVE  Line(m, a, Append(b, Head(c)), Tail(c))
<1>1. /\ Head(c) \in Elements(c) /\ Head(c) \in Nat /\ Head(c) # Source
      /\ Elements(Tail(c)) \subseteq Elements(c) /\ Rising(Tail(c))
      /\ \A y \in Elements(Tail(c)) : Head(c) < y
  BY ElementsTail, RisingTail, TailFacts DEF Line
<1>2. Elements(Append(b, Head(c))) = Elements(b) \cup {Head(c)}
  BY <1>1, ElementsAppend
<1>3. Elements(b) \subseteq Nat
  BY DEF Elements
<1>4. \A y \in Elements(b) : y < Head(c)
  BY <1>1, <1>3 DEF Line, Below, Source
<1>5. Rising(Append(b, Head(c)))
  BY <1>1, <1>4, RisingAppend DEF Line
<1>6. Above(m, Append(b, Head(c))) /\ Above(m, Tail(c))
  BY <1>1, <1>2 DEF Line, Above
<1>7. Below(a, Append(b, Head(c))) /\ Below(a, Tail(c)) /\ Below(Append(b, Head(c)), Tail(c))
  BY <1>1, <1>2 DEF Line, Below
<1> QED
  BY <1>1, <1>5, <1>6, <1>7 DEF Line

\* A packet of the second place moves on to the first one.
LEMMA LineSecondMoves ==
  ASSUME NEW m \in Nat, NEW a \in Seq(Nat), NEW b \in Seq(Nat), NEW c \in Seq(Nat),
         Line(m, a, b, c), b # << >>, Source \notin Elements(b)
  PROVE  Line(m, Append(a, Head(b)), Tail(b), c)
<1>1. /\ Head(b) \in Elements(b) /\ Head(b) \in Nat /\ Head(b) # Source
      /\ Elements(Tail(b)) \subseteq Elements(b) /\ Rising(Tail(b))
      /\ \A y \in Elements(Tail(b)) : Head(b) < y
  BY ElementsTail, RisingTail, TailFacts DEF Line
<1>2. Elements(Append(a, Head(b))) = Elements(a) \cup {Head(b)}
  BY <1>1, ElementsAppend
<1>3. Elements(a) \subseteq Nat
  BY DEF Elements
<1>4. \A y \in Elements(a) : y < Head(b)
  BY <1>1, <1>3 DEF Line, Below, Source
<1>5. Rising(Append(a, Head(b)))
  BY <1>1, <1>4, RisingAppend DEF Line
<1>6. Above(m, Append(a, Head(b))) /\ Above(m, Tail(b))
  BY <1>1, <1>2 DEF Line, Above
<1>7. Below(Append(a, Head(b)), Tail(b)) /\ Below(Append(a, Head(b)), c) /\ Below(Tail(b), c)
  BY <1>1, <1>2 DEF Line, Below
<1> QED
  BY <1>1, <1>5, <1>6, <1>7 DEF Line

\* The receiver takes a packet of the first place.
LEMMA LineTaken ==
  ASSUME NEW m \in Nat, NEW a \in Seq(Nat), NEW b, NEW c, Line(m, a, b, c), a # << >>
  PROVE  Line(IF Head(a) = Source THEN m ELSE Head(a), Tail(a), b, c)
<1> DEFINE h == Head(a)
           n == IF h = Source THEN m ELSE h
<1>1. /\ h \in Elements(a) /\ Elements(Tail(a)) \subseteq Elements(a) /\ Rising(Tail(a))
      /\ \A y \in Elements(Tail(a)) : h # Source /\ y # Source => h < y
  BY ElementsTail, RisingTail, TailFacts DEF Line
<1>2. Above(n, Tail(a)) /\ Above(n, b) /\ Above(n, c)
  BY <1>1 DEF Line, Above, Below
<1>3. Below(Tail(a), b) /\ Below(Tail(a), c)
  BY <1>1 DEF Line, Below
<1> QED
  BY <1>1, <1>2, <1>3 DEF Line

\* A packet newer than all others comes to the end of the line.
LEMMA LineSent ==
  ASSUME NEW m \in Nat, NEW a \in Seq(Nat), NEW b \in Seq(Nat), NEW c \in Seq(Nat),
         Line(m, a, b, c), NEW x \in Nat, m < x,
         \A y \in Elements(a) \cup Elements(b) \cup Elements(c) : y < x
  PROVE  /\ Line(m, a, b, Append(c, x))
         /\ c = << >> => Line(m, a, Append(b, x), << >>)
         /\ b = << >> /\ c = << >> => Line(m, Append(a, x), << >>, << >>)
<1>1. /\ Elements(Append(a, x)) = Elements(a) \cup {x}
      /\ Elements(Append(b, x)) = Elements(b) \cup {x}
      /\ Elements(Append(c, x)) = Elements(c) \cup {x}
  BY NumberAppend
<1>2. Rising(Append(a, x)) /\ Rising(Append(b, x)) /\ Rising(Append(c, x))
  <2>1. \A s \in Seq(Nat) : Rising(s) /\ (\A y \in Elements(s) : y < x) => Rising(Append(s, x))
    BY RisingAppend
  <2> QED
    BY <2>1 DEF Line
<1>3. Above(m, Append(a, x)) /\ Above(m, Append(b, x)) /\ Above(m, Append(c, x))
  BY <1>1 DEF Line, Above
<1>4. Below(a, Append(b, x)) /\ Below(a, Append(c, x)) /\ Below(b, Append(c, x))
  BY <1>1 DEF Line, Below
<1>5. Line(m, a, b, Append(c, x))
  BY <1>2, <1>3, <1>4 DEF Line
<1>6. ASSUME c = << >> PROVE Line(m, a, Append(b, x), << >>)
  BY <1>2, <1>3, <1>4, <1>6, ElementsEmpty DEF Line, Above, Below
<1>7. ASSUME b = << >>, c = << >> PROVE Line(m, Append(a, x), << >>, << >>)
  BY <1>2, <1>3, <1>7, ElementsEmpty DEF Line, Above, Below
<1> QED
  BY <1>5, <1>6, <1>7

\* A packet of the source is in nobody's way.
LEMMA LineSource ==
  ASSUME NEW m, NEW a \in Seq(Nat), NEW b, NEW c, Line(m, a, b, c)
  PROVE  Line(m, Append(a, Source), b, c)
<1>1. Elements(Append(a, Source)) = Elements(a) \cup {Source}
  BY ElementsAppend DEF Source
<1>2. Rising(Append(a, Source))
  BY RisingAppend DEF Line, Source
<1> QED
  BY <1>1, <1>2 DEF Line, Above, Below

-----------------------------------------------------------------------------
(* Who is in which line.                                                   *)

Out == chan["DataOut"]
In == chan["DataIn"]
QO == queue["DataOut"]
RO == raised["DataOut"]
QI == queue["DataIn"]
RI == raised["DataIn"]

\* DataIn is created after DataOut, and never beside a loop back.
ChanShape ==
  /\ Out \in {None, "CpuToPib", "UibToPib", "UibToCpu", "UibToUib"}
  /\ In \in {None, "PibToCpu", "PibToUib", "CpuToUib"}
  /\ In # None => Out \notin {None, "UibToUib"}

Everywhere ==
  Elements(outEp) \cup Elements(inEp) \cup Elements(QO) \cup Elements(RO)
    \cup Elements(QI) \cup Elements(RI)

\* Whatever is underway was sent since the channels were last destroyed.
Numbered ==
  /\ mark <= sent /\ last.modem <= sent /\ last.host <= sent
  /\ \A p \in Everywhere : p # Source => mark < p /\ p <= sent

ModemLine ==
  /\ Rising(outEp)
  /\ Out = None => QO = << >> /\ RO = << >> /\ last.modem <= mark
  /\ Out \in {"UibToPib", "UibToCpu"} => Line(last.modem, QO, RO, outEp)
  /\ Out = "CpuToPib" => RO = << >> /\ Line(last.modem, QO, << >>, << >>)
  /\ Out = "UibToUib" => RO = << >>

HostLine ==
  /\ Out = None => Elements(inEp) \subseteq {Source} /\ last.host <= mark
  /\ Out = "UibToUib" => Line(last.host, inEp, QO, outEp)
  /\ Out \notin {None, "UibToUib"} => Line(last.host, inEp, QI, RI)
  /\ In = None => QI = << >> /\ RI = << >>
  /\ In = "PibToCpu" => RI = << >>

Lines == Numbered /\ ModemLine /\ HostLine
FlowInv == FlowTyped /\ Inv /\ ChanShape /\ Lines

LEMMA FlowTypes ==
  ASSUME FlowTyped
  PROVE  /\ outEp \in Seq(Packets) /\ QO \in Seq(Packets) /\ RO \in Seq(Packets)
         /\ QI \in Seq(Packets) /\ RI \in Seq(Packets) /\ inEp \in Seq(Packets \cup {Source})
         /\ outEp \in Seq(Nat) /\ QO \in Seq(Nat) /\ RO \in Seq(Nat)
         /\ QI \in Seq(Nat) /\ RI \in Seq(Nat) /\ inEp \in Seq(Nat)
         /\ sent \in Nat /\ mark \in Nat /\ last.modem \in Nat /\ last.host \in Nat
         /\ queue \in [DataChannels -> Seq(Packets)] /\ raised \in [DataChannels -> Seq(Packets)]
         /\ last \in [modem : 0..MaxSends, host : 0..MaxSends]
<1>1. LineTyped /\ GhostTyped
  BY DEF FlowTyped
<1>2. MaxSends \in Nat /\ Packets \subseteq Nat /\ Packets \cup {Source} \subseteq Nat
  BY FlowAssumption DEF Packets, Source
<1>3. /\ outEp \in Seq(Packets) /\ QO \in Seq(Packets) /\ RO \in Seq(Packets)
      /\ QI \in Seq(Packets) /\ RI \in Seq(Packets) /\ inEp \in Seq(Packets \cup {Source})
      /\ queue \in [DataChannels -> Seq(Packets)] /\ raised \in [DataChannels -> Seq(Packets)]
  BY <1>1 DEF LineTyped, QO, RO, QI, RI, DataChannels
<1>4. /\ outEp \in Seq(Nat) /\ QO \in Seq(Nat) /\ RO \in Seq(Nat)
      /\ QI \in Seq(Nat) /\ RI \in Seq(Nat) /\ inEp \in Seq(Nat)
  BY <1>2, <1>3, NatSequence
<1>5. /\ sent \in Nat /\ mark \in Nat /\ last.modem \in Nat /\ last.host \in Nat
      /\ last \in [modem : 0..MaxSends, host : 0..MaxSends]
  BY <1>1, <1>2 DEF GhostTyped
<1> QED
  BY <1>3, <1>4, <1>5

LEMMA NoSourceIn ==
  ASSUME NEW s \in Seq(Packets)
  PROVE  Source \notin Elements(s) /\ Elements(s) \subseteq Nat \ {0}
BY FlowAssumption DEF Elements, Packets, Source

LEMMA ModemSame ==
  ModemLine /\ UNCHANGED <<outEp, QO, RO, Out, last.modem, mark>> => ModemLine'
BY DEF ModemLine

LEMMA HostSame ==
  HostLine /\ UNCHANGED <<inEp, outEp, QO, QI, RI, Out, In, last.host, mark>> => HostLine'
BY DEF HostLine

\* Nothing is underway that was not, but for a packet just sent.
LEMMA NumberedKept ==
  ASSUME FlowTyped, FlowTyped', Numbered, mark' = mark,
         \/ sent' = sent /\ Everywhere' \subseteq Everywhere \cup {Source}
         \/ sent' = sent + 1 /\ Everywhere' \subseteq Everywhere \cup {sent'},
         last'.modem <= sent', last'.host <= sent'
  PROVE  Numbered'
<1>0. sent \in Nat /\ mark \in Nat
  BY FlowTypes
<1>1. sent' \in Nat /\ sent <= sent' /\ mark <= sent
  BY <1>0 DEF Numbered
<1>2. Everywhere \subseteq Nat
  <2>1. /\ Elements(outEp) \subseteq Nat /\ Elements(inEp) \subseteq Nat
        /\ Elements(QO) \subseteq Nat /\ Elements(RO) \subseteq Nat
        /\ Elements(QI) \subseteq Nat /\ Elements(RI) \subseteq Nat
    BY FlowTypes, ElementsNat
  <2> QED
    BY <2>1 DEF Everywhere
<1>3. mark' <= sent'
  BY <1>0, <1>1
<1>4. ASSUME NEW p \in Everywhere', p # Source PROVE mark' < p /\ p <= sent'
  <2>1. CASE p \in Everywhere
    BY <1>0, <1>1, <1>2, <1>4, <2>1 DEF Numbered
  <2>2. CASE p \notin Everywhere
    <3>1. p = sent' /\ sent' = sent + 1
      BY <1>4, <2>2
    <3> QED
      BY <1>0, <1>1, <3>1
  <2> QED
    BY <2>1, <2>2
<1> QED
  BY <1>3, <1>4 DEF Numbered

-----------------------------------------------------------------------------
(* Steps of the switch.                                                    *)

LEMMA InitLines == DataInit => ChanShape /\ Lines
<1> SUFFICES ASSUME DataInit PROVE ChanShape /\ Lines
  OBVIOUS
<1>1. /\ Out = None /\ In = None /\ outEp = << >> /\ inEp = << >>
      /\ QO = << >> /\ RO = << >> /\ QI = << >> /\ RI = << >>
      /\ sent = 0 /\ mark = 0 /\ last.modem = 0 /\ last.host = 0
  BY DEF DataInit, Init, Out, In, QO, RO, QI, RI, NoData, DataChannels, Channels
<1>2. ChanShape
  BY <1>1 DEF ChanShape
<1>3. Everywhere = {}
  BY <1>1, ElementsEmpty DEF Everywhere
<1> QED
  BY <1>1, <1>2, <1>3, ElementsEmpty DEF Lines, Numbered, ModemLine, HostLine, None

LEMMA SwitchingLines == FlowInv /\ FlowTyped' /\ Switching => ChanShape' /\ Lines'
<1> SUFFICES ASSUME FlowInv, FlowTyped', Switching PROVE ChanShape' /\ Lines'
  OBVIOUS
<1>1. /\ outEp' = << >> /\ inEp' = << >>
      /\ QO' = << >> /\ RO' = << >> /\ QI' = << >> /\ RI' = << >>
      /\ mark' = sent /\ sent' = sent /\ last' = last
  BY DEF Switching, RestartData, NewChannels, FlushEps, QO, RO, QI, RI, NoData, DataChannels
<1>2. Out' = None /\ In' = None
  BY DEF Switching, BootSync, DataOnly, ModeCommand, Destroy, Channels, DataChannels, Out, In
<1>3. ChanShape'
  BY <1>2 DEF ChanShape
<1>4. Everywhere' = {}
  BY <1>1, ElementsEmpty DEF Everywhere
<1>5. sent \in Nat /\ last.modem <= sent /\ last.host <= sent
  BY FlowTypes DEF FlowInv, Lines, Numbered
<1>6. Numbered'
  BY <1>1, <1>4, <1>5 DEF Numbered
<1>7. ModemLine'
  BY <1>1, <1>2, <1>5, ElementsEmpty DEF ModemLine, None
<1>8. HostLine'
  BY <1>1, <1>2, <1>5, ElementsEmpty DEF HostLine, None
<1> QED
  BY <1>3, <1>6, <1>7, <1>8 DEF Lines

\* DataOut is created: the packets the host has sent meanwhile are in line.
LEMMA CreateOutLines ==
  ASSUME FlowInv, CreateChannel("DataOut"), UNCHANGED flowVars
  PROVE  ChanShape' /\ ModemLine' /\ HostLine'
<1>1. Typed /\ TodoOpen /\ ChanShape /\ Numbered /\ ModemLine /\ HostLine /\ FlowTyped
  BY DEF FlowInv, Inv, Lines
<1>2. switch # NoSwitch /\ switch \in Switches /\ "DataOut" \in switch.todo
  BY <1>1, NextInTodo DEF CreateChannel
<1>3. Out = None /\ Layout(switch.layout)["DataOut"] # None /\ In = None
  BY <1>1, <1>2 DEF TodoOpen, Out, In, ChanShape
<1>4. Out' = Layout(switch.layout)["DataOut"] /\ In' = In
  BY <1>1 DEF CreateChannel, Typed, Channels, Out, In
<1>5. Out' \in {"CpuToPib", "UibToPib", "UibToCpu", "UibToUib"}
  BY <1>2, <1>3, <1>4 DEF Switches, Modes, Layout
<1>6. UNCHANGED <<outEp, inEp, QO, RO, QI, RI, last, mark>>
  BY DEF flowVars, lineVars, QO, RO, QI, RI
<1>7. QO = << >> /\ RO = << >> /\ last.modem <= mark /\ QI = << >> /\ RI = << >>
      /\ Elements(inEp) \subseteq {Source} /\ last.host <= mark
  BY <1>1, <1>3 DEF ModemLine, HostLine
<1>8. ASSUME NEW m \in Nat, m <= mark
      PROVE  /\ Line(m, << >>, << >>, outEp) /\ Line(m, inEp, << >>, << >>)
             /\ Line(m, inEp, << >>, outEp) /\ Line(m, << >>, << >>, << >>)
  <2>1. \A p \in Elements(outEp) : p \in Nat /\ mark \in Nat /\ mark < p
    BY <1>1, FlowTypes, NoSourceIn DEF Numbered, Everywhere
  <2>2. Above(m, outEp) /\ Above(m, inEp)
    BY <1>7, <1>8, <2>1 DEF Above
  <2>3. Rising(outEp) /\ Rising(inEp)
    BY <1>1, <1>7 DEF ModemLine, Rising, Elements
  <2>4. Below(inEp, outEp)
    BY <1>7 DEF Below
  <2> QED
    BY <2>2, <2>3, <2>4, ElementsEmpty DEF Line, Above, Below
<1>9. last.modem \in Nat /\ last.host \in Nat
  BY <1>1, FlowTypes
<1>10. ChanShape'
  BY <1>3, <1>4, <1>5 DEF ChanShape
<1>11. ModemLine'
  BY <1>1, <1>5, <1>6, <1>7, <1>8, <1>9 DEF ModemLine, None
<1>12. HostLine'
  BY <1>1, <1>3, <1>4, <1>5, <1>6, <1>7, <1>8, <1>9 DEF HostLine, None
<1> QED
  BY <1>10, <1>11, <1>12

LEMMA CreateInLines ==
  ASSUME FlowInv, CreateChannel("DataIn"), UNCHANGED flowVars
  PROVE  ChanShape' /\ ModemLine' /\ HostLine'
<1>1. Typed /\ TodoOpen /\ SwitchOnWay /\ ChanShape /\ ModemLine /\ HostLine
  BY DEF FlowInv, Inv, Lines
<1>2. switch # NoSwitch /\ switch \in Switches /\ "DataIn" \in switch.todo
  BY <1>1, NextInTodo DEF CreateChannel
<1>3. In = None /\ Layout(switch.layout)["DataIn"] # None
  BY <1>1, <1>2 DEF TodoOpen, In
<1>4. "DataOut" \notin switch.todo
  BY DEF CreateChannel, IsNext, Rank
<1>5. Out = Layout(switch.layout)["DataOut"]
  BY <1>1, <1>2, <1>4 DEF SwitchOnWay, DataOnlySwitch, Channels, DataChannels, Out
<1>6. Out' = Out /\ In' = Layout(switch.layout)["DataIn"]
  BY <1>1 DEF CreateChannel, Typed, Channels, Out, In
<1>7. /\ In' \in {"PibToCpu", "PibToUib", "CpuToUib"}
      /\ Out \in {"CpuToPib", "UibToPib", "UibToCpu"}
  BY <1>2, <1>3, <1>5, <1>6 DEF Switches, Modes, Layout
<1>8. UNCHANGED <<outEp, inEp, QO, RO, QI, RI, last, mark>>
  BY DEF flowVars, lineVars, QO, RO, QI, RI
<1>9. ChanShape'
  BY <1>6, <1>7 DEF ChanShape, None
<1>10. ModemLine'
  BY <1>1, <1>6, <1>8, ModemSame
<1>11. HostLine'
  BY <1>1, <1>3, <1>6, <1>7, <1>8 DEF HostLine, None
<1> QED
  BY <1>9, <1>10, <1>11

\* Steps that neither create a data channel nor touch a packet.
LEMMA AwayLines ==
  ASSUME FlowInv, FlowTyped',
         UNCHANGED <<outEp, inEp, raised, queue, last, mark, sent, Out, In>>
  PROVE  ChanShape' /\ Lines'
<1>1. UNCHANGED <<QO, RO, QI, RI, last.modem, last.host>>
  BY DEF QO, RO, QI, RI
<1>2. Numbered'
  BY <1>1 DEF FlowInv, Lines, Numbered, Everywhere
<1>3. ModemLine' /\ HostLine'
  BY <1>1, ModemSame, HostSame DEF FlowInv, Lines
<1>4. ChanShape'
  BY DEF FlowInv, ChanShape
<1> QED
  BY <1>2, <1>3, <1>4 DEF Lines

LEMMA OtherLines == FlowInv /\ FlowTyped' /\ OtherStep => ChanShape' /\ Lines'
<1> SUFFICES ASSUME FlowInv, FlowTyped', OtherStep PROVE ChanShape' /\ Lines'
  OBVIOUS
<1>1. UNCHANGED flowVars /\ UNCHANGED <<outEp, inEp, raised, queue, last, mark, sent>>
  BY DEF OtherStep, flowVars, lineVars
<1>2. Numbered'
  BY <1>1 DEF FlowInv, Lines, Numbered, Everywhere, QO, RO, QI, RI
<1>3. ASSUME NEW c \in Channels, CreateChannel(c) PROVE ChanShape' /\ Lines'
  <2>1. CASE c = "DataOut"
    BY <1>1, <1>2, <1>3, <2>1, CreateOutLines DEF Lines
  <2>2. CASE c = "DataIn"
    BY <1>1, <1>2, <1>3, <2>2, CreateInLines DEF Lines
  <2>3. CASE c \notin DataChannels
    <3>1. UNCHANGED <<Out, In>>
      BY <1>3, <2>3 DEF CreateChannel, FlowInv, Inv, Typed, DataChannels, Channels, Out, In
    <3> QED
      BY <1>1, <3>1, AwayLines
  <2> QED
    BY <2>1, <2>2, <2>3 DEF DataChannels
<1>4. CASE \/ \E c \in Channels : CreateFails(c)
           \/ Announce \/ NoMemory \/ DataTxBegin \/ DataTxEnd \/ DataSink
  <2>1. UNCHANGED <<Out, In>>
    BY <1>4 DEF CreateFails, Announce, NoMemory, DataTxBegin, DataTxEnd, DataSink, Out, In
  <2> QED
    BY <1>1, <2>1, AwayLines
<1> QED
  BY <1>3, <1>4 DEF OtherStep

-----------------------------------------------------------------------------
(* Steps of the data.                                                      *)

LEMMA ExceptEnds ==
  ASSUME NEW f \in [DataChannels -> Seq(Packets)], NEW s
  PROVE  /\ [f EXCEPT !["DataOut"] = s]["DataOut"] = s
         /\ [f EXCEPT !["DataOut"] = s]["DataIn"] = f["DataIn"]
         /\ [f EXCEPT !["DataIn"] = s]["DataIn"] = s
         /\ [f EXCEPT !["DataIn"] = s]["DataOut"] = f["DataOut"]
BY DEF DataChannels

LEMMA QueueEnds ==
  ASSUME NEW s, queue \in [DataChannels -> Seq(Packets)]
  PROVE  /\ queue' = [queue EXCEPT !["DataOut"] = s] => QO' = s /\ QI' = QI
         /\ queue' = [queue EXCEPT !["DataIn"] = s] => QI' = s /\ QO' = QO
<1>1. ASSUME queue' = [queue EXCEPT !["DataOut"] = s] PROVE QO' = s /\ QI' = QI
  BY <1>1 DEF QO, QI, DataChannels
<1>2. ASSUME queue' = [queue EXCEPT !["DataIn"] = s] PROVE QI' = s /\ QO' = QO
  BY <1>2 DEF QO, QI, DataChannels
<1> QED
  BY <1>1, <1>2

LEMMA RaisedEnds ==
  ASSUME NEW s, raised \in [DataChannels -> Seq(Packets)]
  PROVE  /\ raised' = [raised EXCEPT !["DataOut"] = s] => RO' = s /\ RI' = RI
         /\ raised' = [raised EXCEPT !["DataIn"] = s] => RI' = s /\ RO' = RO
<1>1. ASSUME raised' = [raised EXCEPT !["DataOut"] = s] PROVE RO' = s /\ RI' = RI
  BY <1>1 DEF RO, RI, DataChannels
<1>2. ASSUME raised' = [raised EXCEPT !["DataIn"] = s] PROVE RI' = s /\ RO' = RO
  BY <1>2 DEF RO, RI, DataChannels
<1> QED
  BY <1>1, <1>2

LEMMA ClearEffect ==
  ASSUME FlowInv
  PROVE  /\ ClearOut => /\ QO' = << >> /\ RO' = << >> /\ outEp' = << >>
                        /\ UNCHANGED <<QI, RI, inEp>>
         /\ ClearIn  => /\ QI' = << >> /\ RI' = << >> /\ inEp' = << >>
                        /\ UNCHANGED <<QO, RO, outEp>>
<1>1. queue \in [DataChannels -> Seq(Packets)] /\ raised \in [DataChannels -> Seq(Packets)]
  BY FlowTypes DEF FlowInv
<1>2. ASSUME ClearOut
      PROVE  /\ queue' = [queue EXCEPT !["DataOut"] = << >>]
             /\ raised' = [raised EXCEPT !["DataOut"] = << >>]
             /\ outEp' = << >> /\ inEp' = inEp
  BY <1>2 DEF ClearOut
<1>3. ASSUME ClearIn
      PROVE  /\ queue' = [queue EXCEPT !["DataIn"] = << >>]
             /\ raised' = [raised EXCEPT !["DataIn"] = << >>]
             /\ inEp' = << >> /\ outEp' = outEp
  BY <1>3 DEF ClearIn
<1>4. ASSUME ClearOut
      PROVE  QO' = << >> /\ RO' = << >> /\ UNCHANGED <<QI, RI>>
  BY ONLY <1>1, <1>2, <1>4, QueueEnds, RaisedEnds
<1>5. ASSUME ClearIn
      PROVE  QI' = << >> /\ RI' = << >> /\ UNCHANGED <<QO, RO>>
  BY ONLY <1>1, <1>3, <1>5, QueueEnds, RaisedEnds
<1> QED
  BY <1>2, <1>3, <1>4, <1>5

LEMMA SendFacts ==
  ASSUME FlowInv, Send
  PROVE  /\ sent' = sent + 1 /\ sent' \in Nat
         /\ last.modem < sent' /\ last.host < sent'
         /\ \A p \in Everywhere : p \in Nat /\ p < sent'
<1>1. sent \in Nat /\ last.modem \in Nat /\ last.host \in Nat
  BY FlowTypes DEF FlowInv
<1>2. sent' = sent + 1
  BY DEF Send
<1>3. Everywhere \subseteq Nat
  BY FlowTypes, ElementsNat DEF FlowInv, Everywhere
<1>4. ASSUME NEW p \in Everywhere PROVE p < sent'
  BY <1>1, <1>2, <1>3, <1>4 DEF FlowInv, Lines, Numbered, Source
<1> QED
  BY <1>1, <1>2, <1>3, <1>4 DEF FlowInv, Lines, Numbered

LEMMA HostSendLines == FlowInv /\ FlowTyped' /\ HostSend => Lines'
<1> SUFFICES ASSUME FlowInv, FlowTyped', HostSend PROVE Lines'
  OBVIOUS
<1>1. FlowTyped /\ ChanShape /\ Numbered /\ ModemLine /\ HostLine
  BY DEF FlowInv, Lines
<1>2. /\ outEp' = Append(outEp, sent') /\ Send
      /\ UNCHANGED <<chan, inEp, QO, RO, QI, RI, Out, In, last, mark>>
  BY DEF HostSend, vars, QO, RO, QI, RI, Out, In
<1>3. /\ outEp \in Seq(Nat) /\ QO \in Seq(Nat) /\ RO \in Seq(Nat) /\ inEp \in Seq(Nat)
      /\ last.modem \in Nat /\ last.host \in Nat
  BY <1>1, FlowTypes
<1>4. /\ sent' = sent + 1 /\ sent' \in Nat /\ last.modem < sent' /\ last.host < sent'
      /\ \A p \in Everywhere : p \in Nat /\ p < sent'
  BY <1>2, SendFacts
<1>5. Elements(outEp') = Elements(outEp) \cup {sent'}
  BY <1>2, <1>3, <1>4, NumberAppend
<1>6. Numbered'
  <2>1. Everywhere' \subseteq Everywhere \cup {sent'}
    BY <1>2, <1>5 DEF Everywhere
  <2>2. last'.modem <= sent' /\ last'.host <= sent'
    BY <1>2, <1>3, <1>4
  <2> QED
    BY <1>1, <1>2, <1>4, <2>1, <2>2, NumberedKept
<1>7. Rising(outEp')
  BY <1>1, <1>2, <1>3, <1>4, RisingAppend DEF ModemLine, Everywhere
<1>8. ModemLine'
  <2>1. Line(last.modem, QO, RO, outEp) => Line(last.modem, QO, RO, outEp')
    BY <1>2, <1>3, <1>4, LineSent DEF Everywhere
  <2> QED
    BY <1>1, <1>2, <1>7, <2>1 DEF ModemLine
<1>9. HostLine'
  <2>1. Line(last.host, inEp, QO, outEp) => Line(last.host, inEp, QO, outEp')
    BY <1>2, <1>3, <1>4, LineSent DEF Everywhere
  <2> QED
    BY <1>1, <1>2, <2>1 DEF HostLine
<1> QED
  BY <1>6, <1>8, <1>9 DEF Lines

LEMMA ProduceEffect ==
  ASSUME FlowInv, ProduceOut
  PROVE  /\ outEp # << >> /\ outEp' = Tail(outEp)
         /\ UNCHANGED <<inEp, QI, RI, Out, In, last, mark, sent>>
         /\ \/ /\ Out \in {"UibToPib", "UibToCpu"}
               /\ RO' = Append(RO, Head(outEp)) /\ QO' = QO
            \/ /\ Out = "UibToUib"
               /\ QO' = Append(QO, Head(outEp)) /\ RO' = RO
<1>0. FlowTyped /\ ChanShape
  BY DEF FlowInv
<1>1. queue \in [DataChannels -> Seq(Packets)] /\ raised \in [DataChannels -> Seq(Packets)]
  BY <1>0, FlowTypes
<1>2. CASE /\ Out \in {"UibToPib", "UibToCpu"} /\ UNCHANGED queue
           /\ raised' = [raised EXCEPT !["DataOut"] = Append(@, Head(outEp))]
  <2>1. /\ raised'["DataOut"] = Append(raised["DataOut"], Head(outEp))
        /\ raised'["DataIn"] = raised["DataIn"]
    BY <1>1, <1>2 DEF DataChannels
  <2> QED
    BY <1>2, <2>1 DEF ProduceOut, vars, QO, RO, QI, RI, Out, In
<1>3. CASE /\ Out = "UibToUib" /\ UNCHANGED raised
           /\ queue' = [queue EXCEPT !["DataOut"] = Append(@, Head(outEp))]
  <2>1. /\ queue'["DataOut"] = Append(queue["DataOut"], Head(outEp))
        /\ queue'["DataIn"] = queue["DataIn"]
    BY <1>1, <1>3 DEF DataChannels
  <2> QED
    BY <1>3, <2>1 DEF ProduceOut, vars, QO, RO, QI, RI, Out, In
<1> QED
  BY <1>2, <1>3 DEF ProduceOut, Out

LEMMA ProduceLines == FlowInv /\ FlowTyped' /\ ProduceOut => Lines'
<1> SUFFICES ASSUME FlowInv, FlowTyped', ProduceOut PROVE Lines'
  OBVIOUS
<1>1. FlowTyped /\ ChanShape /\ Numbered /\ ModemLine /\ HostLine
  BY DEF FlowInv, Lines
<1>2. /\ outEp # << >> /\ outEp' = Tail(outEp)
      /\ UNCHANGED <<inEp, QI, RI, Out, In, last, mark, sent>>
      /\ \/ /\ Out \in {"UibToPib", "UibToCpu"}
            /\ RO' = Append(RO, Head(outEp)) /\ QO' = QO
         \/ /\ Out = "UibToUib"
            /\ QO' = Append(QO, Head(outEp)) /\ RO' = RO
  BY ProduceEffect
<1>3. /\ outEp \in Seq(Nat) /\ QO \in Seq(Nat) /\ RO \in Seq(Nat) /\ inEp \in Seq(Nat)
      /\ last.modem \in Nat /\ last.host \in Nat /\ Source \notin Elements(outEp)
  BY <1>1, FlowTypes, NoSourceIn
<1>4. /\ Head(outEp) \in Elements(outEp) /\ Elements(Tail(outEp)) \subseteq Elements(outEp)
      /\ Rising(Tail(outEp)) /\ Head(outEp) \in Nat
  BY <1>1, <1>2, <1>3, ElementsTail, RisingTail, TailFacts DEF ModemLine
<1>5. /\ Elements(Append(RO, Head(outEp))) = Elements(RO) \cup {Head(outEp)}
      /\ Elements(Append(QO, Head(outEp))) = Elements(QO) \cup {Head(outEp)}
  BY <1>3, <1>4, NumberAppend
<1>6. Numbered'
  <2>1. Everywhere' \subseteq Everywhere
    BY <1>2, <1>4, <1>5 DEF Everywhere
  <2> QED
    BY <1>1, <1>2, <2>1, NumberedKept DEF Numbered
<1>7. CASE Out \in {"UibToPib", "UibToCpu"}
  <2>1. Line(last.modem, QO, Append(RO, Head(outEp)), Tail(outEp))
    BY <1>1, <1>2, <1>3, <1>7, LineLastMoves DEF ModemLine
  <2>2. ModemLine'
    BY <1>1, <1>2, <1>4, <1>7, <2>1 DEF ModemLine, None
  <2>3. HostLine'
    BY <1>1, <1>2, <1>7 DEF HostLine, None
  <2> QED
    BY <1>6, <2>2, <2>3 DEF Lines
<1>8. CASE Out = "UibToUib"
  <2>1. Line(last.host, inEp, Append(QO, Head(outEp)), Tail(outEp))
    BY <1>1, <1>2, <1>3, <1>8, LineLastMoves DEF HostLine
  <2>2. ModemLine'
    BY <1>1, <1>2, <1>4, <1>8 DEF ModemLine, None
  <2>3. HostLine'
    BY <1>1, <1>2, <1>8, <2>1 DEF HostLine, None
  <2> QED
    BY <1>6, <2>2, <2>3 DEF Lines
<1> QED
  BY <1>2, <1>7, <1>8

LEMMA CallbackOutEffect ==
  FlowInv /\ Callback("DataOut")
    => /\ RO # << >> /\ RO' = Tail(RO)
       /\ QO' = IF Out = "UibToCpu" THEN QO ELSE Append(QO, Head(RO))
       /\ UNCHANGED <<outEp, inEp, QI, RI, Out, In, last, mark, sent>>
<1> SUFFICES ASSUME FlowInv, Callback("DataOut")
             PROVE  /\ RO # << >> /\ RO' = Tail(RO)
                    /\ QO' = IF Out = "UibToCpu" THEN QO ELSE Append(QO, Head(RO))
                    /\ UNCHANGED <<outEp, inEp, QI, RI, Out, In, last, mark, sent>>
  OBVIOUS
<1>0. FlowTyped /\ ChanShape
  BY DEF FlowInv
<1>1. queue \in [DataChannels -> Seq(Packets)] /\ raised \in [DataChannels -> Seq(Packets)]
  BY <1>0, FlowTypes
<1>2. raised'["DataOut"] = Tail(raised["DataOut"]) /\ raised'["DataIn"] = raised["DataIn"]
  BY <1>1 DEF Callback, DataChannels
<1>3. /\ queue'["DataOut"] = IF Out = "UibToCpu" THEN queue["DataOut"]
                           ELSE Append(queue["DataOut"], Head(raised["DataOut"]))
      /\ queue'["DataIn"] = queue["DataIn"]
  BY <1>1 DEF Callback, DataChannels, Out
<1> QED
  BY <1>2, <1>3 DEF Callback, vars, QO, RO, QI, RI, Out, In

LEMMA CallbackOutLines == FlowInv /\ FlowTyped' /\ Callback("DataOut") => Lines'
<1> SUFFICES ASSUME FlowInv, FlowTyped', Callback("DataOut") PROVE Lines'
  OBVIOUS
<1>1. FlowTyped /\ ChanShape /\ Numbered /\ ModemLine /\ HostLine
  BY DEF FlowInv, Lines
<1>2. /\ RO # << >> /\ RO' = Tail(RO)
      /\ QO' = IF Out = "UibToCpu" THEN QO ELSE Append(QO, Head(RO))
      /\ UNCHANGED <<outEp, inEp, QI, RI, Out, In, last, mark, sent>>
  BY CallbackOutEffect
<1>3. /\ outEp \in Seq(Nat) /\ QO \in Seq(Nat) /\ RO \in Seq(Nat)
      /\ last.modem \in Nat /\ Source \notin Elements(RO)
  BY <1>1, FlowTypes, NoSourceIn
<1>4. Out \in {"UibToPib", "UibToCpu"}
  BY <1>1, <1>2 DEF ChanShape, ModemLine
<1>5. Line(last.modem, QO, RO, outEp)
  BY <1>1, <1>4 DEF ModemLine
<1>6. /\ Head(RO) \in Elements(RO) /\ Head(RO) \in Nat /\ Elements(Tail(RO)) \subseteq Elements(RO)
  BY <1>2, <1>3, ElementsTail, TailFacts
<1>7. Elements(Append(QO, Head(RO))) = Elements(QO) \cup {Head(RO)}
  BY <1>3, <1>6, NumberAppend
<1>8. Numbered'
  <2>1. Everywhere' \subseteq Everywhere
    BY <1>2, <1>6, <1>7 DEF Everywhere
  <2> QED
    BY <1>1, <1>2, <2>1, NumberedKept DEF Numbered
<1>9. Line(last.modem, QO', RO', outEp)
  <2>1. CASE Out = "UibToCpu"
    BY <1>2, <1>3, <1>5, <2>1, LineTails
  <2>2. CASE Out = "UibToPib"
    BY <1>2, <1>3, <1>5, <2>2, LineSecondMoves
  <2> QED
    BY <1>4, <2>1, <2>2
<1>10. ModemLine'
  BY <1>1, <1>2, <1>4, <1>9 DEF ModemLine, None
<1>11. HostLine'
  BY <1>1, <1>2, <1>4 DEF HostLine, None
<1> QED
  BY <1>8, <1>10, <1>11 DEF Lines

LEMMA CallbackInEffect ==
  FlowInv /\ Callback("DataIn")
    => /\ RI # << >> /\ RI' = Tail(RI)
       /\ QI' = IF In = "UibToCpu" THEN QI ELSE Append(QI, Head(RI))
       /\ UNCHANGED <<outEp, inEp, QO, RO, Out, In, last, mark, sent>>
<1> SUFFICES ASSUME FlowInv, Callback("DataIn")
             PROVE  /\ RI # << >> /\ RI' = Tail(RI)
                    /\ QI' = IF In = "UibToCpu" THEN QI ELSE Append(QI, Head(RI))
                    /\ UNCHANGED <<outEp, inEp, QO, RO, Out, In, last, mark, sent>>
  OBVIOUS
<1>0. FlowTyped /\ ChanShape
  BY DEF FlowInv
<1>1. queue \in [DataChannels -> Seq(Packets)] /\ raised \in [DataChannels -> Seq(Packets)]
  BY <1>0, FlowTypes
<1>2. raised'["DataIn"] = Tail(raised["DataIn"]) /\ raised'["DataOut"] = raised["DataOut"]
  BY <1>1 DEF Callback, DataChannels
<1>3. /\ queue'["DataIn"] = IF In = "UibToCpu" THEN queue["DataIn"]
                           ELSE Append(queue["DataIn"], Head(raised["DataIn"]))
      /\ queue'["DataOut"] = queue["DataOut"]
  BY <1>1 DEF Callback, DataChannels, In
<1> QED
  BY <1>2, <1>3 DEF Callback, vars, QO, RO, QI, RI, Out, In

LEMMA CallbackInLines == FlowInv /\ FlowTyped' /\ Callback("DataIn") => Lines'
<1> SUFFICES ASSUME FlowInv, FlowTyped', Callback("DataIn") PROVE Lines'
  OBVIOUS
<1>1. FlowTyped /\ ChanShape /\ Numbered /\ ModemLine /\ HostLine
  BY DEF FlowInv, Lines
<1>2. /\ RI # << >> /\ RI' = Tail(RI)
      /\ QI' = IF In = "UibToCpu" THEN QI ELSE Append(QI, Head(RI))
      /\ UNCHANGED <<outEp, inEp, QO, RO, Out, In, last, mark, sent>>
  BY CallbackInEffect
<1>3. /\ inEp \in Seq(Nat) /\ QI \in Seq(Nat) /\ RI \in Seq(Nat)
      /\ last.host \in Nat /\ Source \notin Elements(RI)
  BY <1>1, FlowTypes, NoSourceIn
<1>4. In \in {"PibToUib", "CpuToUib"} /\ Out \notin {None, "UibToUib"}
  BY <1>1, <1>2 DEF ChanShape, HostLine, None
<1>5. Line(last.host, inEp, QI, RI)
  BY <1>1, <1>4 DEF HostLine
<1>6. /\ Head(RI) \in Elements(RI) /\ Head(RI) \in Nat /\ Elements(Tail(RI)) \subseteq Elements(RI)
  BY <1>2, <1>3, ElementsTail, TailFacts
<1>7. Elements(Append(QI, Head(RI))) = Elements(QI) \cup {Head(RI)}
  BY <1>3, <1>6, NumberAppend
<1>8. Numbered'
  <2>1. Everywhere' \subseteq Everywhere
    BY <1>2, <1>6, <1>7 DEF Everywhere
  <2> QED
    BY <1>1, <1>2, <2>1, NumberedKept DEF Numbered
<1>9. Line(last.host, inEp, QI', RI')
  BY <1>2, <1>3, <1>4, <1>5, LineLastMoves
<1>10. ModemLine'
  BY <1>1, <1>2, ModemSame
<1>11. HostLine'
  BY <1>1, <1>2, <1>4, <1>9 DEF HostLine, None
<1> QED
  BY <1>8, <1>10, <1>11 DEF Lines

LEMMA CpuSendEffect ==
  ASSUME FlowInv, CpuSend
  PROVE  /\ QO' = Append(QO, sent') /\ Send /\ Out = "CpuToPib"
         /\ UNCHANGED <<outEp, inEp, RO, QI, RI, Out, In, last, mark>>
<1>1. queue \in [DataChannels -> Seq(Packets)]
  BY FlowTypes DEF FlowInv
<1>2. /\ queue' = [queue EXCEPT !["DataOut"] = Append(QO, sent')] /\ Send /\ Out = "CpuToPib"
      /\ UNCHANGED <<outEp, inEp, RO, RI, Out, In, last, mark>>
  BY DEF CpuSend, vars, QO, RO, RI, Out, In
<1> QED
  BY ONLY <1>1, <1>2, QueueEnds

LEMMA CpuSendLines == FlowInv /\ FlowTyped' /\ CpuSend => Lines'
<1> SUFFICES ASSUME FlowInv, FlowTyped', CpuSend PROVE Lines'
  OBVIOUS
<1>1. FlowTyped /\ ChanShape /\ Numbered /\ ModemLine /\ HostLine
  BY DEF FlowInv, Lines
<1>2. /\ QO' = Append(QO, sent') /\ Send /\ Out = "CpuToPib"
      /\ UNCHANGED <<outEp, inEp, RO, QI, RI, Out, In, last, mark>>
  BY CpuSendEffect
<1>3. QO \in Seq(Nat) /\ last.modem \in Nat /\ last.host \in Nat /\ << >> \in Seq(Nat)
  BY <1>1, FlowTypes
<1>4. /\ sent' = sent + 1 /\ sent' \in Nat /\ last.modem < sent' /\ last.host < sent'
      /\ \A p \in Everywhere : p \in Nat /\ p < sent'
  BY <1>2, SendFacts
<1>5. Elements(QO') = Elements(QO) \cup {sent'}
  BY <1>2, <1>3, <1>4, NumberAppend
<1>6. Numbered'
  <2>1. Everywhere' \subseteq Everywhere \cup {sent'}
    BY <1>2, <1>5 DEF Everywhere
  <2>2. last'.modem <= sent' /\ last'.host <= sent'
    BY <1>2, <1>3, <1>4
  <2> QED
    BY <1>1, <1>2, <1>4, <2>1, <2>2, NumberedKept
<1>7. Line(last.modem, QO', << >>, << >>)
  <2>1. Line(last.modem, QO, << >>, << >>)
    BY <1>1, <1>2 DEF ModemLine
  <2>2. \A y \in Elements(QO) \cup Elements(<< >>) \cup Elements(<< >>) : y < sent'
    BY <1>4, ElementsEmpty DEF Everywhere
  <2> QED
    BY <1>2, <1>3, <1>4, <2>1, <2>2, LineSent
<1>8. ModemLine'
  BY <1>1, <1>2, <1>7 DEF ModemLine, None
<1>9. HostLine'
  BY <1>1, <1>2 DEF HostLine, None
<1> QED
  BY <1>6, <1>8, <1>9 DEF Lines

LEMMA ModemTakeEffect ==
  ASSUME FlowInv, ModemTake
  PROVE  /\ QO # << >> /\ QO' = Tail(QO) /\ last' = [last EXCEPT !.modem = Head(QO)]
         /\ Out \in {"UibToPib", "CpuToPib"}
         /\ UNCHANGED <<outEp, inEp, RO, QI, RI, Out, In, mark, sent>>
<1>0. FlowTyped /\ ChanShape
  BY DEF FlowInv
<1> QED
  BY <1>0, FlowTypes, ExceptEnds DEF ModemTake, vars, QO, RO, QI, RI, Out, In

LEMMA ModemTakeLines == FlowInv /\ FlowTyped' /\ ModemTake => Lines'
<1> SUFFICES ASSUME FlowInv, FlowTyped', ModemTake PROVE Lines'
  OBVIOUS
<1>1. FlowTyped /\ ChanShape /\ Numbered /\ ModemLine /\ HostLine
  BY DEF FlowInv, Lines
<1>2. /\ QO # << >> /\ QO' = Tail(QO) /\ last' = [last EXCEPT !.modem = Head(QO)]
      /\ Out \in {"UibToPib", "CpuToPib"}
      /\ UNCHANGED <<outEp, inEp, RO, QI, RI, Out, In, mark, sent>>
  BY ModemTakeEffect
<1>3. /\ QO \in Seq(Nat) /\ last.modem \in Nat /\ last.host \in Nat /\ Source \notin Elements(QO)
      /\ last'.modem = Head(QO) /\ last'.host = last.host
  BY <1>1, <1>2, FlowTypes, NoSourceIn
<1>4. Head(QO) \in Elements(QO) /\ Head(QO) # Source /\ Elements(Tail(QO)) \subseteq Elements(QO)
  BY <1>2, <1>3, ElementsTail
<1>5. Numbered'
  <2>1. Everywhere' \subseteq Everywhere
    BY <1>2, <1>4 DEF Everywhere
  <2>2. last'.modem <= sent' /\ last'.host <= sent'
    BY <1>1, <1>2, <1>3, <1>4 DEF Numbered, Everywhere
  <2> QED
    BY <1>1, <1>2, <2>1, <2>2, NumberedKept
<1>6. ASSUME NEW b, NEW c, Line(last.modem, QO, b, c) PROVE Line(last'.modem, QO', b, c)
  BY <1>2, <1>3, <1>4, <1>6, LineTaken
<1>7. ModemLine'
  BY <1>1, <1>2, <1>6 DEF ModemLine, None
<1>8. HostLine'
  BY <1>1, <1>2, <1>3 DEF HostLine, None
<1> QED
  BY <1>5, <1>7, <1>8 DEF Lines

LEMMA ModemSendEffect ==
  ASSUME FlowInv, ModemSend
  PROVE  /\ Send
         /\ UNCHANGED <<outEp, inEp, QO, RO, Out, In, last, mark>>
         /\ \/ In = "PibToUib" /\ RI' = Append(RI, sent') /\ QI' = QI
            \/ In = "PibToCpu" /\ QI' = Append(QI, sent') /\ RI' = RI
<1>0. FlowTyped /\ ChanShape
  BY DEF FlowInv
<1>1. queue \in [DataChannels -> Seq(Packets)] /\ raised \in [DataChannels -> Seq(Packets)]
  BY <1>0, FlowTypes
<1>2. CASE /\ In = "PibToUib" /\ UNCHANGED queue
           /\ raised' = [raised EXCEPT !["DataIn"] = Append(@, sent')]
  <2>1. /\ raised'["DataIn"] = Append(raised["DataIn"], sent')
        /\ raised'["DataOut"] = raised["DataOut"]
    BY <1>1, <1>2 DEF DataChannels
  <2> QED
    BY <1>2, <2>1 DEF ModemSend, vars, QO, RO, QI, RI, Out, In
<1>3. CASE /\ In = "PibToCpu" /\ UNCHANGED raised
           /\ queue' = [queue EXCEPT !["DataIn"] = Append(@, sent')]
  <2>1. /\ queue'["DataIn"] = Append(queue["DataIn"], sent')
        /\ queue'["DataOut"] = queue["DataOut"]
    BY <1>1, <1>3 DEF DataChannels
  <2> QED
    BY <1>3, <2>1 DEF ModemSend, vars, QO, RO, QI, RI, Out, In
<1> QED
  BY <1>2, <1>3 DEF ModemSend, In

LEMMA ModemSendLines == FlowInv /\ FlowTyped' /\ ModemSend => Lines'
<1> SUFFICES ASSUME FlowInv, FlowTyped', ModemSend PROVE Lines'
  OBVIOUS
<1>1. FlowTyped /\ ChanShape /\ Numbered /\ ModemLine /\ HostLine
  BY DEF FlowInv, Lines
<1>2. /\ Send
      /\ UNCHANGED <<outEp, inEp, QO, RO, Out, In, last, mark>>
      /\ \/ In = "PibToUib" /\ RI' = Append(RI, sent') /\ QI' = QI
         \/ In = "PibToCpu" /\ QI' = Append(QI, sent') /\ RI' = RI
  BY ModemSendEffect
<1>3. /\ inEp \in Seq(Nat) /\ QI \in Seq(Nat) /\ RI \in Seq(Nat)
      /\ last.modem \in Nat /\ last.host \in Nat
  BY <1>1, FlowTypes
<1>4. /\ sent' = sent + 1 /\ sent' \in Nat /\ last.modem < sent' /\ last.host < sent'
      /\ \A p \in Everywhere : p \in Nat /\ p < sent'
  BY <1>2, SendFacts
<1>5. Out \notin {None, "UibToUib"}
  BY <1>1, <1>2 DEF ChanShape, None
<1>6. /\ Elements(Append(QI, sent')) = Elements(QI) \cup {sent'}
      /\ Elements(Append(RI, sent')) = Elements(RI) \cup {sent'}
  BY <1>3, <1>4, NumberAppend
<1>7. Numbered'
  <2>1. Everywhere' \subseteq Everywhere \cup {sent'}
    BY <1>2, <1>6 DEF Everywhere
  <2>2. last'.modem <= sent' /\ last'.host <= sent'
    BY <1>2, <1>3, <1>4
  <2> QED
    BY <1>1, <1>2, <1>4, <2>1, <2>2, NumberedKept
<1>8. Line(last.host, inEp, QI', RI')
  <2>1. Line(last.host, inEp, QI, RI)
    BY <1>1, <1>5 DEF HostLine
  <2>2. \A y \in Elements(inEp) \cup Elements(QI) \cup Elements(RI) : y < sent'
    BY <1>4 DEF Everywhere
  <2>3. /\ Line(last.host, inEp, QI, Append(RI, sent'))
        /\ RI = << >> => Line(last.host, inEp, Append(QI, sent'), << >>)
    BY <1>3, <1>4, <2>1, <2>2, LineSent
  <2> QED
    BY <1>1, <1>2, <2>3 DEF HostLine
<1>9. ModemLine'
  BY <1>1, <1>2, ModemSame
<1>10. HostLine'
  BY <1>1, <1>2, <1>5, <1>8 DEF HostLine, None
<1> QED
  BY <1>7, <1>9, <1>10 DEF Lines

LEMMA CpuReceiveEffect ==
  ASSUME FlowInv, CpuReceive
  PROVE  /\ QI # << >> /\ QI' = Tail(QI) /\ In = "PibToCpu"
         /\ UNCHANGED <<outEp, inEp, QO, RO, RI, Out, In, last, mark, sent>>
<1>1. queue \in [DataChannels -> Seq(Packets)]
  BY FlowTypes DEF FlowInv
<1>2. /\ queue' = [queue EXCEPT !["DataIn"] = Tail(QI)] /\ QI # << >> /\ In = "PibToCpu"
      /\ UNCHANGED <<outEp, inEp, RO, RI, Out, In, last, mark, sent>>
  BY DEF CpuReceive, vars, RO, RI, QI, Out, In
<1> QED
  BY ONLY <1>1, <1>2, QueueEnds

LEMMA CpuReceiveLines == FlowInv /\ FlowTyped' /\ CpuReceive => Lines'
<1> SUFFICES ASSUME FlowInv, FlowTyped', CpuReceive PROVE Lines'
  OBVIOUS
<1>1. FlowTyped /\ ChanShape /\ Numbered /\ ModemLine /\ HostLine
  BY DEF FlowInv, Lines
<1>2. /\ QI # << >> /\ QI' = Tail(QI) /\ In = "PibToCpu"
      /\ UNCHANGED <<outEp, inEp, QO, RO, RI, Out, In, last, mark, sent>>
  BY CpuReceiveEffect
<1>3. inEp \in Seq(Nat) /\ QI \in Seq(Nat) /\ RI \in Seq(Nat) /\ last.host \in Nat
  BY <1>1, FlowTypes
<1>4. Out \notin {None, "UibToUib"}
  BY <1>1, <1>2 DEF ChanShape, None
<1>5. Numbered'
  <2>1. Elements(QI') \subseteq Elements(QI)
    BY <1>2, <1>3, ElementsTail
  <2>2. Everywhere' \subseteq Everywhere
    BY <1>2, <2>1 DEF Everywhere
  <2> QED
    BY <1>1, <1>2, <2>2, NumberedKept DEF Numbered
<1>6. Line(last.host, inEp, QI', RI)
  BY <1>1, <1>2, <1>3, <1>4, LineTails DEF HostLine
<1>7. ModemLine'
  BY <1>1, <1>2, ModemSame
<1>8. HostLine'
  BY <1>1, <1>2, <1>4, <1>6 DEF HostLine, None
<1> QED
  BY <1>5, <1>7, <1>8 DEF Lines

LEMMA ToEndpointEffect ==
  ASSUME FlowInv, ToEndpoint
  PROVE  \/ /\ Out = "UibToUib" /\ QO # << >>
            /\ inEp' = Append(inEp, Head(QO)) /\ QO' = Tail(QO) /\ QI' = QI
         \/ /\ In = "PibToUib" /\ QI # << >>
            /\ inEp' = Append(inEp, Head(QI)) /\ QI' = Tail(QI) /\ QO' = QO
<1>0. FlowTyped /\ ChanShape
  BY DEF FlowInv
<1>9. queue \in [DataChannels -> Seq(Packets)]
  BY <1>0, FlowTypes
<1>1. PICK c \in Inward : /\ queue[c] # << >>
                          /\ inEp' = Append(inEp, Head(queue[c]))
                          /\ queue' = [queue EXCEPT ![c] = Tail(@)]
  BY DEF ToEndpoint
<1>2. CASE c = "DataOut"
  <2>1. chan["DataOut"] = "UibToUib"
    BY <1>0, <1>1, <1>2 DEF Inward, ChanShape, Out, None
  <2>2. queue'["DataOut"] = Tail(queue["DataOut"]) /\ queue'["DataIn"] = queue["DataIn"]
    BY <1>9, <1>1, <1>2 DEF DataChannels
  <2> QED
    BY <1>1, <1>2, <2>1, <2>2 DEF QO, QI, Out
<1>3. CASE c = "DataIn"
  <2>1. chan["DataIn"] = "PibToUib"
    BY <1>0, <1>1, <1>3 DEF Inward, ChanShape, In, None
  <2>2. queue'["DataIn"] = Tail(queue["DataIn"]) /\ queue'["DataOut"] = queue["DataOut"]
    BY <1>9, <1>1, <1>3 DEF DataChannels
  <2> QED
    BY <1>1, <1>3, <2>1, <2>2 DEF QO, QI, In
<1> QED
  BY <1>1, <1>2, <1>3 DEF Inward, DataChannels

LEMMA ToEndpointLines == FlowInv /\ FlowTyped' /\ ToEndpoint => Lines'
<1> SUFFICES ASSUME FlowInv, FlowTyped', ToEndpoint PROVE Lines'
  OBVIOUS
<1>1. FlowTyped /\ ChanShape /\ Numbered /\ ModemLine /\ HostLine
  BY DEF FlowInv, Lines
<1>2. UNCHANGED <<outEp, RO, RI, Out, In, last, mark, sent>>
  BY DEF ToEndpoint, vars, RO, RI, Out, In
<1>3. /\ inEp \in Seq(Nat) /\ QO \in Seq(Nat) /\ QI \in Seq(Nat) /\ outEp \in Seq(Nat)
      /\ RI \in Seq(Nat) /\ last.host \in Nat
      /\ Source \notin Elements(QO) /\ Source \notin Elements(QI)
  BY <1>1, FlowTypes, NoSourceIn
<1>4. queue \in [DataChannels -> Seq(Packets)]
  BY <1>1, FlowTypes
<1>5. \/ /\ Out = "UibToUib" /\ QO # << >>
         /\ inEp' = Append(inEp, Head(QO)) /\ QO' = Tail(QO) /\ QI' = QI
      \/ /\ In = "PibToUib" /\ QI # << >>
         /\ inEp' = Append(inEp, Head(QI)) /\ QI' = Tail(QI) /\ QO' = QO
  BY ToEndpointEffect
<1>6. CASE /\ Out = "UibToUib" /\ QO # << >>
           /\ inEp' = Append(inEp, Head(QO)) /\ QO' = Tail(QO) /\ QI' = QI
  <2>1. Head(QO) \in Elements(QO) /\ Head(QO) \in Nat /\ Elements(Tail(QO)) \subseteq Elements(QO)
    BY <1>3, <1>6, ElementsTail, TailFacts
  <2>2. Elements(Append(inEp, Head(QO))) = Elements(inEp) \cup {Head(QO)}
    BY <1>3, <2>1, NumberAppend
  <2>3. Everywhere' \subseteq Everywhere
    BY <1>2, <1>6, <2>1, <2>2 DEF Everywhere
  <2>4. Numbered'
    BY <1>1, <1>2, <2>3, NumberedKept DEF Numbered
  <2>5. Line(last.host, inEp', QO', outEp)
    BY <1>1, <1>3, <1>6, LineSecondMoves DEF HostLine
  <2>6. ModemLine'
    BY <1>1, <1>2, <1>6 DEF ModemLine, None
  <2>7. HostLine'
    BY <1>1, <1>2, <1>6, <2>5 DEF HostLine, None
  <2> QED
    BY <2>4, <2>6, <2>7 DEF Lines
<1>7. CASE /\ In = "PibToUib" /\ QI # << >>
           /\ inEp' = Append(inEp, Head(QI)) /\ QI' = Tail(QI) /\ QO' = QO
  <2>1. Head(QI) \in Elements(QI) /\ Head(QI) \in Nat /\ Elements(Tail(QI)) \subseteq Elements(QI)
    BY <1>3, <1>7, ElementsTail, TailFacts
  <2>2. Elements(Append(inEp, Head(QI))) = Elements(inEp) \cup {Head(QI)}
    BY <1>3, <2>1, NumberAppend
  <2>3. Everywhere' \subseteq Everywhere
    BY <1>2, <1>7, <2>1, <2>2 DEF Everywhere
  <2>4. Numbered'
    BY <1>1, <1>2, <2>3, NumberedKept DEF Numbered
  <2>5. Out \notin {None, "UibToUib"}
    BY <1>1, <1>7 DEF ChanShape, None
  <2>6. Line(last.host, inEp', QI', RI)
    BY <1>1, <1>3, <1>7, <2>5, LineSecondMoves DEF HostLine
  <2>7. ModemLine'
    BY <1>1, <1>2, <1>7, ModemSame
  <2>8. HostLine'
    BY <1>1, <1>2, <1>7, <2>5, <2>6 DEF HostLine, None
  <2> QED
    BY <2>4, <2>7, <2>8 DEF Lines
<1> QED
  BY <1>5, <1>6, <1>7

LEMMA HostReceiveLines == FlowInv /\ FlowTyped' /\ HostReceive => Lines'
<1> SUFFICES ASSUME FlowInv, FlowTyped', HostReceive PROVE Lines'
  OBVIOUS
<1>1. FlowTyped /\ ChanShape /\ Numbered /\ ModemLine /\ HostLine
  BY DEF FlowInv, Lines
<1>2. /\ inEp # << >> /\ inEp' = Tail(inEp)
      /\ last' = IF Head(inEp) = Source THEN last ELSE [last EXCEPT !.host = Head(inEp)]
      /\ UNCHANGED <<outEp, QO, RO, QI, RI, Out, In, mark, sent>>
  BY DEF HostReceive, vars, QO, RO, QI, RI, Out, In
<1>3. inEp \in Seq(Nat) /\ last.modem \in Nat /\ last.host \in Nat
  BY <1>1, FlowTypes
<1>4. /\ last'.host = IF Head(inEp) = Source THEN last.host ELSE Head(inEp)
      /\ last'.modem = last.modem
  BY <1>1, <1>2, FlowTypes
<1>5. Head(inEp) \in Elements(inEp) /\ Elements(Tail(inEp)) \subseteq Elements(inEp)
  BY <1>2, <1>3, ElementsTail
<1>6. Numbered'
  <2>1. Everywhere' \subseteq Everywhere
    BY <1>2, <1>5 DEF Everywhere
  <2>2. last'.modem <= sent' /\ last'.host <= sent'
    BY <1>1, <1>2, <1>4, <1>5 DEF Numbered, Everywhere
  <2> QED
    BY <1>1, <1>2, <2>1, <2>2, NumberedKept
<1>7. ASSUME NEW b, NEW c, Line(last.host, inEp, b, c) PROVE Line(last'.host, inEp', b, c)
  BY <1>2, <1>3, <1>4, <1>7, LineTaken
<1>8. ModemLine'
  BY <1>1, <1>2, <1>4, ModemSame
<1>9. Out = None => Elements(inEp') \subseteq {Source} /\ last'.host = last.host
  BY <1>1, <1>2, <1>4, <1>5 DEF HostLine
<1>10. HostLine'
  BY <1>1, <1>2, <1>7, <1>9 DEF HostLine
<1> QED
  BY <1>6, <1>8, <1>10 DEF Lines

LEMMA TakeSourceLines == FlowInv /\ FlowTyped' /\ TakeSource => Lines'
<1> SUFFICES ASSUME FlowInv, FlowTyped', TakeSource PROVE Lines'
  OBVIOUS
<1>1. FlowTyped /\ ChanShape /\ Numbered /\ ModemLine /\ HostLine
  BY DEF FlowInv, Lines
<1>2. /\ inEp' = Append(inEp, Source)
      /\ UNCHANGED <<outEp, QO, RO, QI, RI, Out, In, last, mark, sent>>
  BY DEF TakeSource, vars, QO, RO, QI, RI, Out, In
<1>3. inEp \in Seq(Nat) /\ Source \in Nat
  BY <1>1, FlowTypes DEF Source
<1>4. Elements(inEp') = Elements(inEp) \cup {Source}
  BY <1>2, <1>3, NumberAppend
<1>5. Numbered'
  <2>1. Everywhere' \subseteq Everywhere \cup {Source}
    BY <1>2, <1>4 DEF Everywhere
  <2> QED
    BY <1>1, <1>2, <2>1, NumberedKept DEF Numbered
<1>6. ASSUME NEW b, NEW c, Line(last.host, inEp, b, c) PROVE Line(last.host, inEp', b, c)
  BY <1>2, <1>3, <1>6, LineSource
<1>7. ModemLine'
  BY <1>1, <1>2, ModemSame
<1>8. HostLine'
  BY <1>1, <1>2, <1>4, <1>6 DEF HostLine
<1> QED
  BY <1>5, <1>7, <1>8 DEF Lines

\* AppStop and CLEAR_FEATURE take packets out of the lines.
LEMMA FlushLines ==
  ASSUME FlowInv, FlowTyped',
         UNCHANGED <<Out, In, last, mark, sent>>,
         outEp' \in {outEp, << >>}, inEp' \in {inEp, << >>},
         UNCHANGED <<QO, RO>> \/ (QO' = << >> /\ RO' = << >> /\ outEp' = << >>),
         UNCHANGED <<QI, RI>> \/ (QI' = << >> /\ RI' = << >>)
  PROVE  Lines'
<1>1. FlowTyped /\ ChanShape /\ Numbered /\ ModemLine /\ HostLine
  BY DEF FlowInv, Lines
<1>2. ASSUME NEW s, NEW t \in {s, << >>}
      PROVE  Elements(t) \subseteq Elements(s) /\ (Rising(s) => Rising(t))
  BY <1>2, ElementsEmpty
<1>3. /\ Elements(outEp') \subseteq Elements(outEp) /\ (Rising(outEp) => Rising(outEp'))
      /\ Elements(inEp') \subseteq Elements(inEp) /\ (Rising(inEp) => Rising(inEp'))
  BY <1>2
<1>4. /\ Elements(QO') \subseteq Elements(QO) /\ (Rising(QO) => Rising(QO'))
      /\ Elements(RO') \subseteq Elements(RO) /\ (Rising(RO) => Rising(RO'))
  BY ElementsEmpty
<1>5. /\ Elements(QI') \subseteq Elements(QI) /\ (Rising(QI) => Rising(QI'))
      /\ Elements(RI') \subseteq Elements(RI) /\ (Rising(RI) => Rising(RI'))
  BY ElementsEmpty
<1>6. Numbered'
  <2>1. Everywhere' \subseteq Everywhere
    BY <1>3, <1>4, <1>5 DEF Everywhere
  <2> QED
    BY <1>1, <2>1, NumberedKept DEF Numbered
<1>7. /\ Line(last.modem, QO, RO, outEp) => Line(last.modem, QO', RO', outEp')
      /\ Line(last.modem, QO, << >>, << >>) => Line(last.modem, QO', << >>, << >>)
  <2>1. ASSUME Line(last.modem, QO, RO, outEp) PROVE Line(last.modem, QO', RO', outEp')
    <3>1. Rising(QO') /\ Rising(RO') /\ Rising(outEp')
      BY <1>3, <1>4, <2>1 DEF Line
    <3> QED
      BY ONLY <1>3, <1>4, <2>1, <3>1, LineFewer
  <2>2. ASSUME Line(last.modem, QO, << >>, << >>) PROVE Line(last.modem, QO', << >>, << >>)
    <3>1. Rising(QO') /\ Rising(<< >>)
      BY <1>4, <2>2 DEF Line
    <3> QED
      BY ONLY <1>4, <2>2, <3>1, LineFewer
  <2> QED
    BY <2>1, <2>2
<1>8. /\ Line(last.host, inEp, QO, outEp) => Line(last.host, inEp', QO', outEp')
      /\ Line(last.host, inEp, QI, RI) => Line(last.host, inEp', QI', RI')
  <2>1. ASSUME Line(last.host, inEp, QO, outEp) PROVE Line(last.host, inEp', QO', outEp')
    <3>1. Rising(inEp') /\ Rising(QO') /\ Rising(outEp')
      BY <1>3, <1>4, <2>1 DEF Line
    <3> QED
      BY ONLY <1>3, <1>4, <2>1, <3>1, LineFewer
  <2>2. ASSUME Line(last.host, inEp, QI, RI) PROVE Line(last.host, inEp', QI', RI')
    <3>1. Rising(inEp') /\ Rising(QI') /\ Rising(RI')
      BY <1>3, <1>5, <2>2 DEF Line
    <3> QED
      BY ONLY <1>3, <1>5, <2>2, <3>1, LineFewer
  <2> QED
    BY <2>1, <2>2
<1>9. ModemLine'
  BY <1>1, <1>3, <1>7 DEF ModemLine
<1>10. HostLine'
  BY <1>1, <1>3, <1>8 DEF HostLine
<1> QED
  BY <1>6, <1>9, <1>10 DEF Lines

LEMMA EventLines == FlowInv /\ FlowTyped' /\ (Configured \/ Stopped) => ChanShape' /\ Lines'
<1> SUFFICES ASSUME FlowInv, FlowTyped', Configured \/ Stopped PROVE ChanShape' /\ Lines'
  OBVIOUS
<1>1. UNCHANGED <<Out, In>>
  BY DEF Configured, Stopped, SetConf, ResetOrDisconnect, Out, In
<1>2. CASE Stop
  <2>1. UNCHANGED <<last, mark, sent, QO, RO, QI, RI>> /\ outEp' = << >> /\ inEp' = << >>
    BY <1>2 DEF Stop, FlushEps, QO, RO, QI, RI
  <2>2. Lines'
    BY <1>1, <2>1, FlushLines
  <2> QED
    BY <1>1, <2>2 DEF FlowInv, ChanShape
<1>3. CASE UNCHANGED flowVars
  <2>1. UNCHANGED <<outEp, inEp, raised, queue, last, mark, sent>>
    BY <1>3 DEF flowVars, lineVars
  <2> QED
    BY <1>1, <2>1, AwayLines
<1> QED
  BY <1>2, <1>3 DEF Configured, Stopped

LEMMA ClearLines == FlowInv /\ FlowTyped' /\ (ClearOut \/ ClearIn) => Lines'
<1> SUFFICES ASSUME FlowInv, FlowTyped', ClearOut \/ ClearIn PROVE Lines'
  OBVIOUS
<1>1. UNCHANGED <<Out, In, last, mark, sent>>
  BY DEF ClearOut, ClearIn, vars, Out, In
<1>3. CASE ClearOut
  <2>1. /\ QO' = << >> /\ RO' = << >> /\ UNCHANGED <<QI, RI>>
        /\ outEp' = << >> /\ inEp' = inEp
    BY <1>3, ClearEffect
  <2> QED
    BY <1>1, <2>1, FlushLines
<1>4. CASE ClearIn
  <2>1. /\ QI' = << >> /\ RI' = << >> /\ UNCHANGED <<QO, RO>>
        /\ outEp' = outEp /\ inEp' = << >>
    BY <1>4, ClearEffect
  <2> QED
    BY <1>1, <2>1, FlushLines
<1> QED
  BY <1>3, <1>4

LEMMA NextLines == FlowInv /\ [DataNext]_<<vars, flowVars>> => FlowInv'
<1> SUFFICES ASSUME FlowInv, [DataNext]_<<vars, flowVars>> PROVE FlowInv'
  OBVIOUS
<1>1. FlowTyped' /\ Inv'
  BY NextFlowTyped, StepImplements, StepInv DEF FlowInv
<1>2. SUFFICES ChanShape' /\ Lines'
  BY <1>1 DEF FlowInv
<1>3. ASSUME UNCHANGED vars PROVE ChanShape'
  BY <1>3 DEF FlowInv, ChanShape, Out, In, vars
<1>4. CASE UNCHANGED <<vars, flowVars>>
  <2>1. UNCHANGED <<outEp, inEp, raised, queue, last, mark, sent, Out, In>>
    BY <1>4 DEF vars, flowVars, lineVars, Out, In
  <2> QED
    BY <1>1, <2>1, AwayLines
<1>5. CASE Switching \/ OtherStep \/ Configured \/ Stopped
  BY <1>1, <1>5, SwitchingLines, OtherLines, EventLines
<1>6. CASE FillGet \/ FillSet \/ FillCommit \/ SourceCallback
  <2>1. UNCHANGED <<outEp, inEp, raised, queue, last, mark, sent, Out, In>>
    BY <1>6 DEF FillGet, FillSet, FillCommit, SourceCallback, vars, lineVars, Out, In
  <2> QED
    BY <1>1, <2>1, AwayLines
<1>7. CASE \/ HostSend \/ ProduceOut \/ CpuSend \/ ModemTake
           \/ \E c \in DataChannels : Callback(c)
  BY <1>1, <1>3, <1>7, ModemStep, HostSendLines, ProduceLines, CpuSendLines, ModemTakeLines,
     CallbackOutLines, CallbackInLines DEF DataChannels
<1>8. CASE ModemSend \/ CpuReceive \/ ToEndpoint \/ HostReceive
  BY <1>1, <1>3, <1>8, HostStep, ModemSendLines, CpuReceiveLines, ToEndpointLines,
     HostReceiveLines
<1>9. CASE TakeSource \/ ClearOut \/ ClearIn
  BY <1>1, <1>3, <1>9, SourceStep, ClearStep, TakeSourceLines, ClearLines
<1> QED
  BY <1>4, <1>5, <1>6, <1>7, <1>8, <1>9 DEF DataNext

LEMMA LinesHold == DataSpec => []FlowInv
<1>1. DataInit => FlowInv
  BY InitFlowTyped, InitInv, InitLines DEF DataInit, FlowInv
<1> QED
  BY <1>1, NextLines, PTL DEF DataSpec

(* No packet sent before a mode switch is in an endpoint or a buffer after *)
(* it: the channels are destroyed and both endpoints flushed.              *)
THEOREM NothingCarriedOver == DataSpec => []NoCarryOver
<1>1. ASSUME FlowInv, NEW p \in Underway PROVE p > mark
  <2>1. /\ outEp \in Seq(Packets) /\ QO \in Seq(Packets) /\ RO \in Seq(Packets)
        /\ QI \in Seq(Packets) /\ RI \in Seq(Packets)
    BY <1>1, FlowTypes DEF FlowInv
  <2>2. p \in Everywhere
    BY <1>1 DEF Underway, Everywhere, DataChannels, QO, RO, QI, RI
  <2>3. p # Source
    <3>1. /\ Source \notin Elements(outEp) /\ Source \notin Elements(QO)
          /\ Source \notin Elements(RO) /\ Source \notin Elements(QI)
          /\ Source \notin Elements(RI)
      BY <2>1, NoSourceIn
    <3> QED
      BY <3>1 DEF Underway, DataChannels, QO, RO, QI, RI
  <2> QED
    BY <1>1, <2>2, <2>3 DEF FlowInv, Lines, Numbered
<1>2. FlowInv => NoCarryOver
  BY <1>1 DEF NoCarryOver
<1> QED
  BY <1>2, LinesHold, PTL

LEMMA BelowPrecede ==
  ASSUME NEW s, NEW t, Below(s, t)
  PROVE  Precede(s, t)
BY DEF Below, Precede, Elements

LEMMA AbovePrecede ==
  ASSUME NEW m, NEW s, Above(m, s)
  PROVE  Precede(<<m>>, s)
BY DEF Above, Precede, Elements

LEMMA LineOrdered ==
  ASSUME NEW m, NEW a, NEW b, NEW c, Line(m, a, b, c)
  PROVE  /\ InLine(m, <<a, b, c>>)
         /\ InLine(m, <<a, b>>)
<1>1. /\ Precede(<<m>>, a) /\ Precede(<<m>>, b) /\ Precede(<<m>>, c)
      /\ Precede(a, b) /\ Precede(a, c) /\ Precede(b, c)
  BY BelowPrecede, AbovePrecede DEF Line
<1>2. Rising(a) /\ Rising(b) /\ Rising(c)
  BY DEF Line
<1>3. InLine(m, <<a, b, c>>)
  <2> DEFINE P == <<a, b, c>>
  <2>1. DOMAIN P = {1, 2, 3} /\ P[1] = a /\ P[2] = b /\ P[3] = c
    OBVIOUS
  <2> QED
    BY <1>1, <1>2, <2>1 DEF InLine
<1>4. InLine(m, <<a, b>>)
  <2> DEFINE P == <<a, b>>
  <2>1. DOMAIN P = {1, 2} /\ P[1] = a /\ P[2] = b
    OBVIOUS
  <2> QED
    BY <1>1, <1>2, <2>1 DEF InLine
<1> QED
  BY <1>3, <1>4

(* Every packet reaches the modem or the host after all that were sent     *)
(* before it, whatever the endpoints, buffers, callbacks, resets and       *)
(* switches on the way.                                                    *)
THEOREM OrderKept == DataSpec => []InOrder
<1>1. ASSUME FlowInv PROVE InLine(last.modem, ModemPlaces)
  <2>1. ChanShape /\ ModemLine
    BY <1>1 DEF FlowInv, Lines
  <2>2. CASE Out = None
    <3>1. ModemPlaces = << << >>, << >> >>
      BY <2>1, <2>2 DEF ModemPlaces, ModemLine, Out, QO, RO, None
    <3> QED
      BY <3>1, LineNone, LineOrdered
  <2>3. CASE Out \in {"UibToPib", "UibToCpu"}
    <3>1. ModemPlaces \in {<<QO, RO, outEp>>, <<QO, RO>>}
      BY <2>3 DEF ModemPlaces, Out, QO, RO
    <3>2. Line(last.modem, QO, RO, outEp)
      BY <2>1, <2>3 DEF ModemLine
    <3> QED
      BY <3>1, <3>2, LineOrdered
  <2>4. CASE Out = "CpuToPib"
    <3>1. ModemPlaces = <<QO, << >> >>
      BY <2>1, <2>4 DEF ModemPlaces, ModemLine, Out, QO, RO
    <3>2. Line(last.modem, QO, << >>, << >>)
      BY <2>1, <2>4 DEF ModemLine
    <3> QED
      BY <3>1, <3>2, LineOrdered
  <2>5. CASE Out = "UibToUib"
    <3>1. ModemPlaces = << >>
      BY <2>5 DEF ModemPlaces, Out
    <3> QED
      BY <3>1, EmptySequence DEF InLine
  <2> QED
    BY <2>1, <2>2, <2>3, <2>4, <2>5 DEF ChanShape
<1>2. ASSUME FlowInv PROVE InLine(last.host, HostPlaces)
  <2>1. ChanShape /\ HostLine
    BY <1>2 DEF FlowInv, Lines
  <2>2. CASE Out = "UibToUib"
    <3>1. HostPlaces = <<inEp, QO, outEp>> /\ Line(last.host, inEp, QO, outEp)
      BY <2>1, <2>2 DEF HostPlaces, HostLine, Out, QO
    <3> QED
      BY <3>1, LineOrdered
  <2>3. CASE Out # "UibToUib"
    <3>1. HostPlaces = <<inEp, QI, RI>>
      BY <2>3 DEF HostPlaces, Out, QI, RI
    <3>2. Line(last.host, inEp, QI, RI)
      <4>1. CASE Out = None
        <5>1. QI = << >> /\ RI = << >> /\ Elements(inEp) \subseteq {Source}
          BY <2>1, <4>1 DEF ChanShape, HostLine
        <5>2. Rising(inEp)
          BY <5>1 DEF Rising, Elements
        <5> QED
          BY <5>1, <5>2, ElementsEmpty DEF Line, Above, Below
      <4>2. CASE Out # None
        BY <2>1, <2>3, <4>2 DEF HostLine
      <4> QED
        BY <4>1, <4>2
    <3> QED
      BY <3>1, <3>2, LineOrdered
  <2> QED
    BY <2>2, <2>3
<1>3. FlowInv => InOrder
  BY <1>1, <1>2 DEF InOrder
<1> QED
  BY <1>3, LinesHold, PTL

-----------------------------------------------------------------------------
(* What outlives a session.                                                *)

\* What the host may still get, the OUT endpoint left out.
HostPackets ==
  Elements(inEp) \cup (IF Out = "UibToUib" THEN Elements(QO) ELSE Elements(QI) \cup Elements(RI))
Outdated == {p \in HostPackets \ {Source} : p <= stopped}

Few ==
  /\ stopped <= sent
  /\ \A p \in Elements(outEp) : stopped < p
  /\ IsFiniteSet(Outdated) /\ Cardinality(Outdated) <= DataBufs

LEMMA ElementsCount ==
  ASSUME NEW s \in Seq(Nat)
  PROVE  IsFiniteSet(Elements(s)) /\ Cardinality(Elements(s)) \in Nat
         /\ Cardinality(Elements(s)) <= Len(s)
<1>1. Len(s) \in Nat /\ s \in [1..Len(s) -> Elements(s)] /\ DOMAIN s = 1..Len(s)
  BY DEF Elements
<1>2. s \in Surjection(1..Len(s), Elements(s))
  BY <1>1 DEF Surjection, Elements
<1>3. IsFiniteSet(1..Len(s)) /\ Cardinality(1..Len(s)) = Len(s)
  BY <1>1, FS_Interval
<1>4. IsFiniteSet(Elements(s)) /\ Cardinality(Elements(s)) <= Len(s)
  BY <1>2, <1>3, FS_Surjection
<1> QED
  BY <1>4, FS_CardinalityType

LEMMA TwoPlaces ==
  ASSUME NEW s \in Seq(Nat), NEW t \in Seq(Nat), NEW n \in Nat, Len(s) + Len(t) <= n,
         NEW S \in SUBSET (Elements(s) \cup Elements(t))
  PROVE  IsFiniteSet(S) /\ Cardinality(S) \in Nat /\ Cardinality(S) <= n
<1> DEFINE a == Elements(s)
           b == Elements(t)
<1>1. /\ IsFiniteSet(a) /\ Cardinality(a) \in Nat /\ Cardinality(a) <= Len(s)
      /\ IsFiniteSet(b) /\ Cardinality(b) \in Nat /\ Cardinality(b) <= Len(t)
  BY ElementsCount
<1>2. IsFiniteSet(a \cap b) /\ Cardinality(a \cap b) \in Nat
  BY <1>1, FS_Subset, FS_CardinalityType
<1>3. IsFiniteSet(a \cup b)
      /\ Cardinality(a \cup b) = Cardinality(a) + Cardinality(b) - Cardinality(a \cap b)
  BY <1>1, FS_Union
<1>4. IsFiniteSet(S) /\ Cardinality(S) \in Nat /\ Cardinality(S) <= Cardinality(a \cup b)
  BY <1>3, FS_Subset, FS_CardinalityType
<1>5. Len(s) \in Nat /\ Len(t) \in Nat
  OBVIOUS
<1> HIDE DEF a, b
<1>6. Cardinality(a \cup b) <= n
  BY <1>1, <1>2, <1>3, <1>5
<1>7. Cardinality(a \cup b) \in Nat
  BY <1>3, FS_CardinalityType
<1> QED
  BY <1>4, <1>6, <1>7

LEMMA FewerOutdated ==
  ASSUME NEW S, IsFiniteSet(S), Cardinality(S) <= DataBufs, NEW T \in SUBSET S
  PROVE  IsFiniteSet(T) /\ Cardinality(T) <= DataBufs
<1>1. IsFiniteSet(T) /\ Cardinality(T) <= Cardinality(S)
  BY FS_Subset
<1>2. Cardinality(T) \in Nat /\ Cardinality(S) \in Nat /\ DataBufs \in Nat
  BY <1>1, FS_CardinalityType, FlowAssumption
<1> QED
  BY <1>1, <1>2

\* A step that hands the host nothing but what was sent after AppStop.
LEMMA FewKept ==
  ASSUME FlowInv, Few, stopped' = stopped,
         \/ /\ sent' = sent
            /\ Elements(outEp') \subseteq Elements(outEp)
            /\ HostPackets' \subseteq HostPackets \cup Elements(outEp) \cup {Source}
         \/ /\ sent' = sent + 1
            /\ Elements(outEp') \subseteq Elements(outEp) \cup {sent'}
            /\ HostPackets' \subseteq HostPackets \cup {sent'}
  PROVE  Few'
<1>1. sent \in Nat /\ stopped \in Nat /\ stopped <= sent
  <2>1. stopped \in 0..MaxSends /\ MaxSends \in Nat
    BY FlowAssumption DEF FlowInv, FlowTyped, GhostTyped
  <2> QED
    BY <2>1, FlowTypes DEF FlowInv, Few
<1>2. stopped' <= sent'
  BY <1>1
<1>3. ASSUME sent' = sent + 1 PROVE stopped < sent' /\ ~(sent' <= stopped)
  BY <1>1, <1>3
<1>4. \A p \in Elements(outEp') : stopped < p
  BY <1>3 DEF Few
<1>5. \A p \in Elements(outEp) : p \in Nat /\ ~(p <= stopped)
  <2>1. Elements(outEp) \subseteq Nat
    BY FlowTypes, ElementsNat DEF FlowInv
  <2> QED
    BY <1>1, <2>1 DEF Few
<1>6. Outdated' \subseteq Outdated
  BY <1>3, <1>5 DEF Outdated
<1>7. IsFiniteSet(Outdated') /\ Cardinality(Outdated') <= DataBufs
  BY <1>6, FewerOutdated DEF Few
<1> QED
  BY <1>2, <1>4, <1>7 DEF Few

\* AppStop: what is left is in the buffers of one channel.
LEMMA StopFew ==
  ASSUME FlowInv, FlowInv', Stop, UNCHANGED Out
  PROVE  Few'
<1>1. /\ outEp' = << >> /\ inEp' = << >> /\ stopped' = sent /\ sent' = sent
      /\ UNCHANGED <<QO, RO, QI, RI>>
  BY DEF Stop, FlushEps, QO, RO, QI, RI
<1>2. /\ QO \in Seq(Nat) /\ RO \in Seq(Nat) /\ QI \in Seq(Nat) /\ RI \in Seq(Nat)
      /\ sent \in Nat /\ DataBufs \in Nat
  BY FlowTypes, FlowAssumption DEF FlowInv
<1>3. /\ Len(QO) + Len(RO) <= DataBufs /\ Len(QI) + Len(RI) <= DataBufs
      /\ Len(RO) \in Nat /\ Len(QO) \in Nat /\ Len(QI) \in Nat /\ Len(RI) \in Nat
  <2>1. LineTyped /\ "DataOut" \in DataChannels /\ "DataIn" \in DataChannels
    BY DEF FlowInv, FlowTyped, DataChannels
  <2>2. Len(raised["DataOut"]) + Len(queue["DataOut"]) <= DataBufs
        /\ Len(raised["DataIn"]) + Len(queue["DataIn"]) <= DataBufs
    BY <2>1 DEF LineTyped
  <2>3. Len(RO) \in Nat /\ Len(QO) \in Nat /\ Len(QI) \in Nat /\ Len(RI) \in Nat
    BY <1>2
  <2>4. Len(RO) + Len(QO) <= DataBufs /\ Len(RI) + Len(QI) <= DataBufs
    BY <2>2 DEF QO, RO, QI, RI
  <2> QED
    BY <1>2, <2>3, <2>4
<1>4. Outdated' \subseteq (IF Out = "UibToUib" THEN Elements(QO) ELSE Elements(QI) \cup Elements(RI))
  BY <1>1, ElementsEmpty DEF Outdated, HostPackets
<1>5. CASE Out = "UibToUib"
  <2>1. Outdated' \in SUBSET (Elements(QO) \cup Elements(RO))
    BY <1>4, <1>5
  <2>2. IsFiniteSet(Outdated') /\ Cardinality(Outdated') <= DataBufs
    BY <1>2, <1>3, <2>1, TwoPlaces
  <2> QED
    BY <1>1, <1>2, <2>2, ElementsEmpty DEF Few
<1>6. CASE Out # "UibToUib"
  <2>1. Outdated' \in SUBSET (Elements(QI) \cup Elements(RI))
    BY <1>4, <1>6
  <2>2. IsFiniteSet(Outdated') /\ Cardinality(Outdated') <= DataBufs
    BY <1>2, <1>3, <2>1, TwoPlaces
  <2> QED
    BY <1>1, <1>2, <2>2, ElementsEmpty DEF Few
<1> QED
  BY <1>5, <1>6

\* A step of a switch: no data channel holds anything yet.
LEMMA SwitchFew == FlowInv /\ Few /\ FlowInv' /\ (Switching \/ OtherStep) => Few'
<1> SUFFICES ASSUME FlowInv, Few, FlowInv', Switching \/ OtherStep PROVE Few'
  OBVIOUS
<1>1. CASE Switching
  <2>1. /\ outEp' = << >> /\ inEp' = << >> /\ QO' = << >> /\ QI' = << >> /\ RI' = << >>
        /\ UNCHANGED <<stopped, sent>>
    BY <1>1 DEF Switching, RestartData, NewChannels, FlushEps, QO, QI, RI, NoData, DataChannels
  <2>2. HostPackets' = {}
    BY <2>1, ElementsEmpty DEF HostPackets
  <2> QED
    BY <2>1, <2>2, ElementsEmpty, FewKept
<1>2. CASE OtherStep
  <2>1. UNCHANGED <<outEp, inEp, QO, QI, RI, stopped, sent>>
    BY <1>2 DEF OtherStep, flowVars, lineVars, QO, QI, RI
  <2>2. CASE UNCHANGED Out
    <3>1. HostPackets' = HostPackets
      BY <2>1, <2>2 DEF HostPackets
    <3> QED
      BY <2>1, <3>1, FewKept
  <2>3. CASE Out' # Out
    <3>1. CreateChannel("DataOut")
      <4>1. ~(\E c \in Channels : CreateFails(c))
            /\ ~(Announce \/ NoMemory \/ DataTxBegin \/ DataTxEnd \/ DataSink)
        BY <2>3 DEF CreateFails, Announce, NoMemory, DataTxBegin, DataTxEnd, DataSink, Out
      <4>2. PICK c \in Channels : CreateChannel(c)
        BY <1>2, <4>1 DEF OtherStep
      <4>3. chan \in [Channels -> Configs \cup {None}]
        BY DEF FlowInv, Inv, Typed
      <4>4. c = "DataOut"
        BY <2>3, <4>2, <4>3 DEF CreateChannel, Out, Channels
      <4> QED
        BY <4>2, <4>4
    <3>2. Out = None
      BY <3>1, NextInTodo DEF CreateChannel, FlowInv, Inv, TodoOpen, Out
    <3>3. QO = << >> /\ QI = << >> /\ RI = << >>
      BY <3>2 DEF FlowInv, Lines, ModemLine, HostLine, ChanShape
    <3>4. HostPackets' \subseteq HostPackets
      BY <2>1, <3>3, ElementsEmpty DEF HostPackets
    <3> QED
      BY <2>1, <3>4, FewKept
  <2> QED
    BY <2>2, <2>3
<1> QED
  BY <1>1, <1>2

LEMMA ModemFew ==
  FlowInv /\ Few /\ (HostSend \/ ProduceOut \/ CpuSend \/ ModemTake \/ Callback("DataOut")) => Few'
<1> SUFFICES ASSUME FlowInv, Few,
                    HostSend \/ ProduceOut \/ CpuSend \/ ModemTake \/ Callback("DataOut")
             PROVE  Few'
  OBVIOUS
<1>1. stopped' = stopped
  BY DEF HostSend, ProduceOut, CpuSend, ModemTake, Callback
<1>2. /\ outEp \in Seq(Nat) /\ QO \in Seq(Nat) /\ RO \in Seq(Nat) /\ sent \in Nat
      /\ ChanShape /\ ModemLine
  BY FlowTypes DEF FlowInv, Lines
<1>3. CASE HostSend
  <2>1. /\ outEp' = Append(outEp, sent') /\ Send
        /\ UNCHANGED <<inEp, QO, QI, RI, Out>>
    BY <1>3 DEF HostSend, vars, QO, RO, QI, RI, Out, In
  <2>2. sent' = sent + 1 /\ Elements(outEp') = Elements(outEp) \cup {sent'}
    BY <1>2, <2>1, SendFacts, NumberAppend
  <2>3. HostPackets' = HostPackets
    BY <2>1 DEF HostPackets
  <2> QED
    BY <1>1, <2>2, <2>3, FewKept
<1>4. CASE ProduceOut
  <2>1. /\ outEp # << >> /\ outEp' = Tail(outEp)
        /\ UNCHANGED <<inEp, QI, RI, Out, In, last, mark, sent>>
        /\ \/ /\ Out \in {"UibToPib", "UibToCpu"}
              /\ RO' = Append(RO, Head(outEp)) /\ QO' = QO
           \/ /\ Out = "UibToUib"
              /\ QO' = Append(QO, Head(outEp)) /\ RO' = RO
    BY <1>4, ProduceEffect
  <2>2. /\ Head(outEp) \in Elements(outEp) /\ Head(outEp) \in Nat
        /\ Elements(Tail(outEp)) \subseteq Elements(outEp)
    BY <1>2, <2>1, ElementsTail, TailFacts
  <2>3. Elements(Append(QO, Head(outEp))) = Elements(QO) \cup {Head(outEp)}
    BY <1>2, <2>2, NumberAppend
  <2>4. HostPackets' \subseteq HostPackets \cup Elements(outEp)
    BY <2>1, <2>2, <2>3 DEF HostPackets
  <2> QED
    BY <1>1, <2>1, <2>2, <2>4, FewKept
<1>5. CASE CpuSend
  <2>1. Send /\ Out = "CpuToPib" /\ UNCHANGED <<outEp, inEp, QI, RI, Out>>
    BY <1>5, CpuSendEffect
  <2>2. sent' = sent + 1 /\ HostPackets' = HostPackets
    BY <2>1, SendFacts DEF HostPackets
  <2> QED
    BY <1>1, <2>1, <2>2, FewKept
<1>6. CASE ModemTake
  <2>1. Out \in {"UibToPib", "CpuToPib"} /\ UNCHANGED <<outEp, inEp, QI, RI, Out, sent>>
    BY <1>6, ModemTakeEffect
  <2>2. HostPackets' = HostPackets
    BY <2>1 DEF HostPackets
  <2> QED
    BY <1>1, <2>1, <2>2, FewKept
<1>7. CASE Callback("DataOut")
  <2>1. RO # << >> /\ UNCHANGED <<outEp, inEp, QI, RI, Out, sent>>
    BY <1>7, CallbackOutEffect
  <2>2. Out # "UibToUib"
    BY <1>2, <2>1 DEF ModemLine
  <2>3. HostPackets' = HostPackets
    BY <2>1, <2>2 DEF HostPackets
  <2> QED
    BY <1>1, <2>1, <2>3, FewKept
<1> QED
  BY <1>3, <1>4, <1>5, <1>6, <1>7

LEMMA HostFew ==
  FlowInv /\ Few
    /\ (ModemSend \/ CpuReceive \/ ToEndpoint \/ HostReceive \/ Callback("DataIn")) => Few'
<1> SUFFICES ASSUME FlowInv, Few,
                    ModemSend \/ CpuReceive \/ ToEndpoint \/ HostReceive \/ Callback("DataIn")
             PROVE  Few'
  OBVIOUS
<1>1. stopped' = stopped
  BY DEF ModemSend, CpuReceive, ToEndpoint, HostReceive, Callback
<1>2. /\ inEp \in Seq(Nat) /\ QO \in Seq(Nat) /\ QI \in Seq(Nat) /\ RI \in Seq(Nat)
      /\ sent \in Nat /\ ChanShape
  BY FlowTypes DEF FlowInv
<1>3. CASE ModemSend
  <2>1. /\ Send
        /\ UNCHANGED <<outEp, inEp, QO, RO, Out, In, last, mark>>
        /\ \/ In = "PibToUib" /\ RI' = Append(RI, sent') /\ QI' = QI
           \/ In = "PibToCpu" /\ QI' = Append(QI, sent') /\ RI' = RI
    BY <1>3, ModemSendEffect
  <2>2. sent' = sent + 1 /\ sent' \in Nat
    BY <2>1, SendFacts
  <2>3. /\ Elements(Append(QI, sent')) = Elements(QI) \cup {sent'}
        /\ Elements(Append(RI, sent')) = Elements(RI) \cup {sent'}
    BY <1>2, <2>2, NumberAppend
  <2>4. HostPackets' \subseteq HostPackets \cup {sent'}
    BY <2>1, <2>3 DEF HostPackets
  <2> QED
    BY <1>1, <2>1, <2>2, <2>4, FewKept
<1>4. CASE CpuReceive
  <2>1. QI # << >> /\ QI' = Tail(QI) /\ UNCHANGED <<outEp, inEp, QO, RI, Out, sent>>
    BY <1>4, CpuReceiveEffect
  <2>2. Elements(QI') \subseteq Elements(QI)
    BY <1>2, <2>1, ElementsTail
  <2>3. HostPackets' \subseteq HostPackets
    BY <2>1, <2>2 DEF HostPackets
  <2> QED
    BY <1>1, <2>1, <2>3, FewKept
<1>5. CASE ToEndpoint
  <2>1. UNCHANGED <<outEp, RI, Out, sent>>
    BY <1>5 DEF ToEndpoint, vars, RI, Out
  <2>2. \/ /\ Out = "UibToUib" /\ QO # << >>
           /\ inEp' = Append(inEp, Head(QO)) /\ QO' = Tail(QO) /\ QI' = QI
        \/ /\ In = "PibToUib" /\ QI # << >>
           /\ inEp' = Append(inEp, Head(QI)) /\ QI' = Tail(QI) /\ QO' = QO
    BY <1>5, ToEndpointEffect
  <2>3. ASSUME NEW s \in Seq(Nat), s # << >>
        PROVE  /\ Elements(Append(inEp, Head(s))) \subseteq Elements(inEp) \cup Elements(s)
               /\ Elements(Tail(s)) \subseteq Elements(s)
    <3>1. /\ Head(s) \in Elements(s) /\ Head(s) \in Nat
          /\ Elements(Tail(s)) \subseteq Elements(s)
      BY <2>3, ElementsTail, TailFacts
    <3>2. Elements(Append(inEp, Head(s))) = Elements(inEp) \cup {Head(s)}
      BY <1>2, <3>1, NumberAppend
    <3> QED
      BY <3>1, <3>2
  <2>4. HostPackets' \subseteq HostPackets
    <3>1. CASE /\ Out = "UibToUib" /\ QO # << >>
               /\ inEp' = Append(inEp, Head(QO)) /\ QO' = Tail(QO) /\ QI' = QI
      BY <1>2, <2>1, <2>3, <3>1 DEF HostPackets
    <3>2. CASE /\ In = "PibToUib" /\ QI # << >>
               /\ inEp' = Append(inEp, Head(QI)) /\ QI' = Tail(QI) /\ QO' = QO
      <4>1. Out # "UibToUib"
        BY <1>2, <3>2 DEF ChanShape, None
      <4> QED
        BY <1>2, <2>1, <2>3, <3>2, <4>1 DEF HostPackets
    <3> QED
      BY <2>2, <3>1, <3>2
  <2> QED
    BY <1>1, <2>1, <2>4, FewKept
<1>6. CASE HostReceive
  <2>1. inEp # << >> /\ inEp' = Tail(inEp) /\ UNCHANGED <<outEp, QO, QI, RI, Out, sent>>
    BY <1>6 DEF HostReceive, vars, QO, QI, RI, Out
  <2>2. Elements(inEp') \subseteq Elements(inEp)
    BY <1>2, <2>1, ElementsTail
  <2>3. HostPackets' \subseteq HostPackets
    BY <2>1, <2>2 DEF HostPackets
  <2> QED
    BY <1>1, <2>1, <2>3, FewKept
<1>7. CASE Callback("DataIn")
  <2>1. /\ RI # << >> /\ RI' = Tail(RI)
        /\ QI' = IF In = "UibToCpu" THEN QI ELSE Append(QI, Head(RI))
        /\ UNCHANGED <<outEp, inEp, QO, Out, sent>>
    BY <1>7, CallbackInEffect
  <2>2. /\ Head(RI) \in Elements(RI) /\ Head(RI) \in Nat
        /\ Elements(Tail(RI)) \subseteq Elements(RI)
    BY <1>2, <2>1, ElementsTail, TailFacts
  <2>3. Elements(Append(QI, Head(RI))) = Elements(QI) \cup {Head(RI)}
    BY <1>2, <2>2, NumberAppend
  <2>4. HostPackets' \subseteq HostPackets
    BY <2>1, <2>2, <2>3 DEF HostPackets
  <2> QED
    BY <1>1, <2>1, <2>4, FewKept
<1> QED
  BY <1>3, <1>4, <1>5, <1>6, <1>7

LEMMA RestFew ==
  FlowInv /\ Few
    /\ (\/ FillGet \/ FillSet \/ FillCommit \/ TakeSource \/ SourceCallback
        \/ ClearOut \/ ClearIn \/ UNCHANGED <<vars, flowVars>>) => Few'
<1> SUFFICES ASSUME FlowInv, Few,
                    \/ FillGet \/ FillSet \/ FillCommit \/ TakeSource \/ SourceCallback
                    \/ ClearOut \/ ClearIn \/ UNCHANGED <<vars, flowVars>>
             PROVE  Few'
  OBVIOUS
<1>1. inEp \in Seq(Nat)
  BY FlowTypes DEF FlowInv
<1>2. UNCHANGED <<Out, stopped, sent>>
  BY DEF FillGet, FillSet, FillCommit, TakeSource, SourceCallback, ClearOut, ClearIn,
         vars, flowVars, Out
<1>3. CASE FillGet \/ FillSet \/ FillCommit \/ SourceCallback \/ UNCHANGED <<vars, flowVars>>
  <2>1. UNCHANGED <<outEp, inEp, QO, QI, RI>>
    BY <1>3 DEF FillGet, FillSet, FillCommit, SourceCallback, flowVars, lineVars, QO, QI, RI
  <2>2. HostPackets' = HostPackets
    BY <1>2, <2>1 DEF HostPackets
  <2> QED
    BY <1>2, <2>1, <2>2, FewKept
<1>4. CASE TakeSource
  <2>1. inEp' = Append(inEp, Source) /\ UNCHANGED <<outEp, QO, QI, RI>>
    BY <1>4 DEF TakeSource, QO, QI, RI
  <2>2. Elements(inEp') = Elements(inEp) \cup {Source}
    BY <1>1, <2>1, NumberAppend DEF Source
  <2>3. HostPackets' \subseteq HostPackets \cup {Source}
    BY <1>2, <2>1, <2>2 DEF HostPackets
  <2> QED
    BY <1>2, <2>1, <2>3, FewKept
<1>5. CASE ClearOut
  <2>1. outEp' = << >> /\ QO' = << >> /\ UNCHANGED <<inEp, QI, RI>>
    BY <1>5, ClearEffect
  <2>2. HostPackets' \subseteq HostPackets
    BY <1>2, <2>1, ElementsEmpty DEF HostPackets
  <2> QED
    BY <1>2, <2>1, <2>2, ElementsEmpty, FewKept
<1>6. CASE ClearIn
  <2>1. inEp' = << >> /\ QI' = << >> /\ RI' = << >> /\ UNCHANGED <<outEp, QO>>
    BY <1>6, ClearEffect
  <2>2. HostPackets' \subseteq HostPackets
    BY <1>2, <2>1, ElementsEmpty DEF HostPackets
  <2> QED
    BY <1>2, <2>1, <2>2, FewKept
<1> QED
  BY <1>3, <1>4, <1>5, <1>6

LEMMA EventFew == FlowInv /\ Few /\ FlowInv' /\ (Configured \/ Stopped) => Few'
<1> SUFFICES ASSUME FlowInv, Few, FlowInv', Configured \/ Stopped PROVE Few'
  OBVIOUS
<1>1. UNCHANGED Out
  BY DEF Configured, Stopped, SetConf, ResetOrDisconnect, Out
<1>2. CASE Stop
  BY <1>1, <1>2, StopFew
<1>3. CASE UNCHANGED flowVars
  <2>1. UNCHANGED <<outEp, inEp, QO, QI, RI, stopped, sent>>
    BY <1>3 DEF flowVars, lineVars, QO, QI, RI
  <2>2. HostPackets' = HostPackets
    BY <1>1, <2>1 DEF HostPackets
  <2> QED
    BY <2>1, <2>2, FewKept
<1> QED
  BY <1>2, <1>3 DEF Configured, Stopped

LEMMA FewHolds == DataSpec => [](FlowInv /\ Few)
<1>1. DataInit => FlowInv
  BY InitFlowTyped, InitInv, InitLines DEF DataInit, FlowInv
<1>2. DataInit => Few
  <2>1. SUFFICES ASSUME DataInit PROVE Few
    OBVIOUS
  <2>2. /\ outEp = << >> /\ inEp = << >> /\ QO = << >> /\ QI = << >> /\ RI = << >>
        /\ stopped = 0 /\ sent = 0
    BY <2>1 DEF DataInit, QO, QI, RI, NoData, DataChannels
  <2>3. Outdated = {}
    BY <2>2, ElementsEmpty DEF Outdated, HostPackets
  <2> QED
    BY <2>2, <2>3, ElementsEmpty, FS_EmptySet, FlowAssumption DEF Few
<1>3. FlowInv /\ Few /\ [DataNext]_<<vars, flowVars>> => FlowInv' /\ Few'
  <2>1. SUFFICES ASSUME FlowInv, Few, [DataNext]_<<vars, flowVars>> PROVE FlowInv' /\ Few'
    OBVIOUS
  <2>2. FlowInv'
    BY <2>1, NextLines
  <2>3. Few'
    BY <2>1, <2>2, SwitchFew, ModemFew, HostFew, RestFew, EventFew DEF DataNext, DataChannels
  <2> QED
    BY <2>2, <2>3
<1> QED
  BY <1>1, <1>2, <1>3, PTL DEF DataSpec

(* After AppStop the endpoints are empty, and what is delivered of the     *)
(* session before comes from the buffers of one channel each way.          *)
THEOREM SessionBounded == DataSpec => []SessionBound
<1> DEFINE Carried(places) == (UNION {Elements(places[a]) : a \in DOMAIN places}) \ {Source}
           Old(places) == {p \in Carried(places) : p <= stopped}
<1>1. ASSUME FlowInv, Few PROVE Cardinality(Old(ModemPlaces)) <= DataBufs
  <2>1. /\ QO \in Seq(Nat) /\ RO \in Seq(Nat) /\ DataBufs \in Nat /\ stopped \in Nat
        /\ Elements(outEp) \subseteq Nat
    <3>1. stopped \in 0..MaxSends /\ MaxSends \in Nat
      BY <1>1, FlowAssumption DEF FlowInv, FlowTyped, GhostTyped
    <3> QED
      BY <1>1, <3>1, FlowTypes, ElementsNat, FlowAssumption DEF FlowInv
  <2>2. Len(QO) + Len(RO) <= DataBufs
    <3>1. Len(raised["DataOut"]) + Len(queue["DataOut"]) <= DataBufs
      BY <1>1 DEF FlowInv, FlowTyped, LineTyped, DataChannels
    <3>2. Len(RO) + Len(QO) <= DataBufs
      BY <3>1 DEF QO, RO
    <3>3. Len(QO) \in Nat /\ Len(RO) \in Nat
      BY <2>1
    <3> QED
      BY <2>1, <3>2, <3>3
  <2>3. ModemPlaces \in {<< >>, <<QO, RO, outEp>>, <<QO, RO>>}
    BY DEF ModemPlaces, QO, RO
  <2>4. Carried(ModemPlaces) \subseteq Elements(QO) \cup Elements(RO) \cup Elements(outEp)
    BY <2>3
  <2>5. \A p \in Elements(outEp) : ~(p <= stopped)
    BY <1>1, <2>1 DEF Few
  <2>6. Old(ModemPlaces) \in SUBSET (Elements(QO) \cup Elements(RO))
    BY <2>4, <2>5
  <2> QED
    BY <2>1, <2>2, <2>6, TwoPlaces
<1>2. ASSUME FlowInv, Few PROVE Cardinality(Old(HostPlaces)) <= DataBufs
  <2>1. stopped \in Nat /\ Elements(outEp) \subseteq Nat
    <3>1. stopped \in 0..MaxSends /\ MaxSends \in Nat
      BY <1>2, FlowAssumption DEF FlowInv, FlowTyped, GhostTyped
    <3> QED
      BY <1>2, <3>1, FlowTypes, ElementsNat DEF FlowInv
  <2>2. HostPlaces = IF Out = "UibToUib" THEN <<inEp, QO, outEp>> ELSE <<inEp, QI, RI>>
    BY DEF HostPlaces, Out, QO, QI, RI
  <2>3. Carried(HostPlaces) \subseteq (HostPackets \cup Elements(outEp)) \ {Source}
    <3>1. CASE Out = "UibToUib"
      BY <2>2, <3>1 DEF HostPackets
    <3>2. CASE Out # "UibToUib"
      BY <2>2, <3>2 DEF HostPackets
    <3> QED
      BY <3>1, <3>2
  <2>4. \A p \in Elements(outEp) : ~(p <= stopped)
    BY <1>2, <2>1 DEF Few
  <2>5. Old(HostPlaces) \in SUBSET Outdated
    BY <2>3, <2>4 DEF Outdated
  <2> QED
    BY <1>2, <2>5, FewerOutdated DEF Few
<1>3. FlowInv /\ Few => SessionBound
  BY <1>1, <1>2 DEF SessionBound
<1> QED
  BY <1>3, FewHolds, PTL
=============================================================================
