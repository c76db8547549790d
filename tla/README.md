# Verification of the ZED firmware

TLA+ models of the FX3 firmware that bridges a USB host to the Zing radio
modem, checked with TLC and proved with TLAPS. Source paths are relative to
`src/` (the repository root): `src/Zing.c`, `src/dma.c`, `fw/ZED/Application.c`.

## 1. Inventory

The program runs on a Cypress FX3 under ThreadX. Three threads of one priority
without time slices (application, EP0 command thread, control channel thread)
cooperate; the callbacks of the USB and UART drivers run above them and
interrupt them anywhere. No lock is used outside the SDK's heap.

| Component | State | Operations | Interacts with |
|---|---|---|---|
| Register access (`src/Zing.c`, `src/ControlCh.c`) | the shared frame buffer `Dma.ControlOut_.Buffer_`; channels ControlOut, ControlIn; `CcCtx` (event flag, `Data_`, `Data_idx_`, `MngtData_`) | `Zing_RegRead`, `Zing_RegWrite`, `Zing_Management_Send`, `Zing_Transfer_Send/Recv`, `ControlChThread` | called by the application thread (poll), the EP0 thread (commands) and `uartIntrCb`; answered by the modem |
| EP0 mailbox (`src/USB_EP0.c`, `fw/ZED/USB_Handler.c`) | `UsbEp0Ctx`: request number, command text and index, reply and index, event flag | vendor requests in `USBSetupCB`; `USBEP0RxThread` | the host; register access; DMA modes |
| DMA modes (`src/dma.c`, `fw/ZED/Application.c`) | the four channels, `Dma.Mode_`, `IsApplnActive`, the boot sequence | `DMA_Sync`, `DMA_Normal`, `DMA_Normal_DataOnly`, `DMA_LoopBack`, `DMA_SinkSource`, `AppStart`, `AppStop` | takes buffers from the DMA heap; `ControlChThread` reads the mode |
| DMA buffer heap (`src/cyfxtx.c`) | bitmap `usedStatus`, `searchPos`, mutex | `CyU3PDmaBufferInit/Alloc/Free` | channel creation, test commands, control channel thread |
| Memory functions (`src/cyfxtx.c`) | none of their own | `CyU3PMemSet`, `CyU3PMemCopy`, `CyU3PMemCmp`; `CyU3PMemAlloc/Free` hand on to the RTOS | everybody |
| Zing mode (`src/Zing.c`) | modem registers (`HW_CFG`, `IFS`, `TRIM_1` and others), `zing_hrcp`, `CntArr` | `Zing_Init`, `Zing_SetHRCP`, `Zing_SetPath`, `Zing_Reset`, `Zing_AFC2`; `Zing_AutoHRCP` is never called | register access; EP0 commands, boot, UART |
| Utility (`common/utility.c`) | none | polls (`ppid`, `deviceID`, `rx_id`, `tx_id`, `band`), `setBand` | application thread, UART; register access |
| Data path (`src/dma.c`, `fw/ZED/USB_Handler.c`) | memory of the data endpoints, buffers of DataOut and DataIn, the source's buffers, `Count_` | `DMA_Normal_*_Cb`, `DMA_SinkSource_Cb`, `DMASrcSinkFillInBuffers`, CLEAR_FEATURE, flushes | USB host, DMA hardware, modem, test commands |
| USB enumeration, GPIF/PIB, I2C, GPIO, console | - | SDK initialisation | - |

What makes each of them correct:

* register access: a read returns the register it asked for, with a value no
  older than its request; a reader is always woken; writes of several clients
  settle in commit order;
* mailbox: a command is performed as written and only once the previous one is
  done; a reply that is announced is there;
* modes: `Dma.Mode_` names the channels that exist; switching never loses heap
  memory and succeeds when the memory is there;
* data path: packets arrive once and in order; nothing passes from one mode to
  the next; the source never runs dry and sends its pattern;
* Zing mode: role, path, reset and frequency setting of the modem are those of
  the last command that completed, whatever other command failed or came between;
* memory functions: exact for every overlap and every count;
* heap: no two blocks overlap, a free clears exactly its block, all memory comes
  back.

The hard behaviour is interleaving of callbacks with threads, one shared buffer,
one shared event flag, send timeouts on a full channel, switches that end early,
routines of many register accesses that fail half way, a source that lives on
the events of its own buffers, and a heap whose free is found by counting bits. `PROJECT.json` lists every such
hazard at its line.

## 2. Modules

| Module | Models | How |
|---|---|---|
| `RegAccess` | register access in `DMA_SYNC`, the mode after boot | `Build` is a client up to the send, `Send` the copy, commit and event wait, `AwaitBuffer`/`SendTimeout` the wait for a DMA buffer, `CopyAnswer` the end of `Zing_RegRead`; `ControlChRecv`/`ControlChBlock` are one turn of `ControlChThread`; `ModemServe`/`ModemSend` are the modem (external) |
| `RegFile` | what `Zing_RegRead/RegWrite` promise: a file of registers | abstract specification; `RegAccess` implements it (`File`), `ZingMode` is written over it |
| `UsbRegAccess` | `RegAccess` composed with CLEAR_FEATURE of the host | `ClearControlOut`, `ClearControlIn` |
| `BlockPool` | what an allocator promises | abstract specification |
| `DmaBufMgr` | `CyU3PDmaBufferAlloc/Free` | enter (mutex), search and mark, count and clear; implements `BlockPool` with `held <- Taken` |
| `CommandPort` | what the mailbox promises a host that waits for each command to end | abstract specification: ask, take, perform or store and publish the reply; `Fail`/`Mislead` a failed read, `Overwrite`/`Muddle` what the promise does not cover |
| `Ep0Mailbox` | `USBSetupCB` requests 3..100 and `USBEP0RxThread` | the thread is cut wherever it touches the shared mailbox or reply: wake, end the text, compare, split, take each argument, perform, store, announce, empty; implements `CommandPort` with `stage <- Stage` |
| `DmaModes` | the mode switches, boot, test commands' blocks | a switch destroys channels, then creates one per step; `CreateFails` ends it early |
| `DataFlow` | `DmaModes` composed with the data in its channels | `HostSend`/`ProduceOut`/`Callback`/`ModemTake` take a packet from the host to the modem, `ModemSend`/`Callback`/`ToEndpoint`/`HostReceive` the other way; `FillGet`/`FillSet`/`FillCommit` are the preload of the source and `SourceCallback` the callback that keeps it running; `RestartData` is what a switch, `Stop` what `AppStop` does to data; every action on the channels is one of `DmaModes` with what it does to data |
| `ZingMode` | boot, mode, path, reset, frequency and register commands, over `RegFile` | a routine is the sequence of its accesses (`SetHRCP`, `SetPath`, `Reset`, `AFC2`, `Boot`); `Routine` makes the next access of a thread, `Fail` ends a routine as CHECK does; `UartWrite` interrupts, `Measure` is the modem, `Reboot` the device reset |
| `MemFns` | the loops of `CyU3PMemSet`, `CyU3PMemCopy`, `CyU3PMemCmp` | one assignment of a byte per step: block by block (`BlockUp`, `BlockDown`), then the rest (`ByteUp`, `ByteDown`) |
| `MC*` | finite instances for TLC | |
| `*Proofs` | theorems | section 5 |
| `NatFacts` | induction over natural numbers as a fact about sets | lemmas for the proofs |

Abstractions. Addresses, values and texts are model values; the header of a
frame is the record of its fields. A frame that was committed with the length of
another (`whole`) leaves an arbitrary value in the register written. The mailbox
text is a verb and two arguments; laying a text over another keeps what the new
one does not reach (`Overlay`; which arguments those are depends on the length
of the command's text). Commands are told apart by what they do to mailbox and
reply: `test` stands for DATATX, DATASINK, MNGT_TX4B and AFC, whose arguments are
left out, and `rx4b` is a command that replies without a register read. A reply
is part old, part new while it is copied (`Partial`). Building a frame is one action: a callback that interrupts a thread
half way through it is covered by the interruption between build and copy,
because both make the thread commit a frame that is not its own (`mixed`), and
only `MixedOnlyBy` says how it can come to that. The answer to the 512-byte
dump is 520 bytes long: its first 126 words (one word in the model) are in
`Data_`, then come `Data_idx_` and `MngtData_`, which the copy runs over and the
reader copies out (`DataIdx`, `CopiedOut`). `DmaModes` counts heap units and
ignores fragmentation, which is `DmaBufMgr`'s subject; of creating a channel only
`CyU3PDmaChannelCreate` fails, not the `SetXfer` on the new channel.

In `DataFlow` a packet is the number of its sending, so that order, loss and
repetition are visible and contents are not; the source's packets, all alike,
are the number 0 in the endpoint and their buffers' numbers before it. A buffer
whose callback has not run is apart from one its consumer may take. Of the two
preloads of `DMA_SinkSource` that of DataIn is modelled; the eight buffers of
ControlIn before it have the same form on a channel of their own. A test command
gets a buffer only of a channel the CPU alone fills or empties, not one of a
MANUAL channel whose callback is due. In
`ZingMode` a register is the set of its one bits, so that clearing and setting
fields are set operations; the tables of constants are those of the code. Once
accesses have disturbed each other (`RegFile!Disturb`) all registers stay
`Unknown`: nothing is claimed of them until the FX3 is reset.

Variables marked "history" are read by no action. They only name in properties
the situations in which the code gives no guarantee: `mixed`, `crossed`
(RegAccess), `overlapped`, `hasty`, `failed` (Ep0Mailbox), `short`, `early`
(DmaModes), `mark`, `stopped`, `last`, `cleared`, `raced` (DataFlow), `settles`,
`unsettled`, `path`, `poked`, `sought`, `fails` (ZingMode), `args`, `was` (MemFns); the
counters `sent` and `fails` also bound what they count.

What is taken of the RTOS and SDK, from how the code uses them: a thread keeps
the processor until it blocks (`CYU3P_NO_TIME_SLICE`, "Thread priority so no
preemption", `src/USB_EP0.c:272`); callbacks preempt; `CyU3PEventSet` resumes
every waiting thread and leaves the flag set if there is none;
`CyU3PDmaChannelGetBuffer` suspends up to its timeout; a channel reset drops
committed buffers and resumes who waits with an error.

## 3. Runs

| Run | Shows |
|---|---|
| `reg_sole` | one client with every kind of access, the modem also sending frames of its own: `AnswerExact`, every read gets its own answer and the register's value (of a dump, its first 126 words) |
| `reg_clients` | application, EP0 and UART clients together: `MixedOnlyBy` (the frame buffer is safe among threads), `RightAnswer`, `NoLostWakeup`, `WritesSettle`, and in sum the refinement `FileSpec`: the control channel implements `RegFile` |
| `reg_readers` | liveness: `EveryReadReturns` under FIFO scheduling |
| `dma_buf_mgr` | `NoOverlap`, `BitmapExact`, `SearchComplete`, `EmptyHeapServes` and the refinement `PoolSpec` |
| `ep0_mailbox` | `CommandIntact`, `ReplyReady`, `CommandPerformed` (liveness), and in sum the refinement `PortSpec`: the mailbox implements `CommandPort` |
| `data_flow` | mode switches with the data that pass meanwhile: of the modes `HeapExact`, `ModeHonest`, `DeadLate`, `SwitchSucceeds`; of the packets `InOrder`, `NoCarryOver`, `SessionBound`; of the source `PreloadSucceeds`, `SourceConserved`, `SourcePattern` |
| `zing_mode` | boot, host commands, polls and UART writes interleaved, with accesses that fail: `NoLostUpdate`, `RoleAgrees`, `HwCfgIntact`, `PathAsSelected`, `AfcNearest` |
| `mem_fns` | every call on every memory of six bits: `CopyExact`, `SetExact`, `CmpExact` |
| `reg_crossed` (violation) | two reads at once return each other's register (`src/Zing.c:192`) |
| `reg_mngt` (violation) | the 520-byte dump runs over `CcCtx.Data_[512]` into `MngtData_` (`src/ControlCh.c:35`) |
| `ep0_stored` (violation) | a command written on seeing the reply of the last one is emptied (`src/USB_EP0.c:251`) |
| `usb_reg_reset` (violation) | CLEAR_FEATURE drops a register read; its reader sleeps for ever (`fw/ZED/USB_Handler.c:68`) |

Bounds.

* Register access: two addresses and two values tell "mine" from "another's" and
  "old" from "new"; two clients that read and one callback are all the clients
  the firmware has. Two buffers of ControlOut reach full, partly full and empty
  with both threads waiting; one or two of ControlIn make the modem wait.
  `MaxUnsolicited` bounds the modem's own frames (one in `reg_sole`, none where
  the interleavings of three clients are the question). `reg_clients` stops at
  a mixed frame (`Unmixed`), where its properties claim nothing more.
* Heap: twelve lines in three words of four bits, blocks of 2, 3, 5 and 8 lines:
  inside a word, over two and over three, the largest more than half the heap,
  so that an empty heap serves it only from the top; searches that start in each
  word; `MaxLeaks` = 1 free refused for want of the mutex.
* Mailbox: two addresses, so that the address of one command may meet what
  another has left; one value, which a command has or lacks; any number of
  commands, one of each kind that differs in what it does to the mailbox and reply.
* Data flow: control channels of 1 unit, data channels of 2, test blocks of 1 in
  a heap of 7, so that all layouts fit and two leaked blocks make a switch fail;
  two DMA buffers per data channel (one full, one with its callback pending)
  and one packet per endpoint, which fills every place of a line; three packets
  (`MaxSends`) are one more than a channel holds, so that one passes another's
  place. With a block leaked, the search ends where the last packet has been sent
  (`FewSends`): two packets suffice for what a switch broken off does to them.
* Zing mode: three settings (`AfcN`) make a first, a best and a tie possible;
  one count the modem may measure besides the 0 of a late answer, so that any
  setting may be the nearest and several may tie; the host asks for 2.5 GHz, whose
  reference (16384) is nearer to a late count than to the other, while that of
  the boot (32768) is not, so that the two searches choose differently; one access that fails (`MaxFails`), at any point of any
  routine, and any number of commands after it; one poke of `HW_CFG`, one UART
  write; the build is DEV, whose boot changes the role it starts with.
* Memory functions: all memories of six bits, blocks of two bytes: regions of
  up to three blocks, with and without a rest, at every distance.

Fairness. `RegAccess!Fairness`: the modem keeps serving (weak); the ready list
of the RTOS is FIFO within a priority, so a thread that is ready again and again
runs (strong, for sends, answers and the control channel thread). Nobody has to
start an access and no timeout has to expire. `Ep0Mailbox!FairSpec`: the command
thread runs on while it can (weak). A command blocks only in register access,
which ends.

Deadlock is checked except in `data_flow`, where a device that has filled memory
through a NULL pointer stops.

## 4. Findings

The four violation runs above are the findings. Other behaviours a user of the
firmware should know of are in the models without contradicting any document. The
properties do not forbid them: where one of them happens, the condition named here
takes it out, and the property speaks of everything else.

* `mixed` (`src/Zing.c:418`): the UART callback builds its frame in the buffer in
  which a thread has built one, or a thread does so while another waits for a DMA
  buffer; the wrong frame is committed, perhaps with the wrong length. All
  properties of `RegAccess` but `MixedOnlyBy` and `AnswerExact` stop there; so do,
  with crossed reads (`disturbed`), those of `ZingMode`: a routine whose read has
  crossed another writes the other register's word back.
* The last two words of a register dump (`src/ControlCh.c:35-36`,
  `src/Zing.c:192`): the first is always 520, the length just stored there; the
  second is `MngtData_`, the last word of the dump unless a management frame came
  meanwhile. That the 512-byte receive buffer (`src/ControlCh.c:16`) is filled with
  520 bytes is left out: what lies behind it is not part of the model.
* `overlapped`: a command laid over one in progress is performed as a mixture of
  both, or not at all.
* `Early`, `failed`: GET DMA MODE and GET ZING MODE announce their length before
  their text (`Clear`, `Length`, `Text`); a failed register read is answered with
  the previous reply (`ReadFails`, `CommandPort!Mislead`).
* `short`, `early`: after a switch that failed half way `Dma.Mode_` keeps the old
  name; a mode command that comes before the application thread's
  `DMA_Normal_DataOnly` mixes two layouts under one name.
* `raced`, `cleared`: a host that reads during the preload may get a buffer
  without the pattern; CLEAR_FEATURE on the data IN endpoint silences the source
  until the next switch.
* `AppStop` destroys no channel, and what waits in one is delivered in the next
  session (`SessionBound` bounds it).
* A heap search that does not begin at the top may miss a block that fits across
  the line where it began (`src/cyfxtx.c:941`); `SearchComplete` says that it
  misses no other.
* An AFC command moves a node on the RF path to serdes (`Afc`; `PathAsSelected`
  takes it so); a reset command that fails half way leaves the modem in reset
  (`HwCfgIntact`).

## 5. Proofs

| Module | Theorems |
|---|---|
| `RegAccessProofs` | `TypeCorrect`, `WakeupCorrect`, `WritesCorrect`, `AnswerCorrect`, `AloneCorrect`, `ImplementsFile`, `FrameBuffer` |
| `DmaBufMgrProofs` | `TypeCorrect`, `ApartCorrect`, `BitmapCorrect`, `ImplementsPool`, `SearchCorrect`, `EmptyCorrect` |
| `Ep0MailboxProofs` | `TypeCorrect`, `CommandCorrect`, `ReplyCorrect`, `ImplementsPort` |
| `DmaModesProofs` | `TypeCorrect`, `HeapCorrect`, `ModeCorrect`, `SwitchCorrect`, `DeadCorrect` |
| `DataFlowProofs` | `FlowTypeCorrect`, `PreloadAlwaysSucceeds`, `SourceNeverDry`, `SourcePatternSent`, `NothingCarriedOver`, `OrderKept`, `SessionBounded` |
| `ZingModeProofs` | `TypeCorrect`, `UpdateKept`, `RoleHolds`, `HwCfgHolds`, `PathHolds`, `AfcHolds` |
| `MemFnsProofs` | `TypeCorrect`, `CopyCorrect`, `SetCorrect`, `CmpCorrect` |

They hold for any number of clients, registers, values, buffers, packets, words,
bytes, heap units, settings of the frequency search and failed accesses that satisfy the named assumptions of the modules, which TLC
evaluates on its instances.

* RegAccess. `NoLostWakeup` needs that the number of waiting readers is covered
  by unanswered reads and unreceived answers in the channels; `WritesSettle` is
  inductive with the type invariant, action by action over the queue;
  `RightAnswer` needs that, while no reads overlap and no frame is mixed, the
  read in progress has exactly one place: in ControlOut, in ControlIn or in
  `CcCtx.Data_`, with the value due to it (`SlotRight`, from which `AnswerExact`
  follows for the words it claims). `AloneCorrect` drops the conditions
  for a single client, because nobody else can build or read in between.
  `FrameBuffer` rests on `StillOwn`: between building and committing without a
  wait, the buffer is the client's own or a callback's. `ImplementsFile`
  maps the registers to the values the committed writes will leave (the last one
  in the queue for each register), a read's debt to the value due at its commit,
  and the first overlap or mixed frame to `Disturb`.
* DmaBufMgr. The inductive invariant is types, `OnePlace` (a block is live,
  leaked or being freed, never two of these), `NoOverlap` and `BitmapExact`
  together: the run of ones from a block's start is exactly its marked lines
  because blocks are apart and the last line of each is left zero. The
  refinement maps a found search to `Give`, the end of a free to `TakeBack`,
  and everything else to stuttering. `SearchCorrect` takes a stretch of zeros
  long enough that lies on one side of the line where the search began, and in
  it the first line (`LeastNat`) from which as many zeros follow: the loop, which
  counts zeros anew after each marked line, cannot have passed it.
  `EmptyCorrect` follows, because a heap without blocks has no ones, and every
  free puts the search position back, so that it is searched from the top
  (`EmptyFromTop`).
* Ep0Mailbox. While the command does not overlap another, the parts of the text
  the thread has still to read are those of the command (`Loaded`, `Taken`),
  whatever was under them, the reply length is still the old one or, where it
  comes first, already the new one (`Answered`), and only a register read can
  have failed (`Failing`). `ImplementsPort` maps the thread's place to the stage
  of the command (`Stage`): the steps up to the last argument read are one
  `Take`, each step of storing is a `Store`, the step that completes text and
  length is the `Publish`, emptying the mailbox is the `Rest`. From a command
  written too early until the thread waits again every step is a `Muddle`.
* DmaModes. Every unit of the heap is free, in a channel or in a block
  (`HeapExact`); what a switch has still to create is not there (`TodoOpen`);
  what it has created agrees with what it will announce (`SwitchOnWay`); between
  boot and `DMA_Normal_DataOnly` the layout is that of `DMA_SYNC` (`BootLayout`).
  A creation that fails therefore means that the other channels and the blocks
  hold the rest.
* DataFlow. As it is written over the actions of DmaModes, the invariant of
  DmaModes holds of it too (lemma `ModesHold`), which the proofs below use.
  `SourceInv` follows the preload: with `i` buffers filled, `given` and `events`
  together make `i`, the others are idle, and while nobody raced they are the
  first `i` of the ring, all filled. `FlowInv` puts every packet in the line of
  its receiver (last received, places nearest first, each rising and all sent
  before the next), one line per layout, and says what is not in a line is
  empty; it needs the layouts possible in each mode (`ChanShape`) and DmaModes'
  own invariant. `Few` counts the packets left from before `AppStop`: they are
  in the buffers of one channel and only become fewer.
* ZingMode. Every routine is a `Script`: a change of a register comes right after
  the read or change of the same register. In boot only the application thread
  has a routine, afterwards it only looks (`Alone`), and the UART and the modem
  write none of the registers that are read and changed: so the value a routine
  has read is the register's until it writes it back (`UpdateInv`). The boot and
  `Zing_AFC2` write registers whole, hundreds of times for a large `AfcN`; of
  these sequences the proof only uses which write of a register is the last
  (`LastWrite`, kept by concatenation and by taking the first access). `ModeInv`
  lists the points of `Zing_SetHRCP`, `Zing_SetPath` and `Zing_Reset` with what
  is already done there (`RolePart`, `PathLeft`, `ResetLeft`), and what is settled
  when no command is under way (`Trusted`).
  `AfcInv` numbers the accesses of `Zing_AFC2`: count `m` is measured by the
  access `CountAt(b, m)` of what is left of it, TRIM_2 is tuned six accesses after
  the last, and `CntArr` holds the counts taken so far (`Progress`); so the array
  is full when a setting is chosen, and what is written then is the choice
  (`Chosen`). `AfcInv` also keeps the reference of the search in
  progress (`sought`), so that it is this one the counts are compared with. What
  the choice is worth is `SelectNearest`: for any counts, the
  loop of the code returns the first of those nearest to the reference.
* MemFns. The loop invariant says how far a loop has come: bytes below (going
  up) or from (going down) that place have their new value and all others their
  old one. The direction, chosen by `dest > src`, makes the source byte of the
  next assignment one that still has its old value.

Induction over data. The library's induction theorems take a predicate as a
parameter, which the provers cannot instantiate. Where a loop or a recursive
definition needs one (the searches of heap and frequency, the sum of the weights
of a word's bits), `NatFacts!UpTo` makes it on a set: the set of the places up
to which the claim holds contains the first, and with each the next, hence all.
`UpTo` rests on `LeastNat`, and this on the well-foundedness of `<` on `Nat` from
the library. The same device shows that the recursive functions of the model
(`Select`, `LowHalf`) have a solution at all.

Only model-checked: the liveness properties `EveryReadReturns` and
`CommandPerformed` (fairness and ENABLED are outside the proof system). Every
other property of a passing run is a theorem.
No module uses a RECURSIVE operator.

## 6. Not modelled

Requests 1 (echo buffer) and 2 (device reset, but for `ZingMode!Reboot`); the
statistics `Count_` and the status line made of them (a number on the console);
the lengths and contents of data packets; the floating point that turns a
frequency into `ref_cnt`; `CyU3PDmaBufferDeInit`; the leak and corruption checks,
which this build never enables; `CyU3PMemAlloc/Free` (calls of the RTOS);
`Zing_AutoHRCP` (never called); descriptors, GPIF tables, PIB, I2C, GPIO and
console initialisation (straight-line SDK calls or constant tables); the test
firmware under `fw/tests`, a separate image. Undefined behaviour in C that leaves
the modelled state (a frame written through a NULL pointer before
`Zing_AllocBuffer`, DATATX into an uninitialised descriptor, a division by a
frequency of 0) is listed as a hazard and excluded by guards.

## 7. Plan

1. Done: the modules and theorems above.
2. `UsbRegAccess`: what a register read still has when CLEAR_FEATURE spares its
   channel, proved as it is proved without resets.
3. `ZedSystem`: mailbox, register access and modes composed: a REGR command while
   the mode changes under it.
4. `MemChecks`: the in-use list of the leak checks as a doubly linked list
   against a set, should a build enable them.
