------------------------------ MODULE ZingMode -----------------------------
(***************************************************************************)
(* What the firmware makes of the Zing modem: the initialisation at boot   *)
(* (Zing_Init with the frequency search Zing_AFC2), the role of the node   *)
(* (Zing_SetHRCP: PPC or DEV), the signal path (Zing_SetPath), the reset   *)
(* (Zing_Reset), and the register commands of the host and of the UART.    *)
(*                                                                         *)
(* A routine is a sequence of register accesses.  They go through RegFile, *)
(* the abstract register file that RegAccess implements: an access is one  *)
(* step, or two for a read, and the routines of the two threads interleave *)
(* between them.  CHECK ends a routine at the first access that fails, and *)
(* what it has written stays written.                                      *)
(*                                                                         *)
(* A register word is the set of its bits that are one.                    *)
(***************************************************************************)
EXTENDS Integers, Sequences, FiniteSetsExt

CONSTANTS
  AfcN,       \* AFC_N, the settings Zing_AFC2 tries (64 in ZingHw.h)
  Counts,     \* counts the modem may measure
  RefCounts,  \* ref_cnt of the frequencies the host may ask for
  Build,      \* HRCP_PPC defined: "PPC", else "DEV"
  AckMode,    \* ACK_MODE
  Pokes,      \* the [addr, val] the host may write with REGW
  UartWrites, \* the [addr, val] of setBand and of the UART's PPID command
  Polled,     \* registers the application thread polls, of PolledRegs
  MaxFails,   \* bound: accesses that fail between two resets of the FX3
  NoVal       \* a client without a read in progress is owed nothing

ASSUME AfcAssumption == AfcN \in Nat \ {0}
ASSUME CountsAssumption == Counts \subseteq 0..65535
ASSUME BuildAssumption == Build \in {"PPC", "DEV"} /\ AckMode \in BOOLEAN
ASSUME FailsAssumption == MaxFails \in Nat
ASSUME RefCountAssumption == \A ref \in RefCounts : ref \in Nat

-----------------------------------------------------------------------------
(* Words.                                                                  *)

Weight == <<1, 2, 4, 8, 16, 32, 64, 128, 256, 512, 1024, 2048, 4096, 8192, 16384, 32768>>
Ones(n) == {i \in 0..15 : (n \div Weight[i + 1]) % 2 = 1}
Word(hi, lo) == {16 + i : i \in Ones(hi)} \cup Ones(lo)

\* The number in the low half of a word.
LowHalf(w) == MapThenSumSet(LAMBDA i : Weight[i + 1], w \cap 0..15)

(* HW_CFG.  The bits the commands change by name; Stage0 to Stage2 are     *)
(* REG_HW_CFG_INIT_STAGE0 to 2.                                            *)
PpcMode == 4
InitN == 31
Stage0 == {0, 1, PpcMode, 16}
Stage1 == Stage0 \cup {20, 24, 25, 30, InitN}
Stage2 == (Stage1 \ {16}) \cup {13, 18} \cup (IF AckMode THEN {8} ELSE {})

Ifs(role) == IF role = "PPC" THEN Word(0, 94 * 256 + 25) ELSE Word(0, 230 * 256 + 25)

\* TRIM_1 with the serdes path, as Zing_AFC2 leaves it; the two path bits.
AfcTrim1 == Word(\h88C8, \hA33D)
PathBits == {5, 6}
PathBit(path) == IF path = "RF" THEN 6 ELSE 5

\* PLL_AFC with a measurement switched on, and with its result.
AfcOn == Word(1, 0)
Measured(n) == Word(1, n)

\* TRIM_2 while setting i is tried, and when it is chosen.
Trying(i) == Word(\h1200 + i, \h8091)
Tuned(i) == (Word(\h9224, \hF0F5) \ (16..23)) \cup (Trying(i) \cap (16..23))

-----------------------------------------------------------------------------
(* Accesses.  `look` reads a register for a log line; `read` and `count`   *)
(* keep the value, `modify` changes bits of the kept value and writes it   *)
(* back, `tune` writes the chosen setting.  `pll` is the I2C setup of the  *)
(* PLL, `role` the assignment of zing_hrcp.                                *)
Words == SUBSET (0..31)

\* What a register holds that the firmware has not chosen: no word.
Unknown == {32}
Access(op, a, clear, w, n) == [op |-> op, addr |-> a, clear |-> clear, val |-> w, n |-> n]
Write(a, w) == Access("write", a, {}, w, 0)
Look(a) == Access("look", a, {}, {}, 0)
Read(a) == Access("read", a, {}, {}, 0)
Modify(a, clear, set) == Access("modify", a, clear, set, 0)
RoleBits(role) == IF role = "PPC" THEN {PpcMode} ELSE {}
SetRole(role) == Access("role", "zing_hrcp", {}, RoleBits(role), 0)

Zero(addrs) == [i \in 1..Len(addrs) |-> Write(addrs[i], {})]

\* A mistake: the interframe spaces are left as they are.
SetHRCPModeOnly(role) ==
  <<Read("HW_CFG"),
    Modify("HW_CFG", {PpcMode}, RoleBits(role)),
    SetRole(role)>>

\* Zing_SetHRCP.
SetHRCP(role) ==
  <<Read("HW_CFG"),
    Modify("HW_CFG", {PpcMode}, RoleBits(role)),
    Write("IFS", Ifs(role)),
    SetRole(role)>>

\* A mistake: the mask clears only the bit it is about to set.
SetPathOneBit(path) ==
  <<Read("TRIM_1"), Modify("TRIM_1", {PathBit(path)}, {PathBit(path)})>>

\* Zing_SetPath.
SetPath(path) ==
  <<Read("TRIM_1"), Modify("TRIM_1", PathBits, {PathBit(path)})>>

\* A mistake: the modem is left in reset.
ResetHolds == <<Read("HW_CFG"), Modify("HW_CFG", {InitN}, {})>>

(* Zing_Reset(0).  The second write starts from the value kept by the      *)
(* first read, 100 ms before.                                              *)
Reset ==
  <<Read("HW_CFG"),
    Modify("HW_CFG", {InitN}, {}),
    Modify("HW_CFG", {}, {InitN})>>

Try(i) ==
  <<Write("TRIM_2", Trying(i)), Write("PLL_AFC", {}), Write("PLL_AFC", AfcOn),
    Access("count", "PLL_AFC", {}, {}, i)>>

\* A mistake: one try more than CntArr has room for.
TriesOneMore == [k \in 1..(4 * AfcN + 4) |-> Try((k - 1) \div 4)[((k - 1) % 4) + 1]]

\* The tries of Zing_AFC2, one after the other.
Tries == [k \in 1..(4 * AfcN) |-> Try((k - 1) \div 4)[((k - 1) % 4) + 1]]

\* The RF and serdes setting that ends Zing_Init's and Zing_AFC2's.
Trim3 == <<Write("TRIM_3", Word(\h0048, \h8F73)), Write("TRIM_3", Word(\h0078, \h8F73))>>

\* ref_cnt for the 1.25 GHz of Zing_Init: 25 MHz / 1.25 GHz * 50 * 2^15.
BootRef == 32768

\* A mistake: ref_cnt keeps its initial value, whatever the frequency.
TuneInitial(ref) == Access("tune", "TRIM_2", {}, {}, BootRef)

\* The chosen setting is written, ref being what the counts are compared with.
Tune(ref) == Access("tune", "TRIM_2", {}, {}, ref)

\* Zing_AFC2, ref being the ref_cnt computed from its argument.
AFC2(ref) ==
  <<Write("TRIM_1", Word(0, \h1F)), Write("TRIM_4", Word(0, \h88)),
    Write("TRIM_2", Word(\h1221, \h809B))>>
  \o Tries
  \o <<Write("TEST_PATTERN", {}), Write("TRIM_1", {3}), Write("TEST_CONFIG", {0}),
       Write("TRIM_1", AfcTrim1), Write("TRIM_4", Word(\hFF88, \h8888)),
       Tune(ref), Look("TRIM_2")>>
  \o Trim3

\* Zing_Init up to its call of Zing_AFC2.
RfSerdes ==
  <<Access("pll", "PLL", {}, {}, 0)>>
  \o Zero(<<"TEST_PATTERN", "RF_RX_CONTROL_0", "RF_RX_CONTROL_1",
            "RF_TX_CONTROL_0", "TRIM_1", "TRIM_2">>)
  \o <<Write("RF_CONTROL_1", Word(1, \hDFFF)), Write("RF_CONTROL_0", Word(\hFE, \h011F)),
       Write("RF_RX_CONTROL_0", Word(\hA, \hA666)),
       Write("RF_RX_CONTROL_1", Word(3, \hFF59)), Write("RF_TX_CONTROL_0", Word(0, \hEF)),
       Write("TEST_PATTERN", {}), Look("TEST_PATTERN"),
       Write("TRIM_1", {3}), Look("TRIM_1"),
       Write("TEST_CONFIG", {0}), Look("TEST_CONFIG"),
       Write("TRIM_1", AfcTrim1), Look("TRIM_1"),
       Write("TRIM_4", Word(\hFF88, \h8888)), Write("TRIM_2", Word(\h9224, \hF0F5))>>
  \o Trim3

\* Zing_Init after Zing_AFC2: the path of the build (rf), then the modem.
Modem ==
  <<Write("TRIM_1", Word(\h88C8, \hA3DF)),
    Write("HW_CFG", Stage0), Write("IFS", Ifs("PPC")),
    Write("SUPERFRAME_CFG", Word(500, 50000)), Write("PPID", Word(0, \hABCD)),
    Write("PHY_CTRL", Word(\hD, \h6010)), Write("PLL_CTRL_SERDES", Word(2, \h0013)),
    Write("DEVICE_ID", Word(0, \h3500)), Write("MAC_TIMEOUT_CFG", Word(5000, 10000)),
    Write("PHY_TIMEOUT_CFG", Word(0, 2000)), Write("MAC_RETX_LIMIT", Word(0, 1000)),
    Write("HW_CFG", Stage1), Write("HW_CFG", Stage2),
    Look("RTL_VERSION"), Look("HW_CFG")>>

\* ApplicationThread's accesses before USB_Connect; the dump is one read.
Boot ==
  RfSerdes \o AFC2(BootRef) \o Modem \o <<Look("HW_CFG")>> \o SetHRCP(Build)

-----------------------------------------------------------------------------
Threads == {"app", "ep0"}
Clients == Threads \cup {"uart", "modem"}

Addrs == {"HW_CFG", "IFS", "SUPERFRAME_CFG", "PPID", "DEVICE_ID", "PHY_CTRL",
          "PLL_CTRL_SERDES", "TEST_PATTERN", "MAC_TIMEOUT_CFG", "PHY_TIMEOUT_CFG",
          "MAC_RETX_LIMIT", "TEST_CONFIG", "RTL_VERSION", "RF_RX_CONTROL_0",
          "RF_RX_CONTROL_1", "RF_TX_CONTROL_0", "RF_CONTROL_0", "RF_CONTROL_1",
          "PLL_AFC", "TRIM_1", "TRIM_2", "TRIM_3", "TRIM_4", "TXID", "RXID"}
Vals == Words \cup {Unknown}

\* What ppid, deviceID, rx_id, tx_id and band read, one after the other.
PolledRegs == {"PPID", "DEVICE_ID", "RXID", "TXID", "RF_CONTROL_0"}

\* RF_CONTROL_0 for the low and the high band; PPID is 16 bits wide.
BandWords == {Word(\hFE, \h011F), Word(\hFE, \h8010)}
UartRequests ==
  [addr : {"RF_CONTROL_0"}, val : BandWords] \cup [addr : {"PPID"}, val : SUBSET (0..15)]

ASSUME RequestAssumption ==
  /\ \A p \in Pokes : p \in [addr : Addrs, val : Words]
  /\ \A p \in UartWrites : p \in UartRequests
  /\ Polled \subseteq PolledRegs

VARIABLES
  regs,       \* RegFile: the registers
  owed,       \* RegFile: what each read in progress will return
  disturbed,  \* RegFile: accesses have got in each other's way
  phase,      \* the application thread: in boot, hung in CheckStatus, connected
  todo,       \* the accesses each thread has still to make
  kept,       \* the value each thread's routine has read and will write back
  counts,     \* CntArr of Zing_AFC2
  zing_hrcp   \* the role the firmware believes the node has

(* History variables: no action reads them.                                *)
VARIABLES
  settles,    \* what the host's last command settles when it completes
  unsettled,  \* what a command has begun to change and none has settled
  path,       \* the path selected last
  poked,      \* registers the host has written with REGW
  sought,     \* ref_cnt of the frequency search begun last
  fails       \* accesses that have failed

accessVars == <<regs, owed, disturbed, kept, counts>>
stateVars == <<phase, zing_hrcp>>
ghostVars == <<path, poked, sought, fails>>
commandVars == <<settles, unsettled>>
vars == <<accessVars, stateVars, todo, commandVars, ghostVars>>

File == INSTANCE RegFile WITH file <- regs

AllUnknown == [a \in Addrs |-> Unknown]
NobodyReads == [c \in Clients |-> NoVal]
NothingKept == [c \in Threads |-> Unknown]
BootTodo == [c \in Threads |-> IF c = "app" THEN Boot ELSE << >>]

Init ==
  /\ regs = AllUnknown
  /\ owed = NobodyReads
  /\ disturbed = FALSE
  /\ phase = "boot"
  /\ todo = BootTodo
  /\ kept = NothingKept
  /\ counts = << >>
  /\ zing_hrcp = "PPC"
  /\ settles = {}
  /\ unsettled = {}
  /\ path = "RF"
  /\ poked = {}
  /\ sought = BootRef
  /\ fails = 0

-----------------------------------------------------------------------------
(* Accesses of a thread.                                                   *)
Doing(c, op) == todo[c] # << >> /\ todo[c][1].op = op
Now(c) == todo[c][1]

\* The last access of a command settles what the command is about.
Last(c) == Len(todo[c]) = 1
Done(c) ==
  /\ todo' = [todo EXCEPT ![c] = Tail(@)]
  /\ unsettled' = IF c = "ep0" /\ Last(c) THEN unsettled \ settles ELSE unsettled
  /\ settles' = IF c = "ep0" /\ Last(c) THEN {} ELSE settles

\* A disturbed access writes anything: the registers stay unknown.
DoWrite(c, a, w) ==
  IF disturbed THEN UNCHANGED <<regs, owed, disturbed>> ELSE File!Write(c, a, w)

Disturb ==
  /\ regs' = AllUnknown
  /\ owed' = [d \in Clients |-> IF owed[d] = NoVal THEN NoVal ELSE Unknown]
  /\ File!Disturb

\* A second read in progress disturbs both.
Others(c) == {d \in Clients \ {c} : owed[d] # NoVal}
DoBeginRead(c, a) ==
  IF Others(c) = {} THEN File!BeginRead(c, a)
  ELSE /\ regs' = AllUnknown
       /\ owed' = [d \in Clients |-> IF d \in Others(c) \cup {c} THEN Unknown ELSE NoVal]
       /\ File!Disturb

PllSetup(c) ==
  /\ Doing(c, "pll")
  /\ Done(c)
  /\ UNCHANGED <<accessVars, stateVars, ghostVars>>

PutWord(c) ==
  /\ Doing(c, "write")
  /\ DoWrite(c, Now(c).addr, Now(c).val)
  /\ Done(c)
  /\ UNCHANGED <<kept, counts, stateVars, ghostVars>>

BeginRead(c) ==
  /\ \E op \in {"look", "read", "count"} : Doing(c, op)
  /\ owed[c] = NoVal
  /\ DoBeginRead(c, Now(c).addr)
  /\ UNCHANGED <<kept, counts, todo, commandVars, stateVars, ghostVars>>

\* A count is the low half of the word; an unknown one may be anything.
CountOf(w) == IF w = Unknown THEN 0 ELSE LowHalf(w)

EndRead(c) ==
  /\ owed[c] # NoVal
  /\ File!EndRead(c)
  /\ kept' = [kept EXCEPT ![c] = IF Doing(c, "read") THEN owed[c] ELSE @]
  /\ counts' = IF Doing(c, "count")
               THEN Append(IF Now(c).n = 0 THEN << >> ELSE counts, CountOf(owed[c]))
               ELSE counts
  /\ Done(c)
  /\ UNCHANGED <<stateVars, ghostVars>>

Changed(w, m) == IF w = Unknown THEN Unknown ELSE (w \ m.clear) \cup m.val

PutChanged(c) ==
  /\ Doing(c, "modify")
  /\ LET w == Changed(kept[c], Now(c))
     IN  /\ DoWrite(c, Now(c).addr, w)
         /\ kept' = [kept EXCEPT ![c] = IF Last(c) THEN Unknown ELSE w]
  /\ Done(c)
  /\ UNCHANGED <<counts, stateVars, ghostVars>>

Distance(n, ref) == IF n > ref THEN n - ref ELSE ref - n

\* The loop that chooses selected_idx (counts[i + 1] is CntArr[i]).
Select(cnt, ref) ==
  LET sel[i \in 1..Len(cnt)] ==
        IF i > 1 /\ Distance(cnt[sel[i - 1]], ref) <= Distance(cnt[i], ref)
        THEN sel[i - 1] ELSE i
  IN  sel[Len(cnt)] - 1

PutTuned(c) ==
  /\ Doing(c, "tune")
  /\ DoWrite(c, "TRIM_2", Tuned(Select(counts, Now(c).n)))
  /\ Done(c)
  /\ UNCHANGED <<kept, counts, stateVars, ghostVars>>

AssignRole(c) ==
  /\ Doing(c, "role")
  /\ zing_hrcp' = IF Now(c).val = RoleBits("PPC") THEN "PPC" ELSE "DEV"
  /\ kept' = [kept EXCEPT ![c] = Unknown]
  /\ Done(c)
  /\ UNCHANGED <<regs, owed, disturbed, counts, phase, ghostVars>>

(* No DMA buffer comes free within ZING_HW_TIMEOUT, or the I2C transfer    *)
(* fails: CHECK ends the routine.  In boot CheckStatus then stops the      *)
(* application thread; a failed poll is only logged.                       *)
Fail(c) ==
  /\ todo[c] # << >> /\ Now(c).op # "role"
  /\ owed[c] = NoVal
  /\ fails < MaxFails
  /\ fails' = fails + 1
  /\ todo' = [todo EXCEPT ![c] = << >>]
  /\ kept' = [kept EXCEPT ![c] = Unknown]
  /\ phase' = IF phase = "boot" THEN "hung" ELSE phase
  /\ settles' = IF c = "ep0" THEN {} ELSE settles
  /\ UNCHANGED <<regs, owed, disturbed, counts, zing_hrcp, unsettled, path, poked,
                 sought>>

-----------------------------------------------------------------------------
(* The application thread.                                                 *)

\* A mistake: USB_Connect comes before the role is set.
ConnectEarly ==
  /\ phase = "boot" /\ Len(todo["app"]) <= 3 /\ owed["app"] = NoVal
  /\ phase' = "connected"
  /\ UNCHANGED <<accessVars, zing_hrcp, todo, commandVars, ghostVars>>

\* USB_Connect, once everything before has succeeded.
Connect ==
  /\ phase = "boot" /\ todo["app"] = << >>
  /\ phase' = "connected"
  /\ UNCHANGED <<accessVars, zing_hrcp, todo, commandVars, ghostVars>>

(* A poll.  Its result is only logged, so the order of the polls makes no  *)
(* difference to anyone.                                                   *)
Poll(a) ==
  /\ phase = "connected" /\ todo["app"] = << >>
  /\ todo' = [todo EXCEPT !["app"] = <<Look(a)>>]
  /\ UNCHANGED <<accessVars, stateVars, commandVars, ghostVars>>

-----------------------------------------------------------------------------
(* Commands of the host, performed by the EP0 thread.                      *)
Command(accesses, about) ==
  /\ phase = "connected" /\ todo["ep0"] = << >>
  /\ todo' = [todo EXCEPT !["ep0"] = accesses]
  /\ settles' = about
  /\ unsettled' = unsettled \cup about
  /\ UNCHANGED <<accessVars, stateVars, fails>>

ModeHrcp(role) ==
  /\ Command(SetHRCP(role), {"role"})
  /\ UNCHANGED <<path, poked, sought>>

ModePath(p) ==
  /\ Command(SetPath(p), {"path"})
  /\ path' = p
  /\ UNCHANGED <<poked, sought>>

ZingRst ==
  /\ Command(Reset, {"reset"})
  /\ UNCHANGED <<path, poked, sought>>

\* The search leaves the serdes path selected.
Afc(ref) ==
  /\ Command(AFC2(ref), {"afc", "path"})
  /\ path' = "SERDES"
  /\ sought' = ref
  /\ UNCHANGED poked

RegW(p) ==
  /\ Command(<<Write(p.addr, p.val)>>, {})
  /\ poked' = poked \cup {p.addr}
  /\ UNCHANGED <<path, sought>>

RegR(a) ==
  /\ Command(<<Look(a)>>, {})
  /\ UNCHANGED <<path, poked, sought>>

-----------------------------------------------------------------------------
(* The UART callback and the modem.                                        *)

\* Zing_AllocBuffer has run: before, the callback would write through NULL.
Allocated == phase = "boot" => Len(todo["app"]) < Len(Boot)

(* setBand and the PPID command.  The callback interrupts any thread: it   *)
(* may overwrite the frame another client has just built.                  *)
UartWrite(p) ==
  /\ Allocated
  /\ \/ DoWrite("uart", p.addr, p.val)
     \/ Disturb
  /\ UNCHANGED <<kept, counts, todo, commandVars, stateVars, ghostVars>>

\* The modem has measured; it may take longer than the code waits.
Measure(n) ==
  /\ regs["PLL_AFC"] = AfcOn
  /\ File!Write("modem", "PLL_AFC", Measured(n))
  /\ UNCHANGED <<kept, counts, todo, commandVars, stateVars, ghostVars>>

(* CyU3PDeviceReset, on a command of the host or the UART.  Frames on      *)
(* their way are lost: nothing is taken for granted of the registers.      *)
Reboot ==
  /\ regs' = AllUnknown
  /\ owed' = NobodyReads
  /\ disturbed' = FALSE
  /\ phase' = "boot"
  /\ todo' = BootTodo
  /\ kept' = NothingKept
  /\ counts' = << >>
  /\ zing_hrcp' = "PPC"
  /\ settles' = {}
  /\ unsettled' = {}
  /\ path' = "RF"
  /\ poked' = {}
  /\ sought' = BootRef
  /\ fails' = 0

-----------------------------------------------------------------------------
\* The next access of a thread's routine.
Routine(c) ==
  \/ PllSetup(c) \/ PutWord(c) \/ BeginRead(c) \/ EndRead(c)
  \/ PutChanged(c) \/ PutTuned(c) \/ AssignRole(c) \/ Fail(c)

HostCommand ==
  \/ \E role \in {"PPC", "DEV"} : ModeHrcp(role)
  \/ \E p \in {"RF", "SERDES"} : ModePath(p)
  \/ ZingRst
  \/ \E ref \in RefCounts : Afc(ref)
  \/ \E p \in Pokes : RegW(p)
  \/ RegR("HW_CFG")

Next ==
  \/ \E c \in Threads : Routine(c)
  \/ Connect \/ \E a \in Polled : Poll(a)
  \/ HostCommand
  \/ \E p \in UartWrites : UartWrite(p)
  \/ \E n \in Counts : Measure(n)
  \/ Reboot

Spec == Init /\ [][Next]_vars

-----------------------------------------------------------------------------
(* Properties.                                                             *)

Accesses ==
  [op : {"pll", "look", "read", "count", "write", "modify", "tune", "role"},
   addr : Addrs \cup {"PLL", "zing_hrcp"},
   clear : Words, val : Words, n : Nat]

TypeOK ==
  /\ regs \in [Addrs -> Vals]
  /\ owed \in [Clients -> Vals \cup {NoVal}]
  /\ disturbed \in BOOLEAN
  /\ phase \in {"boot", "hung", "connected"}
  /\ todo \in [Threads -> Seq(Accesses)]
  /\ kept \in [Threads -> Vals]
  /\ counts \in Seq(Nat) /\ Len(counts) <= AfcN
  /\ zing_hrcp \in {"PPC", "DEV"}
  /\ settles \cup unsettled \subseteq {"role", "path", "reset", "afc"}
  /\ path \in {"RF", "SERDES"}
  /\ poked \subseteq Addrs
  /\ sought \in RefCounts \cup {BootRef}
  /\ fails \in 0..MaxFails

(* A thread writes back the bits it does not change as they are: between   *)
(* a routine's read and its write back, for Zing_Reset the two writes 100  *)
(* ms apart, nobody else has written the register.  ~disturbed takes out   *)
(* the routine whose read crossed another and kept THAT register's word    *)
(* (it would write the foreign word back), and the frame that the UART     *)
(* callback has overwritten; so do RoleAgrees and HwCfgIntact, by Relied.  *)
NoLostUpdate ==
  ~disturbed =>
    \A c \in Threads : Doing(c, "modify") => kept[c] = regs[Now(c).addr]

\* The host may rely on what the commands say of register a: it has not
\* written a itself, and no reads have crossed and no frame has been mixed up
\* since the FX3 was reset.
Relied(a) == phase = "connected" /\ ~disturbed /\ a \notin poked

(* Zing_GetHRCP reports the role the modem has, and the interframe spaces  *)
(* are those of the role, unless a command to change it is under way or    *)
(* has failed; the next one that completes mends that.                     *)
RoleAgrees ==
  "role" \notin unsettled =>
    /\ Relied("HW_CFG") => (PpcMode \in regs["HW_CFG"] <=> zing_hrcp = "PPC")
    /\ Relied("IFS") => regs["IFS"] = Ifs(zing_hrcp)

(* No sequence of commands, failed ones included, changes another bit of   *)
(* HW_CFG than the role and the reset; and the modem is in reset only      *)
(* while a reset is under way or when the last one failed.                 *)
HwCfgIntact ==
  Relied("HW_CFG") =>
    /\ regs["HW_CFG"] \ {PpcMode, InitN} = Stage2 \ {PpcMode, InitN}
    /\ "reset" \notin unsettled => InitN \in regs["HW_CFG"]

(* The modem uses exactly one path: the one of the build or of the last    *)
(* path command, or serdes when a frequency search came after it: that the *)
(* search moves the node to serdes is taken as it is in the code.          *)
PathAsSelected ==
  Relied("TRIM_1") /\ "path" \notin unsettled =>
    regs["TRIM_1"] \cap PathBits = {PathBit(path)}

(* The search ends on the first setting whose count no other comes nearer  *)
(* to the reference of THIS search, the one of the frequency asked for     *)
(* last; a count may be late (0), and two may be equally near.  Like the   *)
(* other properties it holds of searches that no crossed read and no frame *)
(* overwritten by the UART callback has met: one that has may have taken   *)
(* another register's value for a count.                                   *)
AfcNearest ==
  Relied("TRIM_2") /\ "afc" \notin unsettled =>
    \E i \in 1..AfcN :
      /\ regs["TRIM_2"] = Tuned(i - 1)
      /\ \A j \in 1..AfcN : Distance(counts[i], sought) <= Distance(counts[j], sought)
      /\ \A j \in 1..(i - 1) : Distance(counts[i], sought) < Distance(counts[j], sought)
=============================================================================
