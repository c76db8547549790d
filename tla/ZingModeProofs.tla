--------------------------- MODULE ZingModeProofs --------------------------
(***************************************************************************)
(* What the commands of the host make of the modem holds for any number of *)
(* settings the search tries, any counts and frequencies, any registers    *)
(* the host writes and the application polls, and any failures.            *)
(*                                                                         *)
(* Every routine is a sequence in which a change of a register follows its *)
(* read (Script), and of the two threads one only looks (Alone): so what a *)
(* routine has read is what it writes back (UpdateInv).  The boot and the  *)
(* search are long sequences of plain writes; of them it only matters who  *)
(* writes a register last (LastWrite).  ModeInv then says of each point of *)
(* each routine what the registers hold and what is still to be written.   *)
(* AfcInv says which access of what remains of a search measures which     *)
(* count, so that CntArr is full when the setting is chosen, and that the  *)
(* loop over it has then found the first of the nearest (SelectNearest).   *)
(***************************************************************************)
EXTENDS ZingMode, NatFacts, FiniteSetTheorems, TLAPS

(* Words.                                                                  *)

LEMMA WordType == \A hi, lo : Word(hi, lo) \in Words
BY DEF Word, Words, Ones

LEMMA HighBits == \A hi, lo, i : i \in 0..15 => (i \in Word(hi, lo) <=> i \in Ones(lo))
BY DEF Word, Ones

LEMMA StageType == Stage0 \in Words /\ Stage1 \in Words /\ Stage2 \in Words
BY DEF Stage0, Stage1, Stage2, Words, PpcMode, InitN

LEMMA IfsType == \A role : Ifs(role) \in Words
BY WordType DEF Ifs

LEMMA TunedType == \A i : Tuned(i) \in Words
<1> SUFFICES ASSUME NEW i PROVE Tuned(i) \in Words
  OBVIOUS
<1>1. Word(\h9224, \hF0F5) \in Words
  BY WordType
<1> QED
  BY <1>1 DEF Tuned, Words

\* The path bits of the two words written whole to TRIM_1 at boot.
LEMMA RfPath == Word(\h88C8, \hA3DF) \cap PathBits = {PathBit("RF")}
<1>1. 5 \notin Ones(\hA3DF) /\ 6 \in Ones(\hA3DF)
  BY DEF Ones, Weight
<1>2. 5 \in 0..15 /\ 6 \in 0..15
  OBVIOUS
<1> QED
  BY <1>1, <1>2, HighBits DEF PathBits, PathBit

LEMMA SerdesPath == AfcTrim1 \cap PathBits = {PathBit("SERDES")}
<1>1. 6 \notin Ones(\hA33D) /\ 5 \in Ones(\hA33D)
  BY DEF Ones, Weight
<1>2. 5 \in 0..15 /\ 6 \in 0..15
  OBVIOUS
<1> QED
  BY <1>1, <1>2, HighBits DEF PathBits, PathBit, AfcTrim1

-----------------------------------------------------------------------------
(* Accesses.                                                               *)

LEMMA WriteType == \A a \in Addrs, w \in Words : Write(a, w) \in Accesses
BY DEF Write, Access, Accesses, Words

LEMMA LookType == \A a \in Addrs : Look(a) \in Accesses /\ Read(a) \in Accesses
BY DEF Look, Read, Access, Accesses, Words

LEMMA ModifyType ==
  \A a \in Addrs, clear \in Words, set \in Words : Modify(a, clear, set) \in Accesses
BY DEF Modify, Access, Accesses, Words

LEMMA RoleType == \A role : SetRole(role) \in Accesses /\ RoleBits(role) \in Words
BY DEF SetRole, RoleBits, Access, Accesses, Words, PpcMode

-----------------------------------------------------------------------------
(* Scripts.                                                                *)

Writes(x, a) == x.op = "write" /\ x.addr = a
Changes(x, a) == x.op = "modify" /\ x.addr = a

\* Accesses that neither keep a value nor change one.
PlainOne(x) ==
  x.op \notin {"read", "modify", "role"} /\ (x.op # "pll" => x.addr \in Addrs)
Plain(s) == s \in Seq(Accesses) /\ \A i \in DOMAIN s : PlainOne(s[i])

LEMMA PlainConcat == \A s, t : Plain(s) /\ Plain(t) => Plain(s \o t)
<1> SUFFICES ASSUME NEW s, NEW t, Plain(s), Plain(t) PROVE Plain(s \o t)
  OBVIOUS
<1>1. s \in Seq(Accesses) /\ t \in Seq(Accesses)
  BY DEF Plain
<1>2. s \o t \in Seq(Accesses)
  BY <1>1
<1>3. ASSUME NEW i \in DOMAIN (s \o t) PROVE PlainOne((s \o t)[i])
  <2>1. CASE i <= Len(s)
    BY <1>1, <2>1 DEF Plain
  <2>2. CASE i > Len(s)
    <3>1. (s \o t)[i] = t[i - Len(s)] /\ i - Len(s) \in DOMAIN t
      BY <1>1, <2>2
    <3> QED
      BY <3>1 DEF Plain
  <2> QED
    BY <1>1, <1>2, <2>1, <2>2
<1> QED
  BY <1>2, <1>3 DEF Plain

\* No access of s writes register a whole; access i is the last that does.
NoWrite(s, a) == \A i \in DOMAIN s : ~Writes(s[i], a)
LastWrite(s, a, w) ==
  \E i \in DOMAIN s : s[i] = Write(a, w) /\ \A j \in DOMAIN s : j > i => ~Writes(s[j], a)

LEMMA LastConcat ==
  \A s \in Seq(Accesses), t \in Seq(Accesses) : \A a, w :
    /\ LastWrite(t, a, w) => LastWrite(s \o t, a, w)
    /\ LastWrite(s, a, w) /\ NoWrite(t, a) => LastWrite(s \o t, a, w)
    /\ NoWrite(s, a) /\ NoWrite(t, a) => NoWrite(s \o t, a)
<1> SUFFICES ASSUME NEW s \in Seq(Accesses), NEW t \in Seq(Accesses), NEW a, NEW w
             PROVE  /\ LastWrite(t, a, w) => LastWrite(s \o t, a, w)
                    /\ LastWrite(s, a, w) /\ NoWrite(t, a) => LastWrite(s \o t, a, w)
                    /\ NoWrite(s, a) /\ NoWrite(t, a) => NoWrite(s \o t, a)
  OBVIOUS
<1>1. /\ Len(s \o t) = Len(s) + Len(t) /\ Len(s) \in Nat /\ Len(t) \in Nat
      /\ DOMAIN s = 1..Len(s) /\ DOMAIN t = 1..Len(t) /\ DOMAIN (s \o t) = 1..(Len(s) + Len(t))
      /\ \A i \in DOMAIN s : (s \o t)[i] = s[i]
      /\ \A i \in DOMAIN t : (s \o t)[Len(s) + i] = t[i]
  OBVIOUS
<1>2. ASSUME NEW i \in DOMAIN (s \o t)
      PROVE  (i \in DOMAIN s) \/ (i - Len(s) \in DOMAIN t /\ i = Len(s) + (i - Len(s)) /\ i > Len(s))
  BY ONLY <1>1, <1>2
<1>3. ASSUME LastWrite(t, a, w) PROVE LastWrite(s \o t, a, w)
  <2>1. PICK i \in DOMAIN t : t[i] = Write(a, w) /\ \A j \in DOMAIN t : j > i => ~Writes(t[j], a)
    BY <1>3 DEF LastWrite
  <2>2. Len(s) + i \in DOMAIN (s \o t) /\ (s \o t)[Len(s) + i] = Write(a, w)
    BY ONLY <1>1, <2>1
  <2>3. ASSUME NEW j \in DOMAIN (s \o t), j > Len(s) + i PROVE ~Writes((s \o t)[j], a)
    <3>1. j - Len(s) \in DOMAIN t /\ j - Len(s) > i /\ j = Len(s) + (j - Len(s))
      BY ONLY <1>1, <2>1, <2>3
    <3> QED
      BY ONLY <1>1, <2>1, <3>1
  <2> QED
    BY <2>2, <2>3 DEF LastWrite
<1>4. ASSUME LastWrite(s, a, w), NoWrite(t, a) PROVE LastWrite(s \o t, a, w)
  <2>1. PICK i \in DOMAIN s : s[i] = Write(a, w) /\ \A j \in DOMAIN s : j > i => ~Writes(s[j], a)
    BY <1>4 DEF LastWrite
  <2>2. i \in DOMAIN (s \o t) /\ (s \o t)[i] = Write(a, w)
    BY ONLY <1>1, <2>1
  <2>3. ASSUME NEW j \in DOMAIN (s \o t), j > i PROVE ~Writes((s \o t)[j], a)
    <3>1. CASE j \in DOMAIN s
      BY ONLY <1>1, <2>1, <2>3, <3>1
    <3>2. CASE j - Len(s) \in DOMAIN t /\ j = Len(s) + (j - Len(s))
      BY ONLY <1>1, <1>4, <3>2 DEF NoWrite
    <3> QED
      BY <1>2, <3>1, <3>2
  <2> QED
    BY <2>2, <2>3 DEF LastWrite
<1>5. ASSUME NoWrite(s, a), NoWrite(t, a), NEW j \in DOMAIN (s \o t) PROVE ~Writes((s \o t)[j], a)
  <2>1. CASE j \in DOMAIN s
    BY ONLY <1>1, <1>5, <2>1 DEF NoWrite
  <2>2. CASE j - Len(s) \in DOMAIN t /\ j = Len(s) + (j - Len(s))
    BY ONLY <1>1, <1>5, <2>2 DEF NoWrite
  <2> QED
    BY <1>2, <2>1, <2>2
<1> QED
  BY <1>3, <1>4, <1>5 DEF NoWrite

-----------------------------------------------------------------------------
(* Routines whose changes follow the read of the same register.            *)

Chained(s) ==
  \A i \in 2..Len(s) :
    s[i].op = "modify" => s[i - 1].op \in {"read", "modify"} /\ s[i - 1].addr = s[i].addr
OwnOne(x) ==
  /\ x.op \in {"read", "modify"} => x.addr \in {"HW_CFG", "TRIM_1"}
  /\ x.op \notin {"pll", "role"} => x.addr \in Addrs
Own(s) == \A i \in DOMAIN s : OwnOne(s[i])
Script(s) == s \in Seq(Accesses) /\ Chained(s) /\ Own(s)
Fresh(s) == Script(s) /\ (s # << >> => s[1].op # "modify")

LEMMA NoneFresh == Fresh(<< >>)
BY DEF Fresh, Script, Chained, Own

LEMMA PlainFresh == \A s : Plain(s) => Fresh(s)
<1> SUFFICES ASSUME NEW s, Plain(s) PROVE Fresh(s)
  OBVIOUS
<1>1. /\ s \in Seq(Accesses)
      /\ \A i \in 1..Len(s) : s[i].op \notin {"read", "modify"} /\ OwnOne(s[i])
  BY DEF Plain, PlainOne, OwnOne
<1>2. Chained(s) /\ Own(s)
  BY <1>1 DEF Chained, Own
<1>3. s # << >> => s[1].op # "modify"
  BY <1>1
<1> QED
  BY <1>1, <1>2, <1>3 DEF Fresh, Script

LEMMA PlainThenFresh == \A s, t : Plain(s) /\ Fresh(t) => Fresh(s \o t)
<1> SUFFICES ASSUME NEW s, NEW t, Plain(s), Fresh(t) PROVE Fresh(s \o t)
  OBVIOUS
<1>1. s \in Seq(Accesses) /\ t \in Seq(Accesses)
  BY DEF Plain, Fresh, Script
<1>2. /\ Len(s \o t) = Len(s) + Len(t) /\ Len(s) \in Nat /\ Len(t) \in Nat
      /\ s \o t \in Seq(Accesses)
      /\ \A i \in 1..Len(s) : (s \o t)[i] = s[i]
      /\ \A i \in 1..(Len(s) + Len(t)) : i > Len(s) => (s \o t)[i] = t[i - Len(s)]
  BY <1>1
<1>3. \A i \in 1..Len(s) : s[i].op \notin {"read", "modify"} /\ OwnOne(s[i])
  BY <1>1 DEF Plain, PlainOne, OwnOne
<1>4. /\ \A i \in 2..Len(t) : t[i].op = "modify" =>
           t[i - 1].op \in {"read", "modify"} /\ t[i - 1].addr = t[i].addr
      /\ \A i \in 1..Len(t) : OwnOne(t[i])
      /\ 1 <= Len(t) => t[1].op # "modify"
  BY <1>1 DEF Fresh, Script, Chained, Own
<1>5. ASSUME NEW i \in 2..Len(s \o t), (s \o t)[i].op = "modify"
      PROVE  (s \o t)[i - 1].op \in {"read", "modify"} /\ (s \o t)[i - 1].addr = (s \o t)[i].addr
  <2>1. i > Len(s) /\ (s \o t)[i] = t[i - Len(s)] /\ i - Len(s) \in 1..Len(t)
    BY ONLY <1>2, <1>3, <1>5
  <2>2. i - Len(s) \in 2..Len(t) /\ i - 1 > Len(s) /\ i - 1 \in 1..(Len(s) + Len(t))
    BY ONLY <1>2, <1>4, <1>5, <2>1
  <2>3. (s \o t)[i - 1] = t[i - Len(s) - 1]
    <3>1. (s \o t)[i - 1] = t[(i - 1) - Len(s)] /\ (i - 1) - Len(s) = i - Len(s) - 1
      BY ONLY <1>2, <1>5, <2>2
    <3> QED
      BY ONLY <3>1
  <2> QED
    BY ONLY <1>4, <1>5, <2>1, <2>2, <2>3
<1>6. ASSUME NEW i \in 1..Len(s \o t) PROVE OwnOne((s \o t)[i])
  <2>1. CASE i <= Len(s)
    BY ONLY <1>2, <1>3, <1>6, <2>1
  <2>2. CASE i > Len(s)
    <3>1. (s \o t)[i] = t[i - Len(s)] /\ i - Len(s) \in 1..Len(t)
      BY ONLY <1>2, <1>6, <2>2
    <3> QED
      BY ONLY <1>4, <3>1
  <2>3. i <= Len(s) \/ i > Len(s)
    BY ONLY <1>2, <1>6
  <2> QED
    BY ONLY <2>1, <2>2, <2>3
<1>7. ASSUME s \o t # << >> PROVE (s \o t)[1].op # "modify"
  <2>1. CASE Len(s) > 0
    BY ONLY <1>2, <1>3, <2>1
  <2>2. CASE Len(s) = 0
    <3>1. Len(s \o t) # 0
      BY <1>2, <1>7
    <3>2. 1 \in 1..(Len(s) + Len(t)) /\ 1 > Len(s) /\ 1 - Len(s) = 1 /\ 1 <= Len(t)
      BY ONLY <1>2, <2>2, <3>1
    <3>3. (s \o t)[1] = t[1]
      BY ONLY <1>2, <3>2
    <3>4. t[1].op # "modify"
      BY <1>4, <3>2
    <3> QED
      BY <3>3, <3>4
  <2>3. Len(s) > 0 \/ Len(s) = 0
    BY ONLY <1>2
  <2> QED
    BY ONLY <2>1, <2>2, <2>3
<1> QED
  BY <1>2, <1>5, <1>6, <1>7 DEF Fresh, Script, Chained, Own

LEMMA ScriptTail == \A s : Script(s) /\ s # << >> => Script(Tail(s))
<1> SUFFICES ASSUME NEW s, Script(s), s # << >> PROVE Script(Tail(s))
  OBVIOUS
<1>1. /\ s \in Seq(Accesses) /\ Tail(s) \in Seq(Accesses)
      /\ Len(Tail(s)) = Len(s) - 1 /\ Len(s) \in Nat /\ Len(s) > 0
      /\ \A i \in 1..Len(Tail(s)) : Tail(s)[i] = s[i + 1]
  BY DEF Script
<1>2. /\ \A i \in 2..Len(s) : s[i].op = "modify" =>
           s[i - 1].op \in {"read", "modify"} /\ s[i - 1].addr = s[i].addr
      /\ \A i \in 1..Len(s) : OwnOne(s[i])
  BY <1>1 DEF Script, Chained, Own
<1>3. ASSUME NEW i \in 2..Len(Tail(s)), Tail(s)[i].op = "modify"
      PROVE  Tail(s)[i - 1].op \in {"read", "modify"} /\ Tail(s)[i - 1].addr = Tail(s)[i].addr
  <2>1. /\ Tail(s)[i] = s[i + 1] /\ i + 1 \in 2..Len(s)
        /\ i - 1 \in 1..Len(Tail(s)) /\ (i - 1) + 1 = (i + 1) - 1
    BY ONLY <1>1, <1>3
  <2>2. Tail(s)[i - 1] = s[(i + 1) - 1]
    BY ONLY <1>1, <2>1
  <2> QED
    BY ONLY <1>2, <1>3, <2>1, <2>2
<1>4. ASSUME NEW i \in 1..Len(Tail(s)) PROVE OwnOne(Tail(s)[i])
  BY ONLY <1>1, <1>2, <1>4
<1> QED
  BY <1>1, <1>3, <1>4 DEF Script, Chained, Own

\* What the tail of a routine begins with.
LEMMA ScriptNext ==
  \A s : Script(s) /\ s # << >> /\ Tail(s) # << >> /\ Tail(s)[1].op = "modify" =>
    s[1].op \in {"read", "modify"} /\ s[1].addr = Tail(s)[1].addr
<1> SUFFICES ASSUME NEW s, Script(s), s # << >>, Tail(s) # << >>, Tail(s)[1].op = "modify"
             PROVE  s[1].op \in {"read", "modify"} /\ s[1].addr = Tail(s)[1].addr
  OBVIOUS
<1>1. s \in Seq(Accesses) /\ Tail(s)[1] = s[2] /\ 2 \in 2..Len(s) /\ 2 - 1 = 1
  BY DEF Script
<1> QED
  BY <1>1 DEF Script, Chained

-----------------------------------------------------------------------------
(* The routines.                                                           *)

LEMMA SetHRCPFresh == \A role : Fresh(SetHRCP(role))
<1> SUFFICES ASSUME NEW role PROVE Fresh(SetHRCP(role))
  OBVIOUS
<1> DEFINE r == Read("HW_CFG")
           m == Modify("HW_CFG", {PpcMode}, RoleBits(role))
           w == Write("IFS", Ifs(role))
           z == SetRole(role)
<1>1. /\ r \in Accesses /\ m \in Accesses /\ w \in Accesses /\ z \in Accesses
  BY LookType, ModifyType, WriteType, RoleType, IfsType DEF Addrs, Words, PpcMode
<1>2. /\ r.op = "read" /\ r.addr = "HW_CFG" /\ m.op = "modify" /\ m.addr = "HW_CFG"
      /\ w.op = "write" /\ w.addr = "IFS" /\ z.op = "role"
  BY DEF Read, Modify, Write, SetRole, Access
<1>3. SetHRCP(role) = <<r, m, w, z>>
  BY DEF SetHRCP
<1> HIDE DEF r, m, w, z
<1> QED
  BY <1>1, <1>2, <1>3 DEF Fresh, Script, Chained, Own, OwnOne, Addrs

LEMMA SetPathFresh == \A p : Fresh(SetPath(p))
<1> SUFFICES ASSUME NEW p PROVE Fresh(SetPath(p))
  OBVIOUS
<1> DEFINE r == Read("TRIM_1")
           m == Modify("TRIM_1", PathBits, {PathBit(p)})
<1>1. /\ r \in Accesses /\ m \in Accesses
  BY LookType, ModifyType DEF Addrs, Words, PathBits, PathBit
<1>2. /\ r.op = "read" /\ r.addr = "TRIM_1" /\ m.op = "modify" /\ m.addr = "TRIM_1"
  BY DEF Read, Modify, Access
<1>3. SetPath(p) = <<r, m>>
  BY DEF SetPath
<1> HIDE DEF r, m
<1> QED
  BY <1>1, <1>2, <1>3 DEF Fresh, Script, Chained, Own, OwnOne, Addrs

LEMMA ResetFresh == Fresh(Reset)
<1> DEFINE r == Read("HW_CFG")
           m == Modify("HW_CFG", {InitN}, {})
           n == Modify("HW_CFG", {}, {InitN})
<1>1. /\ r \in Accesses /\ m \in Accesses /\ n \in Accesses
  BY LookType, ModifyType DEF Addrs, Words, InitN
<1>2. /\ r.op = "read" /\ r.addr = "HW_CFG" /\ m.op = "modify" /\ m.addr = "HW_CFG"
      /\ n.op = "modify" /\ n.addr = "HW_CFG"
  BY DEF Read, Modify, Access
<1>3. Reset = <<r, m, n>>
  BY DEF Reset
<1> HIDE DEF r, m, n
<1> QED
  BY <1>1, <1>2, <1>3 DEF Fresh, Script, Chained, Own, OwnOne, Addrs

LEMMA SinglePlain ==
  \A x \in Accesses : PlainOne(x) => Plain(<<x>>)
BY DEF Plain

LEMMA LookPlain == \A a \in Addrs : Plain(<<Look(a)>>) /\ Look(a).op = "look"
BY SinglePlain, LookType DEF Look, Access, PlainOne

LEMMA WritePlain == \A a \in Addrs, w \in Words : Plain(<<Write(a, w)>>)
BY SinglePlain, WriteType DEF Write, Access, PlainOne

LEMMA ModemPlain ==
  /\ Plain(Modem)
  /\ LastWrite(Modem, "HW_CFG", Stage2)
  /\ LastWrite(Modem, "TRIM_1", Word(\h88C8, \hA3DF))
<1>1. /\ \A hi, lo : Word(hi, lo) \in Words
      /\ Stage0 \in Words /\ Stage1 \in Words /\ Stage2 \in Words /\ Ifs("PPC") \in Words
  BY WordType, StageType, IfsType
<1>2. \A a \in Addrs, w \in Words :
        /\ Write(a, w) \in Accesses /\ Write(a, w).op = "write" /\ Write(a, w).addr = a
        /\ Look(a) \in Accesses /\ Look(a).op = "look" /\ Look(a).addr = a
  BY WriteType, LookType DEF Write, Look, Access
<1> DEFINE used == {"TRIM_1", "HW_CFG", "IFS", "SUPERFRAME_CFG", "PPID", "PHY_CTRL",
                    "PLL_CTRL_SERDES", "DEVICE_ID", "MAC_TIMEOUT_CFG", "PHY_TIMEOUT_CFG",
                    "MAC_RETX_LIMIT", "RTL_VERSION"}
<1>3. used \subseteq Addrs
  BY ONLY DEF Addrs
<1>4. Modem \in Seq(Accesses) /\ Len(Modem) = 15
  <2>1. \A a \in used, w \in Words : Write(a, w) \in Accesses /\ Look(a) \in Accesses
    BY ONLY <1>2, <1>3
  <2> QED
    BY ONLY SMTT(30), <1>1, <2>1 DEF Modem
<1>5. \A i \in 1..15 : Modem[i].op \in {"write", "look"} /\ Modem[i].addr \in Addrs
  <2>1. \A a \in used, w \in Words :
          /\ Write(a, w).op \in {"write", "look"} /\ Write(a, w).addr \in Addrs
          /\ Look(a).op \in {"write", "look"} /\ Look(a).addr \in Addrs
    BY ONLY <1>2, <1>3
  <2> QED
    BY ONLY SMTT(30), <1>1, <2>1 DEF Modem
<1>6. /\ Modem[13] = Write("HW_CFG", Stage2)
      /\ \A j \in 14..15 : ~Writes(Modem[j], "HW_CFG")
  BY ONLY <1>1, <1>2 DEF Modem, Addrs, Writes
<1>7. /\ Modem[1] = Write("TRIM_1", Word(\h88C8, \hA3DF))
      /\ \A j \in 2..15 : ~Writes(Modem[j], "TRIM_1")
  BY ONLY SMTT(30), <1>1, <1>2 DEF Modem, Addrs, Writes
<1>8. DOMAIN Modem = 1..15
  BY ONLY <1>4
<1>9. LastWrite(Modem, "HW_CFG", Stage2)
  <2>1. 13 \in 1..15 /\ \A j \in 1..15 : j > 13 => j \in 14..15
    OBVIOUS
  <2> QED
    BY ONLY <1>6, <1>8, <2>1 DEF LastWrite
<1>10. LastWrite(Modem, "TRIM_1", Word(\h88C8, \hA3DF))
  <2>1. 1 \in 1..15 /\ \A j \in 1..15 : j > 1 => j \in 2..15
    OBVIOUS
  <2> QED
    BY ONLY <1>7, <1>8, <2>1 DEF LastWrite
<1>11. Plain(Modem)
  BY ONLY <1>4, <1>5, <1>8 DEF Plain, PlainOne
<1> QED
  BY <1>9, <1>10, <1>11

\* Accesses by which a routine writes and looks.
LEMMA AccessFacts ==
  /\ \A hi, lo : Word(hi, lo) \in Words
  /\ {} \in Words /\ {0} \in Words /\ {3} \in Words /\ AfcTrim1 \in Words /\ AfcOn \in Words
  /\ \A i : Trying(i) \in Words
  /\ \A a \in Addrs, w \in Words :
       /\ Write(a, w) \in Accesses /\ Write(a, w).op = "write" /\ Write(a, w).addr = a
       /\ Look(a) \in Accesses /\ Look(a).op = "look" /\ Look(a).addr = a
<1>1. \A hi, lo : Word(hi, lo) \in Words
  BY WordType
<1>2. {} \in Words /\ {0} \in Words /\ {3} \in Words
  BY DEF Words
<1>3. AfcTrim1 \in Words /\ AfcOn \in Words /\ \A i : Trying(i) \in Words
  BY <1>1 DEF AfcTrim1, AfcOn, Trying
<1>4. \A a \in Addrs, w \in Words :
        /\ Write(a, w) \in Accesses /\ Write(a, w).op = "write" /\ Write(a, w).addr = a
        /\ Look(a) \in Accesses /\ Look(a).op = "look" /\ Look(a).addr = a
  BY WriteType, LookType DEF Write, Look, Access
<1> QED
  BY <1>1, <1>2, <1>3, <1>4

LEMMA Trim3Plain == Plain(Trim3) /\ \A a \in Addrs \ {"TRIM_3"} : NoWrite(Trim3, a)
<1>1. Trim3 \in Seq(Accesses) /\ Len(Trim3) = 2
  BY AccessFacts DEF Trim3, Addrs
<1>2. \A i \in 1..2 : Trim3[i].op = "write" /\ Trim3[i].addr = "TRIM_3"
  BY AccessFacts DEF Trim3, Addrs
<1> QED
  BY <1>1, <1>2 DEF Plain, PlainOne, NoWrite, Writes, Addrs

\* A try reads the count last; it leaves all but two registers alone.
LEMMA TryFacts ==
  \A k \in Nat :
    /\ Try(k) \in Seq(Accesses) /\ Len(Try(k)) = 4
    /\ \A i \in 1..4 :
         /\ Try(k)[i].op \in {"write", "count"}
         /\ Try(k)[i].addr \in {"TRIM_2", "PLL_AFC"}
<1> SUFFICES ASSUME NEW k \in Nat
             PROVE  /\ Try(k) \in Seq(Accesses) /\ Len(Try(k)) = 4
                    /\ \A i \in 1..4 :
                         /\ Try(k)[i].op \in {"write", "count"}
                         /\ Try(k)[i].addr \in {"TRIM_2", "PLL_AFC"}
  OBVIOUS
<1> DEFINE c == Access("count", "PLL_AFC", {}, {}, k)
<1>1. c \in Accesses /\ c.op = "count" /\ c.addr = "PLL_AFC"
  BY DEF Access, Accesses, Words, Addrs
<1>2. Try(k) = <<Write("TRIM_2", Trying(k)), Write("PLL_AFC", {}), Write("PLL_AFC", AfcOn), c>>
  BY DEF Try
<1>3. "TRIM_2" \in Addrs /\ "PLL_AFC" \in Addrs
  BY DEF Addrs
<1> HIDE DEF c
<1> QED
  BY ONLY AccessFacts, <1>1, <1>2, <1>3

LEMMA ElementType ==
  ASSUME NEW S, NEW s \in Seq(S), NEW i \in 1..Len(s) PROVE s[i] \in S
OBVIOUS

LEMMA TriesPlain ==
  Plain(Tries) /\ \A a \in Addrs \ {"TRIM_2", "PLL_AFC"} : NoWrite(Tries, a)
<1>1. AfcN \in Nat /\ DOMAIN Tries = 1..(4 * AfcN)
  <2>1. AfcN \in Nat
    BY ONLY AfcAssumption
  <2> QED
    BY ONLY <2>1 DEF Tries
<1>2. ASSUME NEW k \in 1..(4 * AfcN)
      PROVE  /\ Tries[k] \in Accesses /\ Tries[k].op \in {"write", "count"}
             /\ Tries[k].addr \in {"TRIM_2", "PLL_AFC"}
  <2>1. (k - 1) \div 4 \in Nat /\ ((k - 1) % 4) + 1 \in 1..4
    BY <1>1, <1>2
  <2>2. Tries[k] = Try((k - 1) \div 4)[((k - 1) % 4) + 1]
    BY <1>1, <1>2 DEF Tries
  <2>3. \A s \in Seq(Accesses), i \in 1..4 : Len(s) = 4 => s[i] \in Accesses
    BY ONLY ElementType
  <2> QED
    BY ONLY <2>1, <2>2, <2>3, TryFacts
<1>3. Tries \in Seq(Accesses)
  <2>1. Tries = [k \in 1..(4 * AfcN) |-> Tries[k]] /\ 4 * AfcN \in Nat
    BY <1>1 DEF Tries
  <2>2. \A f, n : n \in Nat /\ (\A k \in 1..n : f[k] \in Accesses) => [k \in 1..n |-> f[k]] \in Seq(Accesses)
    OBVIOUS
  <2> QED
    BY ONLY <1>2, <2>1, <2>2
<1> QED
  BY <1>1, <1>2, <1>3 DEF Plain, PlainOne, NoWrite, Writes, Addrs

LEMMA RfSerdesPlain == Plain(RfSerdes)
<1> DEFINE p == Access("pll", "PLL", {}, {}, 0)
           zeroed == <<"TEST_PATTERN", "RF_RX_CONTROL_0", "RF_RX_CONTROL_1",
                       "RF_TX_CONTROL_0", "TRIM_1", "TRIM_2">>
           rest == <<Write("RF_CONTROL_1", Word(1, \hDFFF)),
                     Write("RF_CONTROL_0", Word(\hFE, \h011F)),
                     Write("RF_RX_CONTROL_0", Word(\hA, \hA666)),
                     Write("RF_RX_CONTROL_1", Word(3, \hFF59)),
                     Write("RF_TX_CONTROL_0", Word(0, \hEF)),
                     Write("TEST_PATTERN", {}), Look("TEST_PATTERN"),
                     Write("TRIM_1", {3}), Look("TRIM_1"),
                     Write("TEST_CONFIG", {0}), Look("TEST_CONFIG"),
                     Write("TRIM_1", AfcTrim1), Look("TRIM_1"),
                     Write("TRIM_4", Word(\hFF88, \h8888)),
                     Write("TRIM_2", Word(\h9224, \hF0F5))>>
<1>1. RfSerdes = ((<<p>> \o Zero(zeroed)) \o rest) \o Trim3
  BY DEF RfSerdes
<1>2. Plain(<<p>>)
  <2>1. p \in Accesses /\ p.op = "pll"
    BY DEF Access, Accesses, Words
  <2> QED
    BY <2>1, SinglePlain DEF PlainOne
<1>3. Plain(Zero(zeroed))
  <2>1. Len(zeroed) = 6 /\ \A i \in 1..6 : zeroed[i] \in Addrs
    BY DEF Addrs
  <2>2. Zero(zeroed) = [i \in 1..6 |-> Write(zeroed[i], {})]
    BY <2>1 DEF Zero
  <2>3. \A i \in 1..6 : Write(zeroed[i], {}) \in Accesses /\ PlainOne(Write(zeroed[i], {}))
    BY <2>1, AccessFacts DEF PlainOne
  <2> HIDE DEF zeroed
  <2>4. Zero(zeroed) \in Seq(Accesses) /\ DOMAIN Zero(zeroed) = 1..6
    BY <2>2, <2>3
  <2> QED
    BY <2>2, <2>3, <2>4 DEF Plain
<1>4. Plain(rest)
  <2>1. rest \in Seq(Accesses) /\ Len(rest) = 15
    BY ONLY AccessFacts DEF Addrs
  <2>2. \A i \in 1..15 : rest[i].op \in {"write", "look"} /\ rest[i].addr \in Addrs
    BY ONLY SMTT(30), AccessFacts DEF Addrs
  <2> HIDE DEF rest
  <2> QED
    BY <2>1, <2>2 DEF Plain, PlainOne
<1> HIDE DEF p, zeroed, rest
<1> QED
  BY <1>1, <1>2, <1>3, <1>4, Trim3Plain, PlainConcat

LEMMA AFC2Plain ==
  \A ref \in Nat :
    /\ Plain(AFC2(ref)) /\ AFC2(ref) # << >>
    /\ LastWrite(AFC2(ref), "TRIM_1", AfcTrim1)
    /\ NoWrite(AFC2(ref), "HW_CFG") /\ NoWrite(AFC2(ref), "IFS")
<1> SUFFICES ASSUME NEW ref \in Nat
             PROVE  /\ Plain(AFC2(ref)) /\ AFC2(ref) # << >>
                    /\ LastWrite(AFC2(ref), "TRIM_1", AfcTrim1)
                    /\ NoWrite(AFC2(ref), "HW_CFG") /\ NoWrite(AFC2(ref), "IFS")
  OBVIOUS
<1> DEFINE t == Access("tune", "TRIM_2", {}, {}, ref)
           first == <<Write("TRIM_1", Word(0, \h1F)), Write("TRIM_4", Word(0, \h88)),
                      Write("TRIM_2", Word(\h1221, \h809B))>>
           rest == <<Write("TEST_PATTERN", {}), Write("TRIM_1", {3}), Write("TEST_CONFIG", {0}),
                     Write("TRIM_1", AfcTrim1), Write("TRIM_4", Word(\hFF88, \h8888)),
                     t, Look("TRIM_2")>>
           spared == {"HW_CFG", "IFS"}
<1>1. AFC2(ref) = ((first \o Tries) \o rest) \o Trim3
  BY DEF AFC2, Tune
<1>2. Plain(first) /\ \A a \in spared : NoWrite(first, a)
  <2>1. first \in Seq(Accesses) /\ Len(first) = 3
    BY ONLY AccessFacts DEF Addrs
  <2>2. \A i \in 1..3 : first[i].op = "write" /\ first[i].addr \in {"TRIM_1", "TRIM_2", "TRIM_4"}
    BY ONLY AccessFacts DEF Addrs
  <2> HIDE DEF first
  <2> QED
    BY <2>1, <2>2 DEF Plain, PlainOne, NoWrite, Writes, Addrs
<1>3. t \in Accesses /\ t.op = "tune" /\ t.addr = "TRIM_2"
  BY DEF Access, Accesses, Words, Addrs
<1>4. rest \in Seq(Accesses) /\ Len(rest) = 7
  <2> HIDE DEF t
  <2> QED
    BY ONLY AccessFacts, <1>3 DEF Addrs
<1>5. \A i \in 1..7 : /\ rest[i].op \in {"write", "look", "tune"} /\ rest[i].addr \in Addrs
                      /\ rest[i].op = "write" => rest[i].addr \notin spared
  <2> HIDE DEF t
  <2> QED
    BY ONLY AccessFacts, <1>3 DEF Addrs
<1>6. rest[4] = Write("TRIM_1", AfcTrim1) /\ \A j \in 5..7 : ~Writes(rest[j], "TRIM_1")
  <2> HIDE DEF t
  <2> QED
    BY ONLY AccessFacts, <1>3 DEF Addrs, Writes
<1> HIDE DEF rest, first, t
<1>7. Plain(rest) /\ \A a \in spared : NoWrite(rest, a)
  BY <1>4, <1>5 DEF Plain, PlainOne, NoWrite, Writes
<1>8. LastWrite(rest, "TRIM_1", AfcTrim1)
  <2>1. DOMAIN rest = 1..7 /\ 4 \in 1..7 /\ \A j \in 1..7 : j > 4 => j \in 5..7
    BY <1>4
  <2> QED
    BY ONLY <1>6, <2>1 DEF LastWrite
<1>9. spared \subseteq Addrs /\ spared \subseteq Addrs \ {"TRIM_2", "PLL_AFC"}
      /\ spared \subseteq Addrs \ {"TRIM_3"} /\ "TRIM_1" \in Addrs \ {"TRIM_3"}
  BY DEF Addrs
<1>10. Plain(first \o Tries) /\ Plain((first \o Tries) \o rest) /\ Plain(AFC2(ref))
  BY <1>1, <1>2, <1>7, TriesPlain, Trim3Plain, PlainConcat
<1>11. /\ first \in Seq(Accesses) /\ Tries \in Seq(Accesses) /\ rest \in Seq(Accesses)
       /\ Trim3 \in Seq(Accesses)
       /\ first \o Tries \in Seq(Accesses) /\ (first \o Tries) \o rest \in Seq(Accesses)
  BY <1>2, <1>7, <1>10, TriesPlain, Trim3Plain DEF Plain
<1>12. ASSUME NEW a \in spared PROVE NoWrite(AFC2(ref), a)
  <2>1. NoWrite(first, a) /\ NoWrite(Tries, a) /\ NoWrite(rest, a) /\ NoWrite(Trim3, a)
    BY <1>2, <1>7, <1>9, TriesPlain, Trim3Plain
  <2>2. NoWrite(first \o Tries, a)
    BY ONLY <1>11, <2>1, LastConcat
  <2>3. NoWrite((first \o Tries) \o rest, a)
    BY ONLY <1>11, <2>1, <2>2, LastConcat
  <2> QED
    BY ONLY <1>1, <1>11, <2>1, <2>3, LastConcat
<1>13. LastWrite(AFC2(ref), "TRIM_1", AfcTrim1)
  <2>1. LastWrite((first \o Tries) \o rest, "TRIM_1", AfcTrim1)
    BY ONLY <1>8, <1>11, LastConcat
  <2>2. NoWrite(Trim3, "TRIM_1")
    BY <1>9, Trim3Plain
  <2> QED
    BY ONLY <1>1, <1>11, <2>1, <2>2, LastConcat
<1>14. AFC2(ref) # << >>
  BY <1>13 DEF LastWrite
<1> QED
  BY <1>10, <1>12, <1>13, <1>14

\* Zing_Init sets the registers; Zing_SetHRCP then sets the role.
Settings ==
  RfSerdes \o AFC2(BootRef) \o Modem \o <<Look("HW_CFG")>>

LEMMA BootSplit ==
  /\ Boot = Settings \o SetHRCP(Build) /\ Plain(Settings)
  /\ LastWrite(Settings, "HW_CFG", Stage2)
  /\ LastWrite(Settings, "TRIM_1", Word(\h88C8, \hA3DF))
<1>1. Boot = Settings \o SetHRCP(Build)
  BY DEF Boot, Settings
<1> DEFINE l == <<Look("HW_CFG")>>
           begun == RfSerdes \o AFC2(BootRef)
<1>2. "HW_CFG" \in Addrs /\ BootRef \in Nat
  BY DEF Addrs, BootRef
<1>3. Plain(l) /\ \A a : NoWrite(l, a)
  <2>1. Plain(l) /\ Look("HW_CFG").op = "look"
    BY <1>2, LookPlain
  <2>2. \A i \in DOMAIN l : l[i] = Look("HW_CFG")
    OBVIOUS
  <2> QED
    BY <2>1, <2>2 DEF NoWrite, Writes
<1>4. Plain(begun) /\ Plain(begun \o Modem) /\ Plain(Settings)
  BY <1>2, <1>3, RfSerdesPlain, AFC2Plain, ModemPlain, PlainConcat DEF Settings
<1> HIDE DEF l, begun
<1>5. /\ begun \in Seq(Accesses) /\ Modem \in Seq(Accesses) /\ l \in Seq(Accesses)
      /\ begun \o Modem \in Seq(Accesses)
  BY <1>3, <1>4, ModemPlain DEF Plain
<1>6. Settings = (begun \o Modem) \o l
  BY DEF Settings, begun, l
<1>7. LastWrite(begun \o Modem, "HW_CFG", Stage2)
  BY ONLY <1>5, ModemPlain, LastConcat
<1>8. LastWrite(begun \o Modem, "TRIM_1", Word(\h88C8, \hA3DF))
  BY ONLY <1>5, ModemPlain, LastConcat
<1>9. NoWrite(l, "HW_CFG") /\ NoWrite(l, "TRIM_1")
  BY <1>3
<1>10. LastWrite(Settings, "HW_CFG", Stage2)
  BY ONLY <1>5, <1>6, <1>7, <1>9, LastConcat
<1>11. LastWrite(Settings, "TRIM_1", Word(\h88C8, \hA3DF))
  <2> DEFINE rf == Word(\h88C8, \hA3DF)
  <2>1. LastWrite(begun \o Modem, "TRIM_1", rf)
    BY <1>8
  <2> HIDE DEF rf
  <2>2. LastWrite((begun \o Modem) \o l, "TRIM_1", rf)
    BY ONLY <1>5, <1>9, <2>1, LastConcat
  <2> QED
    BY <1>6, <2>2 DEF rf
<1> QED
  BY <1>1, <1>4, <1>10, <1>11

LEMMA BootFresh == Fresh(Boot)
BY BootSplit, SetHRCPFresh, PlainThenFresh

-----------------------------------------------------------------------------
(* The invariant under NoLostUpdate.  A read in progress is owed what the  *)
(* register still holds, and a value to be changed is still the            *)
(* register's: of the two threads one only looks, and UART and modem write *)
(* other registers.                                                        *)

Typed ==
  /\ regs \in [Addrs -> Vals]
  /\ owed \in [Clients -> Vals \cup {NoVal}]
  /\ disturbed \in BOOLEAN
  /\ phase \in {"boot", "hung", "connected"}
  /\ todo \in [Threads -> Seq(Accesses)]
  /\ kept \in [Threads -> Vals]

Looking(s) == \A i \in DOMAIN s : s[i].op = "look"
Alone == IF phase = "connected" THEN Looking(todo["app"]) ELSE todo["ep0"] = << >>

Scripts == \A c \in Threads : Script(todo[c])

Pending(c) == owed[c] # NoVal => \E op \in {"look", "read", "count"} : Doing(c, op)
Current(c) ==
  ~disturbed =>
    /\ owed[c] # NoVal /\ Doing(c, "read") => owed[c] = regs[Now(c).addr]
    /\ Doing(c, "modify") => kept[c] = regs[Now(c).addr]

UpdateInv ==
  /\ Typed /\ Alone /\ Scripts
  /\ \A c \in Threads : Pending(c) /\ Current(c)

\* What an access begins with.
LEMMA NowFacts ==
  ASSUME Typed, Scripts, NEW c \in Threads, todo[c] # << >>
  PROVE  /\ todo[c] \in Seq(Accesses) /\ Now(c) \in Accesses /\ OwnOne(Now(c))
         /\ Tail(todo[c]) \in Seq(Accesses) /\ Script(Tail(todo[c]))
         /\ Now(c).val \in Words /\ Now(c).clear \in Words
<1>1. todo[c] \in Seq(Accesses) /\ Script(todo[c])
  BY DEF Typed, Scripts
<1>2. 1 \in DOMAIN todo[c] /\ todo[c][1] \in Accesses /\ Tail(todo[c]) \in Seq(Accesses)
  BY <1>1
<1>3. OwnOne(Now(c))
  BY <1>1, <1>2 DEF Script, Own, Now
<1>4. Now(c).val \in Words /\ Now(c).clear \in Words
  BY <1>2 DEF Now, Accesses
<1> QED
  BY <1>1, <1>2, <1>3, <1>4, ScriptTail DEF Now

\* Taking the next access from a routine, or breaking it off.
LEMMA TodoNext ==
  ASSUME Typed, Scripts, Alone, NEW c \in Threads, todo[c] # << >>,
         NEW s, s = Tail(todo[c]) \/ s = << >>,
         todo' = [todo EXCEPT ![c] = s],
         phase' = phase \/ (phase = "boot" /\ phase' = "hung")
  PROVE  /\ todo' \in [Threads -> Seq(Accesses)] /\ Scripts' /\ Alone'
         /\ todo'[c] = s /\ \A d \in Threads \ {c} : todo'[d] = todo[d]
<1>1. s \in Seq(Accesses) /\ Script(s)
  <2>1. Tail(todo[c]) \in Seq(Accesses) /\ Script(Tail(todo[c]))
    BY NowFacts
  <2>2. << >> \in Seq(Accesses) /\ Script(<< >>)
    BY NoneFresh DEF Fresh
  <2> QED
    BY ONLY <2>1, <2>2, s = Tail(todo[c]) \/ s = << >>
<1>2. todo \in [Threads -> Seq(Accesses)]
  BY DEF Typed
<1>3. /\ todo' \in [Threads -> Seq(Accesses)] /\ todo'[c] = s
      /\ \A d \in Threads \ {c} : todo'[d] = todo[d]
  BY <1>1, <1>2
<1>4. Scripts'
  BY <1>1, <1>3 DEF Scripts
<1>5. Looking(todo[c]) => Looking(s)
  <2>1. todo[c] \in Seq(Accesses) /\ (s = << >> \/ \A i \in DOMAIN s : i + 1 \in DOMAIN todo[c] /\ s[i] = todo[c][i + 1])
    BY <1>2
  <2> QED
    BY <2>1 DEF Looking
<1>6. "app" \in Threads /\ "ep0" \in Threads /\ (c = "app" \/ c = "ep0")
  BY DEF Threads
<1>7. Alone'
  <2>1. CASE phase = "connected"
    <3>1. phase' = "connected" /\ Looking(todo["app"])
      BY <2>1 DEF Alone
    <3> QED
      BY <1>3, <1>5, <1>6, <3>1 DEF Alone
  <2>2. CASE phase # "connected"
    <3>1. phase' # "connected" /\ todo["ep0"] = << >> /\ c # "ep0"
      BY <2>2 DEF Alone
    <3> QED
      BY <1>3, <1>6, <3>1 DEF Alone
  <2> QED
    BY <2>1, <2>2
<1> QED
  BY <1>3, <1>4, <1>7

LEMMA OneLooks ==
  ASSUME Alone, NEW c \in Threads, NEW d \in Threads \ {c}
  PROVE  Looking(todo[c]) \/ Looking(todo[d])
<1>1. Looking(<< >>)
  BY DEF Looking
<1> QED
  BY <1>1 DEF Alone, Threads

\* A thread that only looks reads nothing it keeps.
LEMMA LookingNow ==
  ASSUME NEW c \in Threads, Typed, Looking(todo[c])
  PROVE  \A op : op # "look" => ~Doing(c, op)
<1>1. todo[c] \in Seq(Accesses)
  BY DEF Typed
<1>2. todo[c] # << >> => 1 \in DOMAIN todo[c]
  BY <1>1
<1> QED
  BY <1>2 DEF Looking, Doing

\* What an access leaves alone for the other thread.
LEMMA OtherCurrent ==
  ASSUME Typed, Scripts, NEW d \in Threads, Pending(d), Current(d),
         todo'[d] = todo[d], kept'[d] = kept[d], disturbed => disturbed',
         owed'[d] # NoVal => owed[d] # NoVal,
         ~disturbed' => owed'[d] = owed[d],
         ~disturbed' => \/ Looking(todo[d])
                        \/ regs'["HW_CFG"] = regs["HW_CFG"] /\ regs'["TRIM_1"] = regs["TRIM_1"]
  PROVE  Pending(d)' /\ Current(d)'
<1>1. \A op : Doing(d, op)' <=> Doing(d, op)
  BY DEF Doing
<1>2. Now(d)' = Now(d)
  BY DEF Now
<1>3. Pending(d)'
  BY <1>1 DEF Pending
<1>4. ASSUME ~disturbed', Doing(d, "read") \/ Doing(d, "modify")
      PROVE  regs'[Now(d).addr] = regs[Now(d).addr]
  <2>1. ~Looking(todo[d])
    BY <1>4, LookingNow
  <2>2. todo[d] # << >> /\ Now(d).op \in {"read", "modify"}
    BY <1>4 DEF Doing, Now
  <2>3. Now(d).addr \in {"HW_CFG", "TRIM_1"}
    BY <2>2, NowFacts DEF OwnOne
  <2> QED
    BY <1>4, <2>1, <2>3
<1>5. Current(d)'
  BY <1>1, <1>2, <1>4 DEF Current
<1> QED
  BY <1>3, <1>5

\* A thread's own next access.
LEMMA OwnCurrent ==
  ASSUME Typed, Scripts, NEW c \in Threads, todo[c] # << >>, todo'[c] = Tail(todo[c]),
         owed'[c] = NoVal,
         /\ ~disturbed' /\ Now(c).op \in {"read", "modify"} /\ Tail(todo[c]) # << >>
         => kept'[c] = regs'[Now(c).addr]
  PROVE  Pending(c)' /\ Current(c)'
<1>1. Pending(c)'
  BY DEF Pending
<1>2. ASSUME ~disturbed', Doing(c, "modify")' PROVE kept'[c] = regs'[Now(c)'.addr]
  <2>1. Tail(todo[c]) # << >> /\ Tail(todo[c])[1].op = "modify" /\ Now(c)' = Tail(todo[c])[1]
    BY <1>2 DEF Doing, Now
  <2>2. Now(c).op \in {"read", "modify"} /\ Now(c).addr = Tail(todo[c])[1].addr
    BY <2>1, ScriptNext DEF Scripts, Now
  <2> QED
    BY <1>2, <2>1, <2>2
<1> QED
  BY <1>1, <1>2 DEF Current


\* What DoWrite leaves behind.
LEMMA WriteEffect ==
  ASSUME Typed, NEW c, NEW a \in Addrs, NEW w \in Vals, DoWrite(c, a, w)
  PROVE  /\ regs' \in [Addrs -> Vals] /\ owed' = owed /\ disturbed' = disturbed
         /\ \A b \in Addrs \ {a} : regs'[b] = regs[b]
         /\ ~disturbed => regs'[a] = w
<1>1. CASE disturbed
  BY <1>1 DEF DoWrite, Typed
<1>2. CASE ~disturbed
  BY <1>2 DEF DoWrite, Typed, File!Write
<1> QED
  BY <1>1, <1>2

\* What follows an access that is done.
LEMMA DoneNext ==
  ASSUME Typed, Scripts, Alone, NEW c \in Threads, todo[c] # << >>, Done(c), phase' = phase
  PROVE  /\ todo' \in [Threads -> Seq(Accesses)] /\ Scripts' /\ Alone'
         /\ todo'[c] = Tail(todo[c]) /\ \A d \in Threads \ {c} : todo'[d] = todo[d]
         /\ Doing(c, "modify")' => Now(c).op \in {"read", "modify"} /\ Now(c)'.addr = Now(c).addr
         /\ Doing(c, "modify")' => ~Last(c)
<1>1. todo' = [todo EXCEPT ![c] = Tail(todo[c])]
  BY DEF Done
<1>2. /\ todo' \in [Threads -> Seq(Accesses)] /\ Scripts' /\ Alone'
      /\ todo'[c] = Tail(todo[c]) /\ \A d \in Threads \ {c} : todo'[d] = todo[d]
  BY <1>1, TodoNext
<1>3. Script(todo[c])
  BY DEF Scripts
<1>4. Doing(c, "modify")' => Now(c).op \in {"read", "modify"} /\ Now(c)'.addr = Now(c).addr
  BY <1>2, <1>3, ScriptNext DEF Doing, Now
<1>5. Doing(c, "modify")' => ~Last(c)
  <2>1. todo[c] \in Seq(Accesses)
    BY DEF Typed
  <2> QED
    BY <1>2, <2>1 DEF Doing, Last
<1> QED
  BY <1>2, <1>4, <1>5

\* A routine writes, changes or tunes a register.
LEMMA WriteStep ==
  ASSUME UpdateInv, NEW c \in Threads, todo[c] # << >>,
         Now(c).op \in {"write", "modify", "tune"},
         NEW a \in Addrs, NEW w \in Vals, DoWrite(c, a, w), Done(c), phase' = phase,
         NEW k \in Vals, kept' = [kept EXCEPT ![c] = k],
         Now(c).op = "modify" => a = Now(c).addr /\ (~Last(c) => k = w)
  PROVE  UpdateInv'
<1>1. Typed /\ Alone /\ Scripts /\ \A d \in Threads : Pending(d) /\ Current(d)
  BY DEF UpdateInv
<1>2. /\ regs' \in [Addrs -> Vals] /\ owed' = owed /\ disturbed' = disturbed
      /\ \A b \in Addrs \ {a} : regs'[b] = regs[b]
      /\ ~disturbed => regs'[a] = w
  BY <1>1, WriteEffect
<1>3. /\ todo' \in [Threads -> Seq(Accesses)] /\ Scripts' /\ Alone'
      /\ todo'[c] = Tail(todo[c]) /\ \A d \in Threads \ {c} : todo'[d] = todo[d]
      /\ Doing(c, "modify")' => Now(c).op \in {"read", "modify"} /\ Now(c)'.addr = Now(c).addr
      /\ Doing(c, "modify")' => ~Last(c)
  BY <1>1, DoneNext
<1>4. /\ kept' \in [Threads -> Vals] /\ kept'[c] = k
      /\ \A d \in Threads \ {c} : kept'[d] = kept[d]
  BY <1>1 DEF Typed
<1>5. Typed'
  BY <1>1, <1>2, <1>3, <1>4 DEF Typed
<1>6. owed[c] = NoVal
  <2>1. \A op \in {"look", "read", "count"} : ~Doing(c, op)
    BY DEF Doing, Now
  <2> QED
    BY <1>1, <2>1 DEF Pending
<1>7. Pending(c)' /\ Current(c)'
  <2>1. Pending(c)'
    BY <1>2, <1>6 DEF Pending
  <2>2. ASSUME ~disturbed', Doing(c, "modify")' PROVE kept'[c] = regs'[Now(c)'.addr]
    <3>1. Now(c).op = "modify" /\ Now(c)'.addr = Now(c).addr /\ ~Last(c)
      BY <1>3, <2>2
    <3> QED
      BY <1>2, <1>4, <2>2, <3>1
  <2> QED
    BY <1>2, <1>6, <2>1, <2>2 DEF Current
<1>8. ASSUME NEW d \in Threads \ {c} PROVE Pending(d)' /\ Current(d)'
  <2>1. ~Looking(todo[c])
    <3>1. Now(c).op # "look" /\ Doing(c, Now(c).op)
      BY DEF Doing, Now
    <3> QED
      BY <1>1, <3>1, LookingNow
  <2>2. Looking(todo[d])
    BY <1>1, <2>1, OneLooks
  <2> QED
    BY <1>1, <1>2, <1>3, <1>4, <2>2, OtherCurrent
<1> QED
  BY <1>3, <1>5, <1>7, <1>8 DEF UpdateInv

\* A routine does something else than accessing a register, or ends.
LEMMA QuietStep ==
  ASSUME UpdateInv, NEW c \in Threads, todo[c] # << >>, owed[c] = NoVal,
         UNCHANGED <<regs, owed, disturbed>>,
         NEW s, (s = Tail(todo[c]) /\ Now(c).op \in {"pll", "role"}) \/ s = << >>,
         todo' = [todo EXCEPT ![c] = s],
         phase' = phase \/ (phase = "boot" /\ phase' = "hung"),
         NEW k \in Vals, kept' = [kept EXCEPT ![c] = k]
  PROVE  UpdateInv'
<1>1. Typed /\ Alone /\ Scripts /\ \A d \in Threads : Pending(d) /\ Current(d)
  BY DEF UpdateInv
<1>2. /\ todo' \in [Threads -> Seq(Accesses)] /\ Scripts' /\ Alone'
      /\ todo'[c] = s /\ \A d \in Threads \ {c} : todo'[d] = todo[d]
  BY <1>1, TodoNext
<1>3. /\ kept' \in [Threads -> Vals]
      /\ \A d \in Threads \ {c} : kept'[d] = kept[d]
  BY <1>1 DEF Typed
<1>4. Typed'
  BY <1>1, <1>2, <1>3 DEF Typed
<1>5. ~Doing(c, "modify")'
  <2>1. Script(todo[c])
    BY <1>1 DEF Scripts
  <2> QED
    BY <1>2, <2>1, ScriptNext DEF Doing, Now
<1>6. Pending(c)' /\ Current(c)'
  BY <1>5 DEF Pending, Current
<1>7. ASSUME NEW d \in Threads \ {c} PROVE Pending(d)' /\ Current(d)'
  BY <1>1, <1>2, <1>3, OtherCurrent
<1> QED
  BY <1>2, <1>4, <1>6, <1>7 DEF UpdateInv

LEMMA BeginReadStep ==
  ASSUME UpdateInv, NEW c \in Threads, BeginRead(c)
  PROVE  UpdateInv'
<1>1. Typed /\ Alone /\ Scripts /\ \A d \in Threads : Pending(d) /\ Current(d)
  BY DEF UpdateInv
<1>2. /\ \E op \in {"look", "read", "count"} : Doing(c, op)
      /\ DoBeginRead(c, Now(c).addr) /\ owed[c] = NoVal
      /\ kept' = kept /\ todo' = todo /\ phase' = phase
  BY DEF BeginRead, stateVars
<1>3. todo[c] # << >> /\ Now(c).op \in {"look", "read", "count"}
  BY <1>2 DEF Doing, Now
<1>4. Now(c).addr \in Addrs /\ c \in Clients
  BY <1>1, <1>3, NowFacts DEF OwnOne, Clients
<1>5. (\A op : \A d \in Threads : Doing(d, op)' <=> Doing(d, op)) /\ (\A d \in Threads : Now(d)' = Now(d))
  BY <1>2 DEF Doing, Now
<1>6. Alone' /\ Scripts'
  BY <1>1, <1>2 DEF Alone, Scripts
<1>7. CASE Others(c) = {}
  <2>1. regs' = regs /\ disturbed' = disturbed /\ owed' = [owed EXCEPT ![c] = regs[Now(c).addr]]
    BY <1>2, <1>7 DEF DoBeginRead, File!BeginRead
  <2>2. Typed'
    BY <1>1, <1>2, <1>4, <2>1 DEF Typed
  <2>3. /\ owed'[c] = regs[Now(c).addr]
        /\ \A d \in Threads \ {c} : owed'[d] = owed[d]
    BY <1>1, <1>4, <2>1 DEF Typed, Clients
  <2>4. Pending(c)' /\ Current(c)'
    BY <1>2, <1>3, <1>5, <2>1, <2>3 DEF Pending, Current, Doing, Now
  <2>5. ASSUME NEW d \in Threads \ {c} PROVE Pending(d)' /\ Current(d)'
    BY <1>1, <1>2, <2>1, <2>3, OtherCurrent
  <2> QED
    BY <1>6, <2>2, <2>4, <2>5 DEF UpdateInv
<1>8. CASE Others(c) # {}
  <2>1. /\ regs' = AllUnknown /\ disturbed' = TRUE
        /\ owed' = [d \in Clients |-> IF d \in Others(c) \cup {c} THEN Unknown ELSE NoVal]
    BY <1>2, <1>8 DEF DoBeginRead, File!Disturb
  <2>2. Typed'
    BY <1>1, <1>2, <2>1 DEF Typed, AllUnknown, Vals
  <2>3. \A d \in Threads : Current(d)'
    BY <2>1 DEF Current
  <2>4. \A d \in Threads \ {c} : owed'[d] # NoVal => owed[d] # NoVal
    BY <2>1 DEF Others, Clients
  <2>5. Pending(c)'
    BY <1>2, <1>5 DEF Pending
  <2>6. \A d \in Threads \ {c} : Pending(d)'
    BY <1>1, <1>5, <2>4 DEF Pending
  <2> QED
    BY <1>6, <2>2, <2>3, <2>5, <2>6 DEF UpdateInv
<1> QED
  BY <1>7, <1>8

LEMMA EndReadStep ==
  ASSUME UpdateInv, NEW c \in Threads, EndRead(c)
  PROVE  UpdateInv'
<1>1. Typed /\ Alone /\ Scripts /\ \A d \in Threads : Pending(d) /\ Current(d)
  BY DEF UpdateInv
<1>2. /\ owed[c] # NoVal /\ Done(c) /\ phase' = phase
      /\ owed' = [owed EXCEPT ![c] = NoVal] /\ regs' = regs /\ disturbed' = disturbed
      /\ kept' = [kept EXCEPT ![c] = IF Doing(c, "read") THEN owed[c] ELSE kept[c]]
  BY DEF EndRead, File!EndRead, stateVars
<1>3. /\ \E op \in {"look", "read", "count"} : Doing(c, op)
      /\ c \in Clients /\ owed[c] \in Vals
  BY <1>1, <1>2 DEF Pending, Typed, Clients
<1>4. todo[c] # << >> /\ Now(c).op \in {"look", "read", "count"}
  BY <1>3 DEF Doing, Now
<1>5. /\ todo' \in [Threads -> Seq(Accesses)] /\ Scripts' /\ Alone'
      /\ todo'[c] = Tail(todo[c]) /\ \A d \in Threads \ {c} : todo'[d] = todo[d]
      /\ Doing(c, "modify")' => Now(c).op \in {"read", "modify"} /\ Now(c)'.addr = Now(c).addr
  BY <1>1, <1>2, <1>4, DoneNext
<1>6. /\ kept' \in [Threads -> Vals]
      /\ kept'[c] = IF Doing(c, "read") THEN owed[c] ELSE kept[c]
      /\ \A d \in Threads \ {c} : kept'[d] = kept[d]
  BY <1>1, <1>2, <1>3 DEF Typed
<1>7. /\ owed' \in [Clients -> Vals \cup {NoVal}] /\ owed'[c] = NoVal
      /\ \A d \in Threads \ {c} : owed'[d] = owed[d]
  BY <1>1, <1>2, <1>3 DEF Typed, Clients
<1>8. Typed'
  BY <1>1, <1>2, <1>5, <1>6, <1>7 DEF Typed
<1>9. Pending(c)' /\ Current(c)'
  <2>1. ASSUME ~disturbed', Doing(c, "modify")' PROVE kept'[c] = regs'[Now(c)'.addr]
    <3>1. Doing(c, "read") /\ Now(c)'.addr = Now(c).addr
      BY <1>4, <1>5, <2>1 DEF Doing, Now
    <3>2. owed[c] = regs[Now(c).addr]
      BY <1>1, <1>2, <2>1, <3>1 DEF Current
    <3> QED
      BY <1>2, <1>6, <3>1, <3>2
  <2> QED
    BY <1>7, <2>1 DEF Pending, Current
<1>10. ASSUME NEW d \in Threads \ {c} PROVE Pending(d)' /\ Current(d)'
  BY <1>1, <1>2, <1>5, <1>6, <1>7, OtherCurrent
<1> QED
  BY <1>5, <1>8, <1>9, <1>10 DEF UpdateInv

LEMMA RoutineStep ==
  ASSUME UpdateInv, NEW c \in Threads, Routine(c)
  PROVE  UpdateInv'
<1>1. Typed /\ Alone /\ Scripts /\ \A d \in Threads : Pending(d) /\ Current(d)
  BY DEF UpdateInv
<1>2. /\ kept \in [Threads -> Vals] /\ kept[c] \in Vals /\ Unknown \in Vals
      /\ kept = [kept EXCEPT ![c] = kept[c]]
  BY <1>1 DEF Typed, Vals
<1>3. ASSUME \E op \in {"pll", "role"} : Doing(c, op) PROVE owed[c] = NoVal
  <2>1. \A op \in {"look", "read", "count"} : ~Doing(c, op)
    BY <1>3 DEF Doing
  <2> QED
    BY <1>1, <2>1 DEF Pending
<1>4. CASE PllSetup(c)
  <2>1. /\ todo[c] # << >> /\ Now(c).op = "pll" /\ phase' = phase
        /\ UNCHANGED <<regs, owed, disturbed>> /\ kept' = [kept EXCEPT ![c] = kept[c]]
        /\ todo' = [todo EXCEPT ![c] = Tail(todo[c])] /\ owed[c] = NoVal
    BY <1>2, <1>3, <1>4 DEF PllSetup, Doing, Now, Done, accessVars, stateVars
  <2> QED
    BY <1>2, <2>1, QuietStep
<1>5. CASE PutWord(c)
  <2>1. /\ todo[c] # << >> /\ Now(c).op = "write" /\ phase' = phase
        /\ DoWrite(c, Now(c).addr, Now(c).val) /\ Done(c)
        /\ kept' = [kept EXCEPT ![c] = kept[c]]
    BY <1>2, <1>5 DEF PutWord, Doing, Now, stateVars
  <2>2. Now(c).addr \in Addrs /\ Now(c).val \in Vals
    BY <1>1, <2>1, NowFacts DEF OwnOne, Vals
  <2> QED
    BY <1>2, <2>1, <2>2, WriteStep
<1>6. CASE BeginRead(c)
  BY <1>6, BeginReadStep
<1>7. CASE EndRead(c)
  BY <1>7, EndReadStep
<1>8. CASE PutChanged(c)
  <2> DEFINE w == Changed(kept[c], Now(c))
             k == IF Last(c) THEN Unknown ELSE w
  <2>1. /\ todo[c] # << >> /\ Now(c).op = "modify" /\ phase' = phase
        /\ DoWrite(c, Now(c).addr, w) /\ Done(c)
        /\ kept' = [kept EXCEPT ![c] = k]
    BY <1>8 DEF PutChanged, Doing, Now, stateVars
  <2>2. Now(c).addr \in Addrs /\ Now(c).val \in Words
    BY <1>1, <2>1, NowFacts DEF OwnOne
  <2>3. w \in Vals /\ k \in Vals /\ (~Last(c) => k = w)
    BY <1>2, <2>2 DEF Changed, Vals, Words
  <2> HIDE DEF w, k
  <2> QED
    BY <2>1, <2>2, <2>3, WriteStep
<1>9. CASE PutTuned(c)
  <2> DEFINE w == Tuned(Select(counts, Now(c).n))
  <2>1. /\ todo[c] # << >> /\ Now(c).op = "tune" /\ phase' = phase
        /\ DoWrite(c, "TRIM_2", w) /\ Done(c)
        /\ kept' = [kept EXCEPT ![c] = kept[c]]
    BY <1>2, <1>9 DEF PutTuned, Doing, Now, stateVars
  <2>2. "TRIM_2" \in Addrs /\ w \in Vals
    BY TunedType DEF Addrs, Vals
  <2> HIDE DEF w
  <2> QED
    BY <1>2, <2>1, <2>2, WriteStep
<1>10. CASE AssignRole(c)
  <2>1. /\ todo[c] # << >> /\ Now(c).op = "role" /\ phase' = phase
        /\ UNCHANGED <<regs, owed, disturbed>> /\ kept' = [kept EXCEPT ![c] = Unknown]
        /\ todo' = [todo EXCEPT ![c] = Tail(todo[c])] /\ owed[c] = NoVal
    BY <1>3, <1>10 DEF AssignRole, Doing, Now, Done
  <2> QED
    BY <1>2, <2>1, QuietStep
<1>11. CASE Fail(c)
  <2>1. /\ todo[c] # << >> /\ owed[c] = NoVal
        /\ phase' = phase \/ (phase = "boot" /\ phase' = "hung")
        /\ UNCHANGED <<regs, owed, disturbed>> /\ kept' = [kept EXCEPT ![c] = Unknown]
        /\ todo' = [todo EXCEPT ![c] = << >>]
    BY <1>11 DEF Fail
  <2> QED
    BY <1>2, <2>1, QuietStep
<1> QED
  BY <1>4, <1>5, <1>6, <1>7, <1>8, <1>9, <1>10, <1>11 DEF Routine

-----------------------------------------------------------------------------
\* A routine begins in a thread that has none.
LEMMA StartStep ==
  ASSUME UpdateInv, NEW c \in Threads, todo[c] = << >>, phase = "connected",
         NEW s, Fresh(s), c = "app" => Looking(s),
         UNCHANGED <<regs, owed, disturbed, kept, phase>>,
         todo' = [todo EXCEPT ![c] = s]
  PROVE  UpdateInv'
<1>1. Typed /\ Alone /\ Scripts /\ \A d \in Threads : Pending(d) /\ Current(d)
  BY DEF UpdateInv
<1>2. /\ s \in Seq(Accesses) /\ Script(s) /\ (s # << >> => s[1].op # "modify")
      /\ todo \in [Threads -> Seq(Accesses)]
  BY <1>1 DEF Fresh, Script, Typed
<1>3. /\ todo' \in [Threads -> Seq(Accesses)] /\ todo'[c] = s
      /\ \A d \in Threads \ {c} : todo'[d] = todo[d]
  BY <1>2
<1>4. Typed' /\ Scripts'
  BY <1>1, <1>2, <1>3 DEF Typed, Scripts
<1>5. Alone'
  <2>1. phase' = "connected" /\ Looking(todo["app"]) /\ (c = "app" \/ c = "ep0")
    BY <1>1 DEF Alone, Threads
  <2>2. "app" \in Threads
    BY DEF Threads
  <2> QED
    BY <1>3, <2>1, <2>2 DEF Alone
<1>6. owed[c] = NoVal
  BY <1>1 DEF Pending, Doing
<1>7. ~Doing(c, "modify")' /\ Pending(c)' /\ Current(c)'
  BY <1>2, <1>3, <1>6 DEF Pending, Current, Doing
<1>8. ASSUME NEW d \in Threads \ {c} PROVE Pending(d)' /\ Current(d)'
  BY <1>1, <1>3, OtherCurrent
<1> QED
  BY <1>4, <1>5, <1>7, <1>8 DEF UpdateInv

\* UART and modem write registers no routine changes.
LEMMA OutsideStep ==
  ASSUME UpdateInv, UNCHANGED <<todo, kept, phase>>,
         \/ \E c : \E w \in Vals, a \in Addrs \ {"HW_CFG", "TRIM_1"} : DoWrite(c, a, w)
         \/ Disturb
  PROVE  UpdateInv'
<1>1. Typed /\ Alone /\ Scripts /\ \A d \in Threads : Pending(d) /\ Current(d)
  BY DEF UpdateInv
<1>2. Alone' /\ Scripts'
  BY <1>1 DEF Alone, Scripts
<1>3. ASSUME NEW c, NEW w \in Vals, NEW a \in Addrs \ {"HW_CFG", "TRIM_1"}, DoWrite(c, a, w)
      PROVE  UpdateInv'
  <2>1. /\ regs' \in [Addrs -> Vals] /\ owed' = owed /\ disturbed' = disturbed
        /\ \A b \in Addrs \ {a} : regs'[b] = regs[b]
    BY <1>1, <1>3, WriteEffect
  <2>2. regs'["HW_CFG"] = regs["HW_CFG"] /\ regs'["TRIM_1"] = regs["TRIM_1"]
    BY <2>1 DEF Addrs
  <2>3. Typed'
    BY <1>1, <2>1 DEF Typed
  <2>4. \A d \in Threads : Pending(d)' /\ Current(d)'
    BY <1>1, <2>1, <2>2, OtherCurrent
  <2> QED
    BY <1>2, <2>3, <2>4 DEF UpdateInv
<1>4. CASE Disturb
  <2>1. /\ regs' = AllUnknown /\ disturbed' = TRUE
        /\ owed' = [d \in Clients |-> IF owed[d] = NoVal THEN NoVal ELSE Unknown]
    BY <1>4 DEF Disturb, File!Disturb
  <2>2. Typed'
    BY <1>1, <2>1 DEF Typed, AllUnknown, Vals
  <2>3. \A d \in Threads : owed'[d] # NoVal => owed[d] # NoVal
    BY <2>1 DEF Clients
  <2>4. \A d \in Threads : Pending(d)' /\ Current(d)'
    BY <1>1, <2>1, <2>3 DEF Pending, Current, Doing
  <2> QED
    BY <1>2, <2>2, <2>4 DEF UpdateInv
<1> QED
  BY <1>3, <1>4

LEMMA UpdateInit == Init => UpdateInv
<1> SUFFICES ASSUME Init PROVE UpdateInv
  OBVIOUS
<1>1. Script(Boot) /\ Boot \in Seq(Accesses) /\ (Boot # << >> => Boot[1].op # "modify")
  BY BootFresh DEF Fresh, Script
<1>2. /\ "app" \in Threads /\ "ep0" \in Threads /\ Unknown \in Vals
      /\ << >> \in Seq(Accesses) /\ Script(<< >>)
  BY NoneFresh DEF Threads, Vals, Fresh
<1>3. /\ todo["ep0"] = << >> /\ todo \in [Threads -> Seq(Accesses)]
      /\ \A c \in Threads : Script(todo[c]) /\ (todo[c] = Boot \/ todo[c] = << >>)
  BY <1>1, <1>2 DEF Init, BootTodo
<1>4. Typed
  BY <1>2, <1>3 DEF Init, Typed, AllUnknown, NobodyReads, NothingKept
<1>5. Alone /\ Scripts
  BY <1>3 DEF Init, Alone, Scripts
<1>6. ASSUME NEW c \in Threads PROVE Pending(c) /\ Current(c)
  <2>1. owed[c] = NoVal
    BY DEF Init, NobodyReads, Clients
  <2>2. ~Doing(c, "modify")
    BY <1>1, <1>3 DEF Doing
  <2> QED
    BY <2>1, <2>2 DEF Pending, Current
<1> QED
  BY <1>4, <1>5, <1>6 DEF UpdateInv

LEMMA UpdateNext == UpdateInv /\ [Next]_vars => UpdateInv'
<1> SUFFICES ASSUME UpdateInv, [Next]_vars PROVE UpdateInv'
  OBVIOUS
<1>1. Typed /\ Alone /\ Scripts /\ \A d \in Threads : Pending(d) /\ Current(d)
  BY DEF UpdateInv
<1>2. "app" \in Threads /\ "ep0" \in Threads
  BY DEF Threads
<1>3. ASSUME NEW c \in Threads, Routine(c) PROVE UpdateInv'
  BY <1>3, RoutineStep
<1>4. ASSUME UNCHANGED <<regs, owed, disturbed, kept, todo>>,
             Alone'
      PROVE  UpdateInv' \/ ~Typed'
  BY <1>1, <1>4 DEF UpdateInv, Scripts, Pending, Current, Doing, Now
<1>5. CASE Connect
  <2>1. /\ UNCHANGED <<regs, owed, disturbed, kept, todo>> /\ phase = "boot"
        /\ phase' = "connected" /\ todo["app"] = << >>
    BY <1>5 DEF Connect, accessVars
  <2>2. Alone' /\ Typed'
    BY <1>1, <2>1 DEF Alone, Looking, Typed
  <2> QED
    BY <1>4, <2>1, <2>2
<1>6. ASSUME NEW a \in Polled, Poll(a) PROVE UpdateInv'
  <2> DEFINE s == <<Look(a)>>
  <2>1. a \in Addrs /\ Look(a).op = "look"
    BY RequestAssumption DEF Addrs, PolledRegs, Look, Access
  <2>2. Fresh(s) /\ Looking(s)
    <3>1. Fresh(s)
      BY <2>1, LookPlain, PlainFresh
    <3>2. \A i \in DOMAIN s : s[i] = Look(a)
      OBVIOUS
    <3> QED
      BY <2>1, <3>1, <3>2 DEF Looking
  <2>3. /\ UNCHANGED <<regs, owed, disturbed, kept, phase>> /\ phase = "connected"
        /\ todo["app"] = << >> /\ todo' = [todo EXCEPT !["app"] = s]
    BY <1>6 DEF Poll, accessVars, stateVars
  <2> HIDE DEF s
  <2> QED
    BY <1>2, <2>2, <2>3, StartStep
<1>7. ASSUME NEW s, NEW about, Fresh(s), Command(s, about) PROVE UpdateInv'
  <2>1. /\ UNCHANGED <<regs, owed, disturbed, kept, phase>> /\ phase = "connected"
        /\ todo["ep0"] = << >> /\ todo' = [todo EXCEPT !["ep0"] = s]
    BY <1>7 DEF Command, accessVars, stateVars
  <2> QED
    BY <1>2, <1>7, <2>1, StartStep
<1>8. CASE HostCommand
  <2>1. ASSUME NEW role, ModeHrcp(role) PROVE UpdateInv'
    BY <1>7, <2>1, SetHRCPFresh DEF ModeHrcp
  <2>2. ASSUME NEW p, ModePath(p) PROVE UpdateInv'
    BY <1>7, <2>2, SetPathFresh DEF ModePath
  <2>3. CASE ZingRst
    BY <1>7, <2>3, ResetFresh DEF ZingRst
  <2>4. ASSUME NEW ref \in RefCounts, Afc(ref) PROVE UpdateInv'
    <3>1. ref \in Nat
      BY RefCountAssumption
    <3>2. Plain(AFC2(ref))
      BY <3>1, AFC2Plain
    <3>3. Fresh(AFC2(ref))
      BY <3>2, PlainFresh
    <3> QED
      BY <1>7, <2>4, <3>3 DEF Afc
  <2>5. ASSUME NEW p \in Pokes, RegW(p) PROVE UpdateInv'
    <3>1. p.addr \in Addrs /\ p.val \in Words
      BY RequestAssumption
    <3>2. Fresh(<<Write(p.addr, p.val)>>)
      BY <3>1, WritePlain, PlainFresh
    <3> QED
      BY <1>7, <2>5, <3>2 DEF RegW
  <2>6. CASE RegR("HW_CFG")
    <3>1. Fresh(<<Look("HW_CFG")>>)
      BY LookPlain, PlainFresh DEF Addrs
    <3> QED
      BY <1>7, <2>6, <3>1 DEF RegR
  <2> QED
    BY <1>8, <2>1, <2>2, <2>3, <2>4, <2>5, <2>6 DEF HostCommand
<1>9. ASSUME NEW p \in UartWrites, UartWrite(p) PROVE UpdateInv'
  <2>1. p \in UartRequests
    BY RequestAssumption
  <2>2. p.addr \in {"RF_CONTROL_0", "PPID"} /\ p.val \in Vals
    BY <2>1, WordType DEF UartRequests, BandWords, Vals, Words
  <2>3. p.addr \in Addrs \ {"HW_CFG", "TRIM_1"}
    BY <2>2 DEF Addrs
  <2>4. UNCHANGED <<todo, kept, phase>> /\ (DoWrite("uart", p.addr, p.val) \/ Disturb)
    BY <1>9 DEF UartWrite, stateVars
  <2> QED
    BY <2>2, <2>3, <2>4, OutsideStep
<1>10. ASSUME NEW n \in Counts, Measure(n) PROVE UpdateInv'
  <2>1. /\ UNCHANGED <<todo, kept, phase>>
        /\ regs["PLL_AFC"] = AfcOn /\ File!Write("modem", "PLL_AFC", Measured(n))
    BY <1>10 DEF Measure, stateVars
  <2>2. Measured(n) \in Vals /\ "PLL_AFC" \in Addrs \ {"HW_CFG", "TRIM_1"}
    BY WordType DEF Measured, Vals, Addrs
  <2>3. CASE ~disturbed
    <3>1. DoWrite("modem", "PLL_AFC", Measured(n))
      BY <2>1, <2>3 DEF DoWrite
    <3> QED
      BY <2>1, <2>2, <3>1, OutsideStep
  <2>4. CASE disturbed
    <3>1. /\ disturbed' /\ owed' = owed /\ regs' \in [Addrs -> Vals]
      BY <1>1, <2>1, <2>2, <2>4 DEF File!Write, Typed
    <3>2. Typed' /\ Alone' /\ Scripts'
      BY <1>1, <2>1, <3>1 DEF Typed, Alone, Scripts
    <3>3. \A d \in Threads : Pending(d)' /\ Current(d)'
      BY <1>1, <2>1, <3>1 DEF Pending, Current, Doing
    <3> QED
      BY <3>2, <3>3 DEF UpdateInv
  <2> QED
    BY <2>3, <2>4
<1>11. CASE Reboot
  <2>1. Init'
    BY <1>11 DEF Reboot, Init
  <2> QED
    BY <2>1, UpdateInit, PTL
<1>12. CASE UNCHANGED vars
  <2>1. UNCHANGED <<regs, owed, disturbed, kept, todo, phase>>
    BY <1>12 DEF vars, accessVars, stateVars
  <2> QED
    BY <1>1, <2>1 DEF UpdateInv, Typed, Alone, Scripts, Pending, Current, Doing, Now
<1> QED
  BY <1>3, <1>5, <1>6, <1>8, <1>9, <1>10, <1>11, <1>12 DEF Next

\* Zing_SetHRCP, Zing_SetPath and Zing_Reset write back what the register
\* holds, apart from the bits they change, whatever the other thread, the
\* UART and the modem do between their read and their writes.
THEOREM UpdateKept == Spec => []NoLostUpdate
<1>1. Init => UpdateInv
  BY UpdateInit
<1>2. UpdateInv /\ [Next]_vars => UpdateInv'
  BY UpdateNext
<1>3. UpdateInv => NoLostUpdate
  BY DEF UpdateInv, Current, NoLostUpdate
<1> QED
  BY <1>1, <1>2, <1>3, PTL DEF Spec

-----------------------------------------------------------------------------
(* What the host may rely on.  Each predicate speaks of a register as long *)
(* as the host has not written it itself.                                  *)

Watched == {"HW_CFG", "IFS", "TRIM_1"}
Ok(a) == ~disturbed /\ a \notin poked

CfgOk == Ok("HW_CFG") =>
  regs["HW_CFG"] \ {PpcMode, InitN} = Stage2 \ {PpcMode, InitN}
InitOk == Ok("HW_CFG") => InitN \in regs["HW_CFG"]
BitIs(r) == Ok("HW_CFG") => (PpcMode \in regs["HW_CFG"] <=> r = "PPC")
IfsIs(r) == Ok("IFS") => regs["IFS"] = Ifs(r)
PathIs == Ok("TRIM_1") => regs["TRIM_1"] \cap PathBits = {PathBit(path)}
TrimKnown == Ok("TRIM_1") => regs["TRIM_1"] # Unknown

\* What remains of Zing_SetHRCP, and what it has already done.
RolePart(s, r) ==
  \/ s = <<Read("HW_CFG"), Modify("HW_CFG", {PpcMode}, RoleBits(r)),
           Write("IFS", Ifs(r)), SetRole(r)>>
  \/ s = <<Modify("HW_CFG", {PpcMode}, RoleBits(r)), Write("IFS", Ifs(r)), SetRole(r)>>
  \/ s = <<Write("IFS", Ifs(r)), SetRole(r)>> /\ BitIs(r)
  \/ s = <<SetRole(r)>> /\ BitIs(r) /\ IfsIs(r)

\* A routine will still write the register whole, or it is as it will be.
CfgWay(s) == LastWrite(s, "HW_CFG", Stage2) \/ (NoWrite(s, "HW_CFG") /\ CfgOk /\ InitOk)
TrimWay(s, w) == LastWrite(s, "TRIM_1", w) \/ (NoWrite(s, "TRIM_1") /\ PathIs)

RfTrim1 == Word(\h88C8, \hA3DF)

Initialising ==
  \E q \in Seq(Accesses) :
    /\ Plain(q) /\ q # << >> /\ todo["app"] = q \o SetHRCP(Build)
    /\ CfgWay(q) /\ TrimWay(q, RfTrim1)
Initialised ==
  /\ CfgOk /\ InitOk /\ PathIs
  /\ \/ RolePart(todo["app"], Build)
     \/ todo["app"] = << >> /\ BitIs(Build) /\ IfsIs(Build) /\ zing_hrcp = Build
BootPart ==
  phase = "boot" =>
    /\ poked = {} /\ settles = {} /\ unsettled = {} /\ path = "RF"
    /\ Initialising \/ Initialised

\* What remains of the host's command.
AccessLeft ==
  \/ todo["ep0"] = << >>
  \/ \E a \in Addrs : todo["ep0"] = <<Look(a)>>
  \/ \E a \in poked, w \in Words : todo["ep0"] = <<Write(a, w)>>
PathLeft ==
  \/ todo["ep0"] = <<Read("TRIM_1"), Modify("TRIM_1", PathBits, {PathBit(path)})>>
  \/ todo["ep0"] = <<Modify("TRIM_1", PathBits, {PathBit(path)})>>
ResetLeft ==
  \/ todo["ep0"] = <<Read("HW_CFG"), Modify("HW_CFG", {InitN}, {}), Modify("HW_CFG", {}, {InitN})>>
  \/ todo["ep0"] = <<Modify("HW_CFG", {InitN}, {}), Modify("HW_CFG", {}, {InitN})>>
  \/ todo["ep0"] = <<Modify("HW_CFG", {}, {InitN})>>
AfcLeft ==
  /\ path = "SERDES" /\ Plain(todo["ep0"]) /\ todo["ep0"] # << >>
  /\ NoWrite(todo["ep0"], "HW_CFG") /\ NoWrite(todo["ep0"], "IFS")
  /\ TrimWay(todo["ep0"], AfcTrim1)
Commanded ==
  \/ settles = {} /\ AccessLeft
  \/ settles = {"role"} /\ \E r \in {"PPC", "DEV"} : RolePart(todo["ep0"], r)
  \/ settles = {"path"} /\ PathLeft
  \/ settles = {"reset"} /\ ResetLeft
  \/ settles = {"afc", "path"} /\ AfcLeft

Trusted ==
  /\ CfgOk /\ TrimKnown
  /\ "reset" \notin unsettled => InitOk
  /\ "role" \notin unsettled => BitIs(zing_hrcp) /\ IfsIs(zing_hrcp)
  /\ "path" \notin unsettled => PathIs
HostPart == phase = "connected" => settles \subseteq unsettled /\ Trusted /\ Commanded

ModeInv == UpdateInv /\ BootPart /\ HostPart

\* A step leaves register a as it is, as far as anyone may rely on it.
Frame(a) == Ok(a)' => Ok(a) /\ regs'[a] = regs[a]

LEMMA FrameKeeps ==
  /\ Frame("HW_CFG") => /\ CfgOk => CfgOk'
                        /\ InitOk => InitOk'
                        /\ \A r : BitIs(r) => BitIs(r)'
  /\ Frame("IFS") => \A r : IfsIs(r) => IfsIs(r)'
  /\ Frame("TRIM_1") => /\ TrimKnown => TrimKnown'
                        /\ path' = path => (PathIs => PathIs')
BY DEF Frame, CfgOk, InitOk, BitIs, IfsIs, TrimKnown, PathIs

\* The end of an access, and what it has done to the watched registers.
Took(c) ==
  /\ todo[c] # << >> /\ Done(c) /\ UNCHANGED <<phase, path, poked, sought, disturbed>>
  /\ \A a \in Watched :
       /\ ~Writes(Now(c), a) /\ ~Changes(Now(c), a) => Frame(a)
       /\ Writes(Now(c), a) => (Ok(a)' => regs'[a] = Now(c).val)
       /\ Changes(Now(c), a) => (Ok(a)' => Ok(a) /\ regs'[a] = Changed(regs[a], Now(c)))
  /\ Now(c).op # "role" => zing_hrcp' = zing_hrcp
  /\ Now(c).op = "role" =>
       zing_hrcp' = IF Now(c).val = RoleBits("PPC") THEN "PPC" ELSE "DEV"

LEMMA Takes ==
  ASSUME UpdateInv, NEW c \in Threads, Routine(c)
  PROVE  Fail(c) \/ BeginRead(c) \/ Took(c)
<1>1. Typed /\ Alone /\ Scripts /\ \A d \in Threads : Pending(d) /\ Current(d)
  BY DEF UpdateInv
<1>2. Watched \subseteq Addrs /\ "TRIM_2" \in Addrs /\ "TRIM_2" \notin Watched
  BY DEF Watched, Addrs
<1>3. ASSUME Now(c).op \notin {"write", "modify", "role"}, todo[c] # << >>, Done(c),
             UNCHANGED <<phase, path, poked, sought, disturbed, zing_hrcp>>,
             \A a \in Watched : ~disturbed => regs'[a] = regs[a]
      PROVE  Took(c)
  BY <1>3 DEF Took, Frame, Ok, Writes, Changes
<1>4. CASE PllSetup(c)
  BY <1>3, <1>4 DEF PllSetup, Doing, Now, accessVars, stateVars, ghostVars
<1>5. CASE EndRead(c)
  <2>1. todo[c] # << >> /\ Now(c).op \in {"look", "read", "count"}
    BY <1>1, <1>5 DEF EndRead, Pending, Doing, Now
  <2>2. Done(c) /\ UNCHANGED <<phase, path, poked, sought, disturbed, zing_hrcp, regs>>
    BY <1>5 DEF EndRead, File!EndRead, stateVars, ghostVars
  <2> QED
    BY <1>3, <2>1, <2>2
<1>6. CASE PutTuned(c)
  <2> DEFINE w == Tuned(Select(counts, Now(c).n))
  <2>1. /\ todo[c] # << >> /\ Now(c).op = "tune" /\ DoWrite(c, "TRIM_2", w) /\ Done(c)
        /\ UNCHANGED <<phase, path, poked, sought, zing_hrcp>>
    BY <1>6 DEF PutTuned, Doing, Now, stateVars, ghostVars
  <2>2. w \in Vals
    BY TunedType DEF Vals
  <2> HIDE DEF w
  <2>3. disturbed' = disturbed /\ \A a \in Addrs \ {"TRIM_2"} : regs'[a] = regs[a]
    BY <1>1, <1>2, <2>1, <2>2, WriteEffect
  <2> QED
    BY <1>2, <1>3, <2>1, <2>3
<1>7. CASE PutWord(c)
  <2>1. /\ todo[c] # << >> /\ Now(c).op = "write" /\ DoWrite(c, Now(c).addr, Now(c).val)
        /\ Done(c) /\ UNCHANGED <<phase, path, poked, sought, zing_hrcp>>
    BY <1>7 DEF PutWord, Doing, Now, stateVars, ghostVars
  <2>2. Now(c).addr \in Addrs /\ Now(c).val \in Vals
    BY <1>1, <2>1, NowFacts DEF OwnOne, Vals
  <2>3. /\ disturbed' = disturbed /\ \A a \in Addrs \ {Now(c).addr} : regs'[a] = regs[a]
        /\ ~disturbed => regs'[Now(c).addr] = Now(c).val
    <3> DEFINE b == Now(c).addr
               w == Now(c).val
    <3>1. Typed /\ b \in Addrs /\ w \in Vals /\ DoWrite(c, b, w)
      BY <1>1, <2>1, <2>2
    <3> HIDE DEF b, w
    <3>2. /\ disturbed' = disturbed /\ \A a \in Addrs \ {b} : regs'[a] = regs[a]
          /\ ~disturbed => regs'[b] = w
      BY ONLY <3>1, WriteEffect
    <3> QED
      BY <3>2 DEF b, w
  <2>4. \A a \in Watched :
          /\ ~Changes(Now(c), a) /\ (~Writes(Now(c), a) => Frame(a))
          /\ Writes(Now(c), a) => (Ok(a)' => regs'[a] = Now(c).val)
    BY <1>2, <2>1, <2>3 DEF Frame, Ok, Writes, Changes
  <2> QED
    BY <2>1, <2>3, <2>4 DEF Took
<1>8. CASE PutChanged(c)
  <2> DEFINE w == Changed(kept[c], Now(c))
  <2>1. /\ todo[c] # << >> /\ Now(c).op = "modify" /\ Doing(c, "modify")
        /\ DoWrite(c, Now(c).addr, w)
        /\ Done(c) /\ UNCHANGED <<phase, path, poked, sought, zing_hrcp>>
    BY <1>8 DEF PutChanged, Doing, Now, stateVars, ghostVars
  <2>2. Now(c).addr \in Addrs /\ Now(c).val \in Words /\ kept[c] \in Vals
    BY <1>1, <2>1, NowFacts DEF OwnOne, Typed
  <2>3. w \in Vals /\ (~disturbed => w = Changed(regs[Now(c).addr], Now(c)))
    <3>1. w \in Vals
      BY <2>2 DEF Changed, Vals, Words
    <3>2. ~disturbed => kept[c] = regs[Now(c).addr]
      BY <1>1, <2>1 DEF Current
    <3> QED
      BY <3>1, <3>2
  <2> HIDE DEF w
  <2>4. /\ disturbed' = disturbed /\ \A a \in Addrs \ {Now(c).addr} : regs'[a] = regs[a]
        /\ ~disturbed => regs'[Now(c).addr] = w
    BY <1>1, <2>1, <2>2, <2>3, WriteEffect
  <2>5. \A a \in Watched :
          /\ ~Writes(Now(c), a) /\ (~Changes(Now(c), a) => Frame(a))
          /\ Changes(Now(c), a) => (Ok(a)' => Ok(a) /\ regs'[a] = Changed(regs[a], Now(c)))
    BY <1>2, <2>1, <2>3, <2>4 DEF Frame, Ok, Writes, Changes
  <2> QED
    BY <2>1, <2>4, <2>5 DEF Took
<1>9. CASE AssignRole(c)
  BY <1>9 DEF AssignRole, Doing, Now, ghostVars, Took, Frame, Ok, Writes, Changes
<1> QED
  BY <1>4, <1>5, <1>6, <1>7, <1>8, <1>9 DEF Routine

LEMMA LastTail == \A s \in Seq(Accesses) : s # << >> => (Len(s) = 1 <=> Tail(s) = << >>)
<1> SUFFICES ASSUME NEW s \in Seq(Accesses), s # << >> PROVE Len(s) = 1 <=> Tail(s) = << >>
  OBVIOUS
<1>1. Tail(s) \in Seq(Accesses) /\ Len(Tail(s)) = Len(s) - 1 /\ Len(s) \in Nat
  OBVIOUS
<1>2. \A t \in Seq(Accesses) : t = << >> <=> Len(t) = 0
  OBVIOUS
<1>3. Tail(s) = << >> <=> Len(Tail(s)) = 0
  BY ONLY <1>1, <1>2
<1>4. Len(s) = 1 <=> Len(Tail(s)) = 0
  BY ONLY <1>1
<1> QED
  BY ONLY <1>3, <1>4

LEMMA TookNext ==
  ASSUME UpdateInv, NEW c \in Threads, Took(c)
  PROVE  /\ todo'[c] = Tail(todo[c]) /\ \A d \in Threads \ {c} : todo'[d] = todo[d]
         /\ Now(c) \in Accesses
         /\ c = "app" => UNCHANGED <<settles, unsettled>>
         /\ c = "ep0" /\ Tail(todo[c]) # << >> => UNCHANGED <<settles, unsettled>>
         /\ c = "ep0" /\ Tail(todo[c]) = << >> =>
              settles' = {} /\ unsettled' = unsettled \ settles
<1>1. Typed /\ Alone /\ Scripts
  BY DEF UpdateInv
<1>2. todo[c] # << >> /\ Done(c) /\ phase' = phase
  BY DEF Took
<1>3. todo'[c] = Tail(todo[c]) /\ \A d \in Threads \ {c} : todo'[d] = todo[d]
  BY <1>1, <1>2, DoneNext
<1>4. Last(c) <=> Tail(todo[c]) = << >>
  <2>1. todo[c] \in Seq(Accesses)
    BY <1>1 DEF Typed
  <2> QED
    BY ONLY <1>2, <2>1, LastTail DEF Last
<1>5. Now(c) \in Accesses
  BY <1>1, <1>2, NowFacts
<1> QED
  BY <1>2, <1>3, <1>4, <1>5 DEF Done

-----------------------------------------------------------------------------
LEMMA Tails ==
  \A a, b, c, d :
    /\ Tail(<<a, b, c, d>>) = <<b, c, d>> /\ Tail(<<a, b, c>>) = <<b, c>>
    /\ Tail(<<a, b>>) = <<b>> /\ Tail(<<a>>) = << >>
    /\ <<b, c, d>> # << >> /\ <<b, c>> # << >> /\ <<b>> # << >>
    /\ <<a, b, c, d>>[1] = a /\ <<a, b, c>>[1] = a /\ <<a, b>>[1] = a /\ <<a>>[1] = a
OBVIOUS

\* What an access that is not a change nor a write leaves alone.
LEMMA TookIdle ==
  ASSUME NEW c, Took(c), Now(c).op \notin {"write", "modify"}
  PROVE  \A a \in Watched : Frame(a)
BY DEF Took, Writes, Changes

LEMMA TookOther ==
  ASSUME NEW c, Took(c), NEW a \in Watched, Now(c).addr # a
  PROVE  Frame(a)
BY DEF Took, Writes, Changes

\* A step of Zing_SetHRCP.
LEMMA RoleStep ==
  ASSUME UpdateInv, NEW c \in Threads, Took(c), NEW r \in {"PPC", "DEV"},
         RolePart(todo[c], r), CfgOk
  PROVE  /\ CfgOk' /\ (InitOk => InitOk') /\ (PathIs => PathIs') /\ (TrimKnown => TrimKnown')
         /\ Tail(todo[c]) # << >> => RolePart(todo[c], r)'
         /\ Tail(todo[c]) = << >> => BitIs(r)' /\ IfsIs(r)' /\ zing_hrcp' = r
<1> DEFINE rd == Read("HW_CFG")
           m == Modify("HW_CFG", {PpcMode}, RoleBits(r))
           w == Write("IFS", Ifs(r))
           z == SetRole(r)
<1>1. /\ rd.op = "read"
      /\ m.op = "modify" /\ m.addr = "HW_CFG" /\ m.clear = {PpcMode} /\ m.val = RoleBits(r)
      /\ w.op = "write" /\ w.addr = "IFS" /\ w.val = Ifs(r)
      /\ z.op = "role" /\ z.val = RoleBits(r)
  BY DEF Read, Modify, Write, SetRole, Access
<1>2. \/ todo[c] = <<rd, m, w, z>>
      \/ todo[c] = <<m, w, z>>
      \/ todo[c] = <<w, z>> /\ BitIs(r)
      \/ todo[c] = <<z>> /\ BitIs(r) /\ IfsIs(r)
  BY DEF RolePart
<1>3. \/ todo'[c] = <<rd, m, w, z>>
      \/ todo'[c] = <<m, w, z>>
      \/ todo'[c] = <<w, z>> /\ BitIs(r)'
      \/ todo'[c] = <<z>> /\ BitIs(r)' /\ IfsIs(r)'
      => RolePart(todo[c], r)'
  BY DEF RolePart
<1> HIDE DEF rd, m, w, z
<1>4. path' = path /\ todo'[c] = Tail(todo[c])
  BY TookNext DEF Took
<1>5. "HW_CFG" \in Watched /\ "IFS" \in Watched /\ "TRIM_1" \in Watched
  BY DEF Watched
<1>6. CASE todo[c] = <<rd, m, w, z>>
  <2>1. Now(c) = rd /\ Tail(todo[c]) = <<m, w, z>> /\ <<m, w, z>> # << >>
    BY <1>6, Tails DEF Now
  <2>2. Frame("HW_CFG") /\ Frame("TRIM_1")
    BY <1>1, <1>5, <2>1, TookIdle
  <2> QED
    BY <1>3, <1>4, <2>1, <2>2, FrameKeeps
<1>7. CASE todo[c] = <<m, w, z>>
  <2>1. Now(c) = m /\ Tail(todo[c]) = <<w, z>> /\ <<w, z>> # << >>
    BY <1>7, Tails DEF Now
  <2>2. Frame("TRIM_1")
    BY <1>1, <1>5, <2>1, TookOther
  <2>3. Ok("HW_CFG")' => Ok("HW_CFG") /\ regs'["HW_CFG"] = Changed(regs["HW_CFG"], m)
    BY <1>1, <1>5, <2>1 DEF Took, Changes
  <2>4. /\ CfgOk' /\ BitIs(r)' /\ (InitOk => InitOk')
    <3>1. Ok("HW_CFG") => regs["HW_CFG"] # Unknown
      BY DEF CfgOk, Unknown, PpcMode, InitN, Stage0, Stage1, Stage2
    <3>2. Ok("HW_CFG")' => regs'["HW_CFG"] = (regs["HW_CFG"] \ {PpcMode}) \cup RoleBits(r)
      BY <1>1, <2>3, <3>1 DEF Changed
    <3>3. RoleBits(r) = IF r = "PPC" THEN {PpcMode} ELSE {}
      BY DEF RoleBits
    <3>4. InitN # PpcMode
      BY DEF InitN, PpcMode
    <3> QED
      BY <2>3, <3>2, <3>3, <3>4 DEF CfgOk, BitIs, InitOk
  <2> QED
    BY <1>3, <1>4, <2>1, <2>2, <2>4, FrameKeeps
<1>8. CASE todo[c] = <<w, z>> /\ BitIs(r)
  <2>1. Now(c) = w /\ Tail(todo[c]) = <<z>> /\ <<z>> # << >>
    BY <1>8, Tails DEF Now
  <2>2. Frame("HW_CFG") /\ Frame("TRIM_1")
    BY <1>1, <1>5, <2>1, TookOther
  <2>3. IfsIs(r)'
    BY <1>1, <1>5, <2>1 DEF Took, Writes, IfsIs
  <2> QED
    BY <1>3, <1>4, <1>8, <2>1, <2>2, <2>3, FrameKeeps
<1>9. CASE todo[c] = <<z>> /\ BitIs(r) /\ IfsIs(r)
  <2>1. Now(c) = z /\ Tail(todo[c]) = << >>
    BY <1>9, Tails DEF Now
  <2>2. Frame("HW_CFG") /\ Frame("TRIM_1") /\ Frame("IFS")
    BY <1>1, <1>5, <2>1, TookIdle
  <2>3. zing_hrcp' = r
    <3>1. RoleBits("PPC") # RoleBits("DEV")
      BY DEF RoleBits
    <3> QED
      BY <1>1, <2>1, <3>1 DEF Took
  <2> QED
    BY <1>4, <1>9, <2>1, <2>2, <2>3, FrameKeeps
<1> QED
  BY <1>2, <1>6, <1>7, <1>8, <1>9

\* What taking the first access means for the whole writes of a register.
LEMMA WayTail ==
  \A s \in Seq(Accesses) : \A a, w :
    s # << >> =>
      /\ NoWrite(s, a) => ~Writes(s[1], a) /\ NoWrite(Tail(s), a)
      /\ LastWrite(s, a, w) =>
           LastWrite(Tail(s), a, w) \/ (s[1] = Write(a, w) /\ NoWrite(Tail(s), a))
<1> SUFFICES ASSUME NEW s \in Seq(Accesses), NEW a, NEW w, s # << >>
             PROVE  /\ NoWrite(s, a) => ~Writes(s[1], a) /\ NoWrite(Tail(s), a)
                    /\ LastWrite(s, a, w) =>
                         LastWrite(Tail(s), a, w) \/ (s[1] = Write(a, w) /\ NoWrite(Tail(s), a))
  OBVIOUS
<1> DEFINE n == Len(s)
<1>1. /\ n \in Nat /\ n > 0 /\ DOMAIN s = 1..n /\ DOMAIN Tail(s) = 1..(n - 1)
      /\ \A i \in 1..(n - 1) : Tail(s)[i] = s[i + 1]
  OBVIOUS
<1> HIDE DEF n
<1>2. ASSUME NoWrite(s, a) PROVE ~Writes(s[1], a) /\ NoWrite(Tail(s), a)
  <2>1. 1 \in 1..n /\ \A i \in 1..(n - 1) : i + 1 \in 1..n
    BY ONLY <1>1
  <2> QED
    BY ONLY <1>1, <1>2, <2>1 DEF NoWrite
<1>3. ASSUME LastWrite(s, a, w)
      PROVE  LastWrite(Tail(s), a, w) \/ (s[1] = Write(a, w) /\ NoWrite(Tail(s), a))
  <2>1. PICK i \in 1..n : s[i] = Write(a, w) /\ \A j \in 1..n : j > i => ~Writes(s[j], a)
    BY ONLY <1>1, <1>3 DEF LastWrite
  <2>2. CASE i = 1
    <3>1. \A j \in 1..(n - 1) : j + 1 \in 1..n /\ j + 1 > i
      BY ONLY <1>1, <2>2
    <3>2. NoWrite(Tail(s), a)
      BY ONLY <1>1, <2>1, <3>1 DEF NoWrite
    <3> QED
      BY <2>1, <2>2, <3>2
  <2>3. CASE i # 1
    <3>1. /\ i - 1 \in 1..(n - 1) /\ (i - 1) + 1 = i
          /\ \A j \in 1..(n - 1) : j > i - 1 => j + 1 \in 1..n /\ j + 1 > i
      BY ONLY <1>1, <2>1, <2>3
    <3>2. Tail(s)[i - 1] = Write(a, w)
      BY ONLY <1>1, <2>1, <3>1
    <3>3. \A j \in 1..(n - 1) : j > i - 1 => ~Writes(Tail(s)[j], a)
      BY ONLY <1>1, <2>1, <3>1
    <3> QED
      BY ONLY <1>1, <3>1, <3>2, <3>3 DEF LastWrite
  <2> QED
    BY <2>2, <2>3
<1> QED
  BY <1>2, <1>3

\* Taking an access of a routine that only writes and looks.
LEMMA WayTook ==
  ASSUME UpdateInv, NEW c \in Threads, Took(c),
         NEW q \in Seq(Accesses), q # << >>, Plain(q), q[1] = Now(c),
         NEW w \in Words
  PROVE  /\ Plain(Tail(q)) /\ Tail(q) \in Seq(Accesses)
         /\ CfgWay(q) => CfgWay(Tail(q))'
         /\ TrimWay(q, w) /\ w \cap PathBits = {PathBit(path)} => TrimWay(Tail(q), w)'
         /\ TrimKnown => TrimKnown'
         /\ zing_hrcp' = zing_hrcp
         /\ \A a \in Watched : NoWrite(q, a) => NoWrite(Tail(q), a) /\ Frame(a)
<1>1. Watched = {"HW_CFG", "IFS", "TRIM_1"} /\ path' = path
  BY DEF Watched, Took
<1>2. PlainOne(Now(c)) /\ Now(c) \in Accesses
  <2>1. 1 \in DOMAIN q
    OBVIOUS
  <2> QED
    BY <2>1 DEF Plain
<1>3. /\ Tail(q) \in Seq(Accesses)
      /\ \A i \in DOMAIN Tail(q) : i + 1 \in DOMAIN q /\ Tail(q)[i] = q[i + 1]
  OBVIOUS
<1>4. Plain(Tail(q))
  BY <1>3 DEF Plain
<1>5. /\ \A a \in Watched : ~Writes(Now(c), a) => Frame(a)
      /\ \A a \in Watched : Writes(Now(c), a) => (Ok(a)' => regs'[a] = Now(c).val)
  BY <1>2 DEF PlainOne, Took, Changes
<1>6. \A a, v : /\ NoWrite(q, a) => ~Writes(Now(c), a) /\ NoWrite(Tail(q), a)
                /\ LastWrite(q, a, v) =>
                     LastWrite(Tail(q), a, v) \/ (Now(c) = Write(a, v) /\ NoWrite(Tail(q), a))
  BY WayTail
<1>7. \A a, v : Now(c) = Write(a, v) => Writes(Now(c), a) /\ Now(c).val = v
  BY DEF Write, Access, Writes
<1>8. \A a \in Watched : NoWrite(q, a) => NoWrite(Tail(q), a) /\ Frame(a)
  BY ONLY <1>5, <1>6
<1>9. ASSUME CfgWay(q) PROVE CfgWay(Tail(q))'
  <2>1. CASE NoWrite(q, "HW_CFG") /\ CfgOk /\ InitOk
    <3>1. NoWrite(Tail(q), "HW_CFG") /\ Frame("HW_CFG")
      BY <1>1, <1>8, <2>1
    <3> QED
      BY <2>1, <3>1, FrameKeeps DEF CfgWay
  <2>2. CASE LastWrite(Tail(q), "HW_CFG", Stage2)
    BY <2>2 DEF CfgWay
  <2>3. CASE Now(c) = Write("HW_CFG", Stage2) /\ NoWrite(Tail(q), "HW_CFG")
    <3>1. Ok("HW_CFG")' => regs'["HW_CFG"] = Stage2
      BY <1>1, <1>5, <1>7, <2>3
    <3>2. InitN \in Stage2
      BY DEF Stage2, Stage1, InitN
    <3>3. CfgOk' /\ InitOk'
      BY <3>1, <3>2 DEF CfgOk, InitOk
    <3> QED
      BY <2>3, <3>3 DEF CfgWay
  <2> QED
    BY <1>6, <1>9, <2>1, <2>2, <2>3 DEF CfgWay
<1>10. ASSUME TrimWay(q, w), w \cap PathBits = {PathBit(path)} PROVE TrimWay(Tail(q), w)'
  <2>1. CASE NoWrite(q, "TRIM_1") /\ PathIs
    <3>1. NoWrite(Tail(q), "TRIM_1") /\ Frame("TRIM_1")
      BY <1>1, <1>8, <2>1
    <3> QED
      BY <1>1, <2>1, <3>1, FrameKeeps DEF TrimWay
  <2>2. CASE LastWrite(Tail(q), "TRIM_1", w)
    BY <2>2 DEF TrimWay
  <2>3. CASE Now(c) = Write("TRIM_1", w) /\ NoWrite(Tail(q), "TRIM_1")
    <3>1. Ok("TRIM_1")' => regs'["TRIM_1"] = w
      BY <1>1, <1>5, <1>7, <2>3
    <3>2. PathIs'
      BY <1>1, <1>10, <3>1 DEF PathIs
    <3> QED
      BY <2>3, <3>2 DEF TrimWay
  <2> QED
    BY <1>6, <1>10, <2>1, <2>2, <2>3 DEF TrimWay
<1>11. ASSUME TrimKnown PROVE TrimKnown'
  <2>1. CASE Writes(Now(c), "TRIM_1")
    <3>1. Now(c).val \in Words /\ Unknown \notin Words
      BY <1>2 DEF Accesses, Words, Unknown
    <3> QED
      BY <1>1, <1>5, <2>1, <3>1 DEF TrimKnown
  <2>2. CASE ~Writes(Now(c), "TRIM_1")
    BY <1>1, <1>5, <1>11, <2>2, FrameKeeps
  <2> QED
    BY <2>1, <2>2
<1>12. zing_hrcp' = zing_hrcp
  BY <1>2 DEF PlainOne, Took
<1> QED
  BY <1>3, <1>4, <1>8, <1>9, <1>10, <1>11, <1>12

LEMMA TrustedKept ==
  ASSUME Trusted, \A a \in Watched : Frame(a), UNCHANGED <<unsettled, path, zing_hrcp>>
  PROVE  Trusted'
BY FrameKeeps DEF Trusted, Watched

\* A step that leaves the watched registers and the commands alone.
LEMMA FrameStep ==
  ASSUME BootPart, HostPart, \A a \in Watched : Frame(a),
         UNCHANGED <<phase, path, poked, settles, unsettled, zing_hrcp>>,
         todo'["ep0"] = todo["ep0"], phase = "boot" => todo'["app"] = todo["app"]
  PROVE  BootPart' /\ HostPart'
<1>1. /\ CfgOk => CfgOk'
      /\ InitOk => InitOk'
      /\ PathIs => PathIs'
      /\ \A r : (BitIs(r) => BitIs(r)') /\ (IfsIs(r) => IfsIs(r)')
  BY FrameKeeps DEF Watched
<1>3. \A s : CfgWay(s) => CfgWay(s)'
  BY <1>1 DEF CfgWay
<1>4. \A s, w : TrimWay(s, w) => TrimWay(s, w)'
  BY <1>1 DEF TrimWay
<1>5. BootPart'
  <2> SUFFICES ASSUME phase = "boot"
               PROVE  /\ poked' = {} /\ settles' = {} /\ unsettled' = {} /\ path' = "RF"
                      /\ Initialising' \/ Initialised'
    BY DEF BootPart
  <2>1. CASE Initialising
    BY <1>3, <1>4, <2>1 DEF BootPart, Initialising
  <2>2. CASE Initialised
    <3>1. todo'["app"] = todo["app"] /\ zing_hrcp' = zing_hrcp
      OBVIOUS
    <3>2. RolePart(todo["app"], Build) => RolePart(todo["app"], Build)'
      BY <1>1, <3>1 DEF RolePart
    <3> QED
      BY <1>1, <2>2, <3>1, <3>2 DEF BootPart, Initialised
  <2> QED
    BY <2>1, <2>2 DEF BootPart
<1>6. HostPart'
  <2> SUFFICES ASSUME phase = "connected"
               PROVE  settles' \subseteq unsettled' /\ Trusted' /\ Commanded'
    BY DEF HostPart
  <2>1. Trusted'
    BY TrustedKept DEF HostPart
  <2>2. AccessLeft => AccessLeft'
    BY DEF AccessLeft
  <2>3. PathLeft => PathLeft'
    BY DEF PathLeft
  <2>4. ResetLeft => ResetLeft'
    BY DEF ResetLeft
  <2>5. AfcLeft => AfcLeft'
    <3>1. TrimWay(todo["ep0"], AfcTrim1) => TrimWay(todo["ep0"], AfcTrim1)'
      BY <1>1 DEF TrimWay
    <3> QED
      BY <3>1 DEF AfcLeft
  <2>6. \A r : RolePart(todo["ep0"], r) => RolePart(todo["ep0"], r)'
    BY <1>1 DEF RolePart
  <2> QED
    BY <2>1, <2>2, <2>3, <2>4, <2>5, <2>6 DEF HostPart, Commanded
<1> QED
  BY <1>5, <1>6

\* A step of the boot.
LEMMA BootStep ==
  ASSUME ModeInv, phase = "boot", Took("app")
  PROVE  BootPart'
<1>1. /\ poked = {} /\ settles = {} /\ unsettled = {} /\ path = "RF"
      /\ Initialising \/ Initialised
  BY DEF ModeInv, BootPart
<1>2. "app" \in Threads /\ UpdateInv /\ Build \in {"PPC", "DEV"}
  <2>1. Build \in {"PPC", "DEV"}
    BY ONLY BuildAssumption
  <2> QED
    BY <2>1 DEF Threads, ModeInv
<1>3. /\ todo'["app"] = Tail(todo["app"]) /\ todo["app"] # << >>
      /\ poked' = {} /\ settles' = {} /\ unsettled' = {} /\ path' = "RF"
  BY <1>1, <1>2, TookNext DEF Took
<1>4. CASE Initialising
  <2>1. PICK q \in Seq(Accesses) :
          /\ Plain(q) /\ q # << >> /\ todo["app"] = q \o SetHRCP(Build)
          /\ CfgWay(q) /\ TrimWay(q, RfTrim1)
    BY <1>4 DEF Initialising
  <2>2. SetHRCP(Build) \in Seq(Accesses)
    BY SetHRCPFresh DEF Fresh, Script
  <2>3. q[1] = Now("app") /\ Tail(todo["app"]) = Tail(q) \o SetHRCP(Build)
    BY <2>1, <2>2 DEF Now
  <2>4. RfTrim1 \in Words /\ RfTrim1 \cap PathBits = {PathBit(path)}
    BY <1>1, WordType, RfPath DEF RfTrim1
  <2>5. /\ Plain(Tail(q)) /\ Tail(q) \in Seq(Accesses)
        /\ CfgWay(Tail(q))' /\ TrimWay(Tail(q), RfTrim1)'
    BY <1>2, <2>1, <2>3, <2>4, WayTook
  <2>6. CASE Tail(q) # << >>
    BY <1>3, <2>3, <2>5, <2>6 DEF BootPart, Initialising
  <2>7. CASE Tail(q) = << >>
    <3>1. todo'["app"] = SetHRCP(Build)
      <4>1. \A t \in Seq(Accesses) : << >> \o t = t
        OBVIOUS
      <4> QED
        BY ONLY <1>3, <2>2, <2>3, <2>7, <4>1
    <3>2. \A a, v : ~LastWrite(<< >>, a, v)
      BY DEF LastWrite
    <3>3. CfgOk' /\ InitOk' /\ PathIs'
      BY <2>5, <2>7, <3>2 DEF CfgWay, TrimWay
    <3>4. RolePart(todo["app"], Build)'
      BY <3>1 DEF RolePart, SetHRCP
    <3> QED
      BY <1>3, <3>3, <3>4 DEF BootPart, Initialised
  <2> QED
    BY <2>6, <2>7
<1>5. CASE Initialised
  <2>1. CfgOk /\ InitOk /\ PathIs /\ RolePart(todo["app"], Build)
    BY <1>3, <1>5 DEF Initialised
  <2>2. /\ CfgOk' /\ InitOk' /\ PathIs'
        /\ Tail(todo["app"]) # << >> => RolePart(todo["app"], Build)'
        /\ Tail(todo["app"]) = << >> => BitIs(Build)' /\ IfsIs(Build)' /\ zing_hrcp' = Build
    BY <1>2, <2>1, RoleStep
  <2> QED
    BY <1>3, <2>2 DEF BootPart, Initialised
<1> QED
  BY <1>1, <1>4, <1>5

\* A step of a command of the host.
LEMMA CommandStep ==
  ASSUME ModeInv, phase = "connected", Took("ep0")
  PROVE  HostPart'
<1>1. UpdateInv /\ settles \subseteq unsettled /\ Trusted /\ Commanded /\ "ep0" \in Threads
  BY DEF ModeInv, HostPart, Threads
<1>2. /\ todo'["ep0"] = Tail(todo["ep0"]) /\ todo["ep0"] # << >>
      /\ UNCHANGED <<phase, path, poked>>
      /\ Tail(todo["ep0"]) # << >> => UNCHANGED <<settles, unsettled>>
      /\ Tail(todo["ep0"]) = << >> => settles' = {} /\ unsettled' = unsettled \ settles
  BY <1>1, TookNext DEF Took
<1>3. Watched = {"HW_CFG", "IFS", "TRIM_1"}
  BY DEF Watched
<1>4. Tail(todo["ep0"]) = << >> => (settles = {} /\ AccessLeft)' /\ settles' \subseteq unsettled'
  BY <1>2 DEF AccessLeft
<1>5. CASE settles = {} /\ AccessLeft
  <2>1. Tail(todo["ep0"]) = << >> /\ zing_hrcp' = zing_hrcp /\ \A b \in Watched : Frame(b)
    <3>1. ASSUME NEW a \in Addrs, todo["ep0"] = <<Look(a)>>
          PROVE  /\ Tail(todo["ep0"]) = << >> /\ zing_hrcp' = zing_hrcp
                 /\ \A b \in Watched : Frame(b)
      <4>1. Now("ep0").op = "look" /\ Tail(todo["ep0"]) = << >>
        BY <3>1, Tails DEF Now, Look, Access
      <4> QED
        BY <4>1, TookIdle DEF Took
    <3>2. ASSUME NEW a \in poked, NEW w \in Words, todo["ep0"] = <<Write(a, w)>>
          PROVE  /\ Tail(todo["ep0"]) = << >> /\ zing_hrcp' = zing_hrcp
                 /\ \A b \in Watched : Frame(b)
      <4>1. Now("ep0").op = "write" /\ Now("ep0").addr = a /\ Tail(todo["ep0"]) = << >>
        BY <3>2, Tails DEF Now, Write, Access
      <4>2. Frame(a)
        BY <1>2 DEF Frame, Ok
      <4> QED
        BY <4>1, <4>2, TookOther DEF Took
    <3> QED
      BY <1>2, <1>5, <3>1, <3>2 DEF AccessLeft
  <2>2. unsettled' = unsettled
    BY <1>2, <1>5, <2>1
  <2>3. Trusted'
    BY <1>1, <1>2, <2>1, <2>2, TrustedKept
  <2> QED
    BY <1>4, <2>1, <2>3 DEF HostPart, Commanded
<1>6. ASSUME settles = {"role"}, NEW r \in {"PPC", "DEV"}, RolePart(todo["ep0"], r)
      PROVE  HostPart'
  <2>1. CfgOk /\ TrimKnown /\ "role" \in unsettled
    BY <1>1, <1>6 DEF Trusted
  <2>2. /\ CfgOk' /\ (InitOk => InitOk') /\ (PathIs => PathIs') /\ TrimKnown'
        /\ Tail(todo["ep0"]) # << >> => RolePart(todo["ep0"], r)'
        /\ Tail(todo["ep0"]) = << >> => BitIs(r)' /\ IfsIs(r)' /\ zing_hrcp' = r
    BY <1>1, <1>6, <2>1, RoleStep
  <2>3. CASE Tail(todo["ep0"]) = << >>
    <3>1. Trusted'
      BY <1>1, <1>2, <1>6, <2>2, <2>3 DEF Trusted
    <3> QED
      BY <1>4, <2>3, <3>1 DEF HostPart, Commanded
  <2>4. CASE Tail(todo["ep0"]) # << >>
    <3>1. Trusted'
      BY <1>1, <1>2, <2>1, <2>2, <2>4 DEF Trusted
    <3> QED
      BY <1>1, <1>2, <1>6, <2>2, <2>4, <3>1 DEF HostPart, Commanded
  <2> QED
    BY <2>3, <2>4
<1>7. CASE settles = {"path"} /\ PathLeft
  <2> DEFINE rd == Read("TRIM_1")
             m == Modify("TRIM_1", PathBits, {PathBit(path)})
  <2>1. /\ rd.op = "read" /\ m.op = "modify" /\ m.addr = "TRIM_1" /\ m.clear = PathBits
        /\ m.val = {PathBit(path)} /\ PathBit(path) \in PathBits
    BY DEF Read, Modify, Access, PathBit, PathBits
  <2>2. todo["ep0"] = <<rd, m>> \/ todo["ep0"] = <<m>>
    BY <1>7 DEF PathLeft
  <2>3. todo'["ep0"] = <<m>> => PathLeft'
    BY <1>2 DEF PathLeft
  <2> HIDE DEF rd, m
  <2>4. CASE todo["ep0"] = <<rd, m>>
    <3>1. Now("ep0") = rd /\ Tail(todo["ep0"]) = <<m>> /\ <<m>> # << >>
      BY <2>4, Tails DEF Now
    <3>2. zing_hrcp' = zing_hrcp /\ \A b \in Watched : Frame(b)
      BY <2>1, <3>1, TookIdle DEF Took
    <3>3. Trusted'
      BY <1>1, <1>2, <3>1, <3>2, TrustedKept
    <3> QED
      BY <1>1, <1>2, <1>7, <2>3, <3>1, <3>3 DEF HostPart, Commanded
  <2>5. CASE todo["ep0"] = <<m>>
    <3>1. Now("ep0") = m /\ Tail(todo["ep0"]) = << >>
      BY <2>5, Tails DEF Now
    <3>2. zing_hrcp' = zing_hrcp /\ Frame("HW_CFG") /\ Frame("IFS")
      BY <1>3, <2>1, <3>1, TookOther DEF Took
    <3>3. Ok("TRIM_1")' => Ok("TRIM_1") /\ regs'["TRIM_1"] = Changed(regs["TRIM_1"], m)
      BY <1>3, <2>1, <3>1 DEF Took, Changes
    <3>4. TrimKnown' /\ PathIs'
      <4>1. Ok("TRIM_1") => regs["TRIM_1"] # Unknown
        BY <1>1 DEF Trusted, TrimKnown
      <4>2. Ok("TRIM_1")' => regs'["TRIM_1"] = (regs["TRIM_1"] \ PathBits) \cup {PathBit(path)}
        BY <2>1, <3>3, <4>1 DEF Changed
      <4>3. PathIs'
        BY <1>2, <2>1, <4>2 DEF PathIs
      <4>4. PathBit(path) # 32
        BY DEF PathBit
      <4> QED
        BY <4>2, <4>3, <4>4 DEF TrimKnown, Unknown
    <3>5. Trusted'
      BY <1>1, <1>2, <1>7, <3>1, <3>2, <3>4, FrameKeeps DEF Trusted
    <3> QED
      BY <1>4, <3>1, <3>5 DEF HostPart, Commanded
  <2> QED
    BY <2>2, <2>4, <2>5
<1>8. CASE settles = {"reset"} /\ ResetLeft
  <2> DEFINE rd == Read("HW_CFG")
             m == Modify("HW_CFG", {InitN}, {})
             n == Modify("HW_CFG", {}, {InitN})
  <2>1. /\ rd.op = "read" /\ m.op = "modify" /\ m.addr = "HW_CFG" /\ m.clear = {InitN}
        /\ m.val = {} /\ n.op = "modify" /\ n.addr = "HW_CFG" /\ n.clear = {} /\ n.val = {InitN}
    BY DEF Read, Modify, Access
  <2>2. todo["ep0"] = <<rd, m, n>> \/ todo["ep0"] = <<m, n>> \/ todo["ep0"] = <<n>>
    BY <1>8 DEF ResetLeft
  <2>3. todo'["ep0"] = <<m, n>> \/ todo'["ep0"] = <<n>> => ResetLeft'
    BY DEF ResetLeft
  <2> HIDE DEF rd, m, n
  <2>4. CASE todo["ep0"] = <<rd, m, n>>
    <3>1. Now("ep0") = rd /\ Tail(todo["ep0"]) = <<m, n>> /\ <<m, n>> # << >>
      BY <2>4, Tails DEF Now
    <3>2. zing_hrcp' = zing_hrcp /\ \A b \in Watched : Frame(b)
      BY <2>1, <3>1, TookIdle DEF Took
    <3>3. Trusted'
      BY <1>1, <1>2, <3>1, <3>2, TrustedKept
    <3> QED
      BY <1>1, <1>2, <1>8, <2>3, <3>1, <3>3 DEF HostPart, Commanded
  <2>5. ASSUME todo["ep0"] = <<m, n>> \/ todo["ep0"] = <<n>>
        PROVE  /\ zing_hrcp' = zing_hrcp /\ Frame("TRIM_1") /\ Frame("IFS")
               /\ CfgOk' /\ (\A r : BitIs(r) => BitIs(r)')
               /\ todo["ep0"] = <<n>> => InitOk'
    <3>1. (Now("ep0") = m /\ todo["ep0"] # <<n>>) \/ Now("ep0") = n
      <4>1. todo["ep0"] = <<m, n>> => todo["ep0"] # <<n>>
        BY Tails
      <4> QED
        BY <2>5, <4>1, Tails DEF Now
    <3>2. Now("ep0").op = "modify" /\ Now("ep0").addr = "HW_CFG"
      BY <2>1, <3>1
    <3>3. zing_hrcp' = zing_hrcp /\ Frame("TRIM_1") /\ Frame("IFS")
      BY <1>3, <3>2, TookOther DEF Took
    <3>4. Ok("HW_CFG")' => Ok("HW_CFG") /\ regs'["HW_CFG"] = Changed(regs["HW_CFG"], Now("ep0"))
      BY <1>3, <3>2 DEF Took, Changes
    <3>5. Ok("HW_CFG") => regs["HW_CFG"] # Unknown
      BY <1>1 DEF Trusted, CfgOk, Unknown, PpcMode, InitN, Stage0, Stage1, Stage2
    <3>6. Ok("HW_CFG")' =>
            \/ regs'["HW_CFG"] = regs["HW_CFG"] \ {InitN} /\ todo["ep0"] # <<n>>
            \/ regs'["HW_CFG"] = regs["HW_CFG"] \cup {InitN}
      BY <2>1, <3>1, <3>4, <3>5 DEF Changed
    <3>7. InitN # PpcMode
      BY DEF InitN, PpcMode
    <3>8. CfgOk' /\ (\A r : BitIs(r) => BitIs(r)')
      BY <1>1, <3>4, <3>6, <3>7 DEF Trusted, CfgOk, BitIs
    <3>9. todo["ep0"] = <<n>> => InitOk'
      BY <3>6 DEF InitOk
    <3> QED
      BY <3>3, <3>8, <3>9
  <2>6. CASE todo["ep0"] = <<m, n>>
    <3>1. Tail(todo["ep0"]) = <<n>> /\ <<n>> # << >> /\ "reset" \in unsettled
      BY <1>1, <1>8, <2>6, Tails
    <3>2. Trusted'
      BY <1>1, <1>2, <2>5, <2>6, <3>1, FrameKeeps DEF Trusted
    <3> QED
      BY <1>1, <1>2, <1>8, <2>3, <3>1, <3>2 DEF HostPart, Commanded
  <2>7. CASE todo["ep0"] = <<n>>
    <3>1. Tail(todo["ep0"]) = << >>
      BY <2>7, Tails
    <3>2. Trusted'
      BY <1>1, <1>2, <1>8, <2>5, <2>7, <3>1, FrameKeeps DEF Trusted
    <3> QED
      BY <1>4, <3>1, <3>2 DEF HostPart, Commanded
  <2> QED
    BY <2>2, <2>4, <2>6, <2>7
<1>9. CASE settles = {"afc", "path"} /\ AfcLeft
  <2>1. PICK q \in Seq(Accesses) : q = todo["ep0"]
    BY <1>9 DEF AfcLeft, Plain
  <2>2. /\ path = "SERDES" /\ Plain(q) /\ q # << >> /\ q[1] = Now("ep0")
        /\ NoWrite(q, "HW_CFG") /\ NoWrite(q, "IFS") /\ TrimWay(q, AfcTrim1)
    BY <1>9, <2>1 DEF AfcLeft, Now
  <2>3. AfcTrim1 \in Words /\ AfcTrim1 \cap PathBits = {PathBit(path)}
    BY <2>2, WordType, SerdesPath DEF AfcTrim1
  <2>4. /\ Plain(Tail(q)) /\ TrimWay(Tail(q), AfcTrim1)'
        /\ TrimKnown' /\ zing_hrcp' = zing_hrcp
        /\ NoWrite(Tail(q), "HW_CFG") /\ Frame("HW_CFG")
        /\ NoWrite(Tail(q), "IFS") /\ Frame("IFS")
    BY <1>1, <1>3, <2>2, <2>3, WayTook DEF Trusted
  <2>5. CASE Tail(q) = << >>
    <3>1. \A a, v : ~LastWrite(<< >>, a, v)
      BY DEF LastWrite
    <3>2. PathIs'
      BY <2>4, <2>5, <3>1 DEF TrimWay
    <3>3. Trusted'
      BY <1>1, <1>2, <1>9, <2>1, <2>4, <2>5, <3>2, FrameKeeps DEF Trusted
    <3> QED
      BY <1>4, <2>1, <2>5, <3>3 DEF HostPart, Commanded
  <2>6. CASE Tail(q) # << >>
    <3>1. "path" \in unsettled
      BY <1>1, <1>9
    <3>2. Trusted'
      BY <1>1, <1>2, <2>1, <2>4, <2>6, <3>1, FrameKeeps DEF Trusted
    <3>3. AfcLeft'
      <4>1. todo'["ep0"] = Tail(q) /\ path' = "SERDES"
        BY <1>2, <2>1, <2>2
      <4>2. TrimWay(todo["ep0"], AfcTrim1)'
        BY <2>4, <4>1 DEF TrimWay
      <4> QED
        BY <2>4, <2>6, <4>1, <4>2 DEF AfcLeft
    <3> QED
      BY <1>1, <1>2, <1>9, <2>1, <2>6, <3>2, <3>3 DEF HostPart, Commanded
  <2> QED
    BY <2>5, <2>6
<1> QED
  BY <1>1, <1>5, <1>6, <1>7, <1>8, <1>9 DEF Commanded

LEMMA ModeInit == Init => ModeInv
<1> SUFFICES ASSUME Init PROVE ModeInv
  OBVIOUS
<1>1. /\ UpdateInv /\ phase = "boot" /\ todo["app"] = Boot
      /\ poked = {} /\ settles = {} /\ unsettled = {} /\ path = "RF"
  BY UpdateInit DEF Init, BootTodo, Threads
<1>2. /\ Boot = Settings \o SetHRCP(Build) /\ Plain(Settings)
      /\ LastWrite(Settings, "HW_CFG", Stage2) /\ LastWrite(Settings, "TRIM_1", RfTrim1)
  BY BootSplit DEF RfTrim1
<1>3. Settings \in Seq(Accesses) /\ Settings # << >>
  BY <1>2 DEF Plain, LastWrite
<1>4. Initialising
  BY <1>1, <1>2, <1>3 DEF Initialising, CfgWay, TrimWay
<1> QED
  BY <1>1, <1>4 DEF ModeInv, BootPart, HostPart

\* A thread's next access.
LEMMA RoutineKeeps ==
  ASSUME ModeInv, NEW c \in Threads, Routine(c)
  PROVE  BootPart' /\ HostPart'
<1>1. UpdateInv /\ BootPart /\ HostPart
  BY DEF ModeInv
<1>2. Typed /\ Alone /\ (c = "app" \/ c = "ep0") /\ "app" \in Threads /\ "ep0" \in Threads
  BY <1>1 DEF UpdateInv, Threads
<1>3. CASE Took(c)
  <2>1. /\ todo[c] # << >> /\ phase' = phase /\ UNCHANGED <<path, poked>>
        /\ \A d \in Threads \ {c} : todo'[d] = todo[d]
    BY <1>1, <1>3, TookNext DEF Took
  <2>2. CASE phase = "boot"
    <3>1. c = "app"
      BY <1>2, <2>1, <2>2 DEF Alone
    <3> QED
      BY <1>3, <2>1, <2>2, <3>1, BootStep DEF HostPart
  <2>3. CASE phase = "connected" /\ c = "app"
    <3>1. Now(c).op = "look"
      <4>1. todo[c] \in Seq(Accesses) /\ Looking(todo[c])
        BY <1>2, <2>3 DEF Typed, Alone
      <4>2. 1 \in DOMAIN todo[c]
        BY <2>1, <4>1
      <4> QED
        BY <4>1, <4>2 DEF Looking, Now
    <3>2. (\A a \in Watched : Frame(a)) /\ zing_hrcp' = zing_hrcp
      BY <1>3, <3>1, TookIdle DEF Took
    <3>3. UNCHANGED <<settles, unsettled>> /\ todo'["ep0"] = todo["ep0"]
      BY <1>1, <1>2, <1>3, <2>1, <2>3, TookNext
    <3> QED
      BY <1>1, <2>1, <2>3, <3>2, <3>3, FrameStep
  <2>4. CASE phase = "connected" /\ c = "ep0"
    BY <1>3, <2>1, <2>4, CommandStep DEF BootPart
  <2> QED
    BY <1>2, <2>1, <2>2, <2>3, <2>4 DEF BootPart, HostPart
<1>4. CASE BeginRead(c)
  <2>1. UNCHANGED <<todo, phase, path, poked, settles, unsettled, zing_hrcp>>
    BY <1>4 DEF BeginRead, commandVars, stateVars, ghostVars
  <2>2. disturbed' \/ (disturbed' = disturbed /\ regs' = regs)
    BY <1>4 DEF BeginRead, DoBeginRead, File!BeginRead, File!Disturb
  <2>3. \A a \in Watched : Frame(a)
    BY <2>1, <2>2 DEF Frame, Ok
  <2> QED
    BY <1>1, <2>1, <2>3, FrameStep
<1>5. CASE Fail(c)
  <2>1. /\ todo' = [todo EXCEPT ![c] = << >>]
        /\ phase' = IF phase = "boot" THEN "hung" ELSE phase
        /\ settles' = IF c = "ep0" THEN {} ELSE settles
        /\ UNCHANGED <<regs, disturbed, zing_hrcp, unsettled, path, poked>>
    BY <1>5 DEF Fail
  <2>2. todo'[c] = << >> /\ \A d \in Threads \ {c} : todo'[d] = todo[d]
    BY <1>2, <2>1 DEF Typed
  <2>3. \A a \in Watched : Frame(a)
    BY <2>1 DEF Frame, Ok
  <2>4. CASE phase = "connected" /\ c = "app"
    BY <1>1, <1>2, <2>1, <2>2, <2>3, <2>4, FrameStep
  <2>5. CASE phase = "connected" /\ c = "ep0"
    <3>1. Trusted'
      BY <1>1, <2>1, <2>3, <2>5, TrustedKept DEF HostPart
    <3> QED
      BY <2>1, <2>2, <2>5, <3>1 DEF BootPart, HostPart, Commanded, AccessLeft
  <2>6. CASE phase # "connected"
    BY <2>1, <2>6 DEF BootPart, HostPart
  <2> QED
    BY <1>2, <2>4, <2>5, <2>6
<1> QED
  BY <1>1, <1>3, <1>4, <1>5, Takes

\* USB_Connect ends the boot.
LEMMA ConnectKeeps ==
  ASSUME ModeInv, Connect
  PROVE  BootPart' /\ HostPart'
<1>1. /\ phase = "boot" /\ todo["app"] = << >> /\ phase' = "connected"
      /\ UNCHANGED <<regs, disturbed, zing_hrcp, todo, settles, unsettled, path, poked>>
  BY DEF Connect, accessVars, commandVars, ghostVars
<1>2. settles = {} /\ todo["ep0"] = << >> /\ (Initialising \/ Initialised)
  BY <1>1 DEF ModeInv, UpdateInv, Alone, BootPart
<1>3. ~Initialising
  <2> SUFFICES ASSUME NEW q \in Seq(Accesses), q # << >>, todo["app"] = q \o SetHRCP(Build)
               PROVE  FALSE
    BY DEF Initialising
  <2>1. SetHRCP(Build) \in Seq(Accesses)
    BY SetHRCPFresh DEF Fresh, Script
  <2>2. Len(q \o SetHRCP(Build)) # 0
    BY <2>1
  <2> QED
    BY <1>1, <2>2
<1>4. /\ CfgOk /\ InitOk /\ PathIs
      /\ BitIs(zing_hrcp) /\ IfsIs(zing_hrcp)
  BY <1>1, <1>2, <1>3, Tails DEF Initialised, RolePart
<1>5. TrimKnown
  BY <1>4 DEF TrimKnown, PathIs, Unknown, PathBits
<1>6. \A a \in Watched : Frame(a)
  BY <1>1 DEF Frame, Ok
<1>7. Trusted'
  BY <1>1, <1>4, <1>5, <1>6, TrustedKept DEF Trusted
<1> QED
  BY <1>1, <1>2, <1>7 DEF BootPart, HostPart, Commanded, AccessLeft

\* A command begins.
LEMMA CommandKeeps ==
  ASSUME ModeInv, NEW s, NEW about, Command(s, about),
         poked \subseteq poked', path' = path \/ "path" \in about
  PROVE  /\ phase' = "connected" /\ todo'["ep0"] = s /\ settles' = about
         /\ settles' \subseteq unsettled' /\ Trusted'
<1>1. /\ phase = "connected" /\ todo' = [todo EXCEPT !["ep0"] = s]
      /\ settles' = about /\ unsettled' = unsettled \cup about
      /\ UNCHANGED <<regs, disturbed, phase, zing_hrcp>>
  BY DEF Command, accessVars, stateVars
<1>2. Trusted /\ todo \in [Threads -> Seq(Accesses)] /\ "ep0" \in Threads
  BY <1>1 DEF ModeInv, HostPart, UpdateInv, Typed, Threads
<1>3. \A a \in Watched : Frame(a)
  BY <1>1 DEF Frame, Ok
<1>4. Trusted'
  BY <1>1, <1>2, <1>3, FrameKeeps DEF Trusted, Watched
<1> QED
  BY <1>1, <1>2, <1>4

LEMMA HostKeeps ==
  ASSUME ModeInv, HostCommand
  PROVE  BootPart' /\ HostPart'
<1>1. ASSUME phase' = "connected", settles' \subseteq unsettled', Trusted', Commanded'
      PROVE  BootPart' /\ HostPart'
  BY <1>1 DEF BootPart, HostPart
<1>2. ASSUME NEW r \in {"PPC", "DEV"}, ModeHrcp(r) PROVE BootPart' /\ HostPart'
  <2>1. Command(SetHRCP(r), {"role"}) /\ UNCHANGED <<path, poked>>
    BY <1>2 DEF ModeHrcp
  <2>2. /\ phase' = "connected" /\ todo'["ep0"] = SetHRCP(r) /\ settles' = {"role"}
        /\ settles' \subseteq unsettled' /\ Trusted'
    BY <2>1, CommandKeeps
  <2>3. RolePart(todo["ep0"], r)'
    BY <2>2 DEF RolePart, SetHRCP
  <2> QED
    BY <1>1, <2>2, <2>3 DEF Commanded
<1>3. ASSUME NEW p, ModePath(p) PROVE BootPart' /\ HostPart'
  <2>1. Command(SetPath(p), {"path"}) /\ path' = p /\ poked' = poked
    BY <1>3 DEF ModePath
  <2>2. /\ phase' = "connected" /\ todo'["ep0"] = SetPath(p) /\ settles' = {"path"}
        /\ settles' \subseteq unsettled' /\ Trusted'
    BY <2>1, CommandKeeps
  <2> QED
    BY <1>1, <2>1, <2>2 DEF Commanded, PathLeft, SetPath
<1>4. CASE ZingRst
  <2>1. Command(Reset, {"reset"}) /\ UNCHANGED <<path, poked>>
    BY <1>4 DEF ZingRst
  <2>2. /\ phase' = "connected" /\ todo'["ep0"] = Reset /\ settles' = {"reset"}
        /\ settles' \subseteq unsettled' /\ Trusted'
    BY <2>1, CommandKeeps
  <2> QED
    BY <1>1, <2>2 DEF Commanded, ResetLeft, Reset
<1>5. ASSUME NEW ref \in RefCounts, Afc(ref) PROVE BootPart' /\ HostPart'
  <2>1. Command(AFC2(ref), {"afc", "path"}) /\ path' = "SERDES" /\ poked' = poked
    BY <1>5 DEF Afc
  <2>2. /\ phase' = "connected" /\ todo'["ep0"] = AFC2(ref) /\ settles' = {"afc", "path"}
        /\ settles' \subseteq unsettled' /\ Trusted'
    BY <2>1, CommandKeeps
  <2>3. ref \in Nat
    BY RefCountAssumption
  <2>4. /\ Plain(AFC2(ref)) /\ AFC2(ref) # << >>
        /\ LastWrite(AFC2(ref), "TRIM_1", AfcTrim1)
        /\ NoWrite(AFC2(ref), "HW_CFG") /\ NoWrite(AFC2(ref), "IFS")
    BY ONLY <2>3, AFC2Plain
  <2>5. TrimWay(todo["ep0"], AfcTrim1)'
    BY <2>2, <2>4 DEF TrimWay
  <2>6. AfcLeft'
    BY <2>1, <2>2, <2>4, <2>5 DEF AfcLeft
  <2> QED
    BY <1>1, <2>2, <2>6 DEF Commanded
<1>6. ASSUME NEW p \in Pokes, RegW(p) PROVE BootPart' /\ HostPart'
  <2>1. /\ Command(<<Write(p.addr, p.val)>>, {}) /\ path' = path
        /\ poked' = poked \cup {p.addr} /\ p.val \in Words
    BY <1>6, RequestAssumption DEF RegW
  <2>2. /\ phase' = "connected" /\ todo'["ep0"] = <<Write(p.addr, p.val)>> /\ settles' = {}
        /\ settles' \subseteq unsettled' /\ Trusted'
    BY <2>1, CommandKeeps
  <2> QED
    BY <1>1, <2>1, <2>2 DEF Commanded, AccessLeft
<1>7. CASE RegR("HW_CFG")
  <2>1. Command(<<Look("HW_CFG")>>, {}) /\ UNCHANGED <<path, poked>> /\ "HW_CFG" \in Addrs
    BY <1>7 DEF RegR, Addrs
  <2>2. /\ phase' = "connected" /\ todo'["ep0"] = <<Look("HW_CFG")>> /\ settles' = {}
        /\ settles' \subseteq unsettled' /\ Trusted'
    BY <2>1, CommandKeeps
  <2> QED
    BY <1>1, <2>1, <2>2 DEF Commanded, AccessLeft
<1> QED
  BY <1>2, <1>3, <1>4, <1>5, <1>6, <1>7 DEF HostCommand

LEMMA ModeNext == ModeInv /\ [Next]_vars => ModeInv'
<1> SUFFICES ASSUME ModeInv, [Next]_vars PROVE ModeInv'
  OBVIOUS
<1>1. UpdateInv /\ BootPart /\ HostPart /\ UpdateInv'
  BY UpdateNext DEF ModeInv
<1>2. Typed /\ "app" \in Threads /\ "ep0" \in Threads
  BY <1>1 DEF UpdateInv, Threads
<1>3. SUFFICES BootPart' /\ HostPart'
  BY <1>1 DEF ModeInv
<1>4. ASSUME UNCHANGED <<phase, path, poked, settles, unsettled, zing_hrcp, todo>>,
             disturbed' \/ (disturbed' = disturbed /\ \A a \in Watched : regs'[a] = regs[a])
      PROVE  BootPart' /\ HostPart'
  <2>1. \A a \in Watched : Frame(a)
    BY <1>4 DEF Frame, Ok
  <2> QED
    BY <1>1, <1>4, <2>1, FrameStep
<1>5. ASSUME NEW c \in Threads, Routine(c) PROVE BootPart' /\ HostPart'
  BY <1>5, RoutineKeeps
<1>6. CASE Connect
  BY <1>6, ConnectKeeps
<1>7. ASSUME NEW a \in Polled, Poll(a) PROVE BootPart' /\ HostPart'
  <2>1. /\ phase = "connected" /\ todo' = [todo EXCEPT !["app"] = <<Look(a)>>]
        /\ UNCHANGED <<regs, disturbed, phase, path, poked, settles, unsettled, zing_hrcp>>
    BY <1>7 DEF Poll, accessVars, stateVars, commandVars, ghostVars
  <2>2. todo'["ep0"] = todo["ep0"]
    BY <1>2, <2>1 DEF Typed
  <2>3. \A b \in Watched : Frame(b)
    BY <2>1 DEF Frame, Ok
  <2> QED
    BY <1>1, <2>1, <2>2, <2>3, FrameStep
<1>8. CASE HostCommand
  BY <1>8, HostKeeps
<1>9. ASSUME NEW p \in UartWrites, UartWrite(p) PROVE BootPart' /\ HostPart'
  <2>1. p \in UartRequests
    BY RequestAssumption
  <2>2. p.addr \in {"RF_CONTROL_0", "PPID"} /\ p.val \in Vals
    BY <2>1, WordType DEF UartRequests, BandWords, Vals, Words
  <2>3. p.addr \in Addrs /\ p.addr \notin Watched /\ Watched \subseteq Addrs
    BY <2>2 DEF Addrs, Watched
  <2>4. UNCHANGED <<phase, path, poked, settles, unsettled, zing_hrcp, todo>>
    BY <1>9 DEF UartWrite, stateVars, commandVars, ghostVars
  <2>5. CASE DoWrite("uart", p.addr, p.val)
    <3>1. disturbed' = disturbed /\ \A b \in Addrs \ {p.addr} : regs'[b] = regs[b]
      BY <1>2, <2>2, <2>3, <2>5, WriteEffect
    <3> QED
      BY <1>4, <2>3, <2>4, <3>1
  <2>6. CASE Disturb
    BY <1>4, <2>4, <2>6 DEF Disturb, File!Disturb
  <2> QED
    BY <1>9, <2>5, <2>6 DEF UartWrite
<1>10. ASSUME NEW n \in Counts, Measure(n) PROVE BootPart' /\ HostPart'
  <2>1. /\ UNCHANGED <<phase, path, poked, settles, unsettled, zing_hrcp, todo, disturbed>>
        /\ regs' = [regs EXCEPT !["PLL_AFC"] = Measured(n)]
    BY <1>10 DEF Measure, File!Write, stateVars, commandVars, ghostVars
  <2>2. \A a \in Watched : regs'[a] = regs[a]
    BY <1>2, <2>1 DEF Typed, Watched, Addrs
  <2> QED
    BY <1>4, <2>1, <2>2
<1>11. CASE Reboot
  <2>1. Init'
    BY <1>11 DEF Reboot, Init
  <2>2. ModeInv'
    BY <2>1, ModeInit, PTL
  <2> QED
    BY <2>2 DEF ModeInv
<1>12. CASE UNCHANGED vars
  BY <1>4, <1>12 DEF vars, accessVars, stateVars, commandVars, ghostVars
<1> QED
  BY <1>5, <1>6, <1>7, <1>8, <1>9, <1>10, <1>11, <1>12 DEF Next

LEMMA ModeAlways == Spec => []ModeInv
BY ModeInit, ModeNext, PTL DEF Spec

\* The role Zing_GetHRCP reports is the one HW_CFG and IFS have, whenever
\* no Zing_SetHRCP is under way or has failed without a later success.
THEOREM RoleHolds == Spec => []RoleAgrees
<1>1. ModeInv => RoleAgrees
  BY DEF ModeInv, HostPart, Trusted, BitIs, IfsIs, Ok, RoleAgrees, Relied
<1> QED
  BY <1>1, ModeAlways, PTL

\* No sequence of commands changes another bit of HW_CFG than Zing_SetHRCP
\* and Zing_Reset are about, and none but Zing_Reset leaves the modem reset.
THEOREM HwCfgHolds == Spec => []HwCfgIntact
<1>1. ModeInv => HwCfgIntact
  BY DEF ModeInv, HostPart, Trusted, CfgOk, InitOk, Ok, HwCfgIntact, Relied
<1> QED
  BY <1>1, ModeAlways, PTL

\* The path bits of TRIM_1 are those of the build, of the last Zing_SetPath
\* or of a later Zing_AFC2, once it has completed.
THEOREM PathHolds == Spec => []PathAsSelected
<1>1. ModeInv => PathAsSelected
  BY DEF ModeInv, HostPart, Trusted, PathIs, Ok, PathAsSelected, Relied
<1> QED
  BY <1>1, ModeAlways, PTL

-----------------------------------------------------------------------------
(* What the search computes, for every word and every sequence of counts.  *)
(* LowHalf is a fold over a set and Select a recursive function: each is   *)
(* chosen by its equation, which must be shown to have a solution before   *)
(* anything is said of it.  Both are inductions, made with UpTo on the set *)
(* of the sizes, or of the counts, up to which the claim holds.            *)

\* One step of the fold that LowHalf is.
Picked(s) == CHOOSE x \in s : TRUE
Summed(g, s) == IF s = {} THEN 0 ELSE Weight[Picked(s) + 1] + g[s \ {Picked(s)}]

\* The low half of a word is a number.
LEMMA LowHalfType == \A w : LowHalf(w) \in Nat
<1> SUFFICES ASSUME NEW w PROVE LowHalf(w) \in Nat
  OBVIOUS
<1> DEFINE S == w \cap 0..15
           D == SUBSET S
           h == CHOOSE g : g = [s \in D |-> Summed(g, s)]
           Upto(n) == {s \in D : Cardinality(s) <= n}
           ran == {n \in Nat : \E g : g = [s \in Upto(n) |-> Summed(g, s)]}
<1>1. LowHalf(w) = h[S]
  BY DEF LowHalf, MapThenSumSet, MapThenFoldSet, Summed, Picked
<1>2. IsFiniteSet(S)
  <2>1. IsFiniteSet(0..15)
    BY 0 \in Int, 15 \in Int, FS_Interval
  <2> QED
    BY <2>1, FS_Subset
<1>3. ASSUME NEW s \in D PROVE IsFiniteSet(s) /\ Cardinality(s) \in Nat /\ Cardinality(s) <= Cardinality(S)
  BY <1>2, FS_Subset, FS_CardinalityType
<1>4. ASSUME NEW s \in D, s # {}
      PROVE  /\ Picked(s) \in s /\ s \ {Picked(s)} \in D /\ Weight[Picked(s) + 1] \in Nat
             /\ Cardinality(s \ {Picked(s)}) = Cardinality(s) - 1
             /\ Cardinality(s) >= 1
  <2>1. Picked(s) \in s
    BY <1>4 DEF Picked
  <2>2. Picked(s) + 1 \in 1..16
    BY <2>1
  <2>3. Weight[Picked(s) + 1] \in Nat
    BY <2>2 DEF Weight
  <2>4. Cardinality(s \ {Picked(s)}) = Cardinality(s) - 1 /\ IsFiniteSet(s \ {Picked(s)})
    BY <1>3, <2>1, FS_RemoveElement
  <2>5. Cardinality(s \ {Picked(s)}) \in Nat
    BY <2>4, FS_CardinalityType
  <2> QED
    BY <1>3, <2>1, <2>3, <2>4, <2>5
<1>5. {} \in D /\ Cardinality({}) = 0 /\ S \in D /\ Cardinality(S) \in Nat
  BY <1>2, FS_EmptySet, FS_CardinalityType
<1>6. \A s \in D : Cardinality(s) <= 0 => s = {}
  <2> SUFFICES ASSUME NEW s \in D, Cardinality(s) <= 0, s # {} PROVE FALSE
    OBVIOUS
  <2>1. Cardinality(s) \in Nat /\ Cardinality(s) >= 1
    BY <1>3, <1>4
  <2> QED
    BY <2>1
<1> HIDE DEF S, D
<1>7. ASSUME NEW n \in Nat, n \in ran PROVE n + 1 \in ran
  <2>1. PICK g : g = [s \in Upto(n) |-> Summed(g, s)]
    BY <1>7
  <2> DEFINE e == [s \in Upto(n + 1) |-> IF s \in Upto(n) THEN g[s] ELSE Summed(g, s)]
  <2>2. ASSUME NEW s \in Upto(n + 1) PROVE e[s] = Summed(e, s)
    <3>1. s \in D /\ (s \notin Upto(n) => s # {})
      BY <1>5
    <3>2. CASE s = {}
      <4>1. s \in Upto(n)
        BY <1>5, <3>2
      <4>2. e[s] = g[s] /\ g[s] = Summed(g, s)
        BY <2>1, <4>1
      <4> QED
        BY <3>2, <4>2 DEF Summed
    <3>3. CASE s # {}
      <4> DEFINE r == s \ {Picked(s)}
      <4>1. r \in D /\ Cardinality(r) = Cardinality(s) - 1 /\ Cardinality(s) \in Nat
        BY <1>3, <1>4, <3>1, <3>3
      <4>2. r \in Upto(n) /\ r \in Upto(n + 1)
        BY <4>1
      <4> HIDE DEF r
      <4>3. e[r] = g[r]
        BY <4>2
      <4>4. Summed(e, s) = Summed(g, s)
        BY <3>3, <4>3 DEF Summed, r
      <4>5. s \in Upto(n) => g[s] = Summed(g, s)
        BY <2>1
      <4> QED
        BY <4>4, <4>5
    <3> QED
      BY <3>2, <3>3
  <2> HIDE DEF Upto
  <2>3. e = [s \in Upto(n + 1) |-> Summed(e, s)]
    BY <2>2
  <2> HIDE DEF e
  <2>4. \E f : f = [s \in Upto(n + 1) |-> Summed(f, s)]
    BY <2>3
  <2>5. n + 1 \in Nat
    OBVIOUS
  <2> QED
    BY <2>4, <2>5
<1>8. 0 \in ran
  <2> DEFINE e == [s \in Upto(0) |-> 0]
  <2>1. \A s \in Upto(0) : s = {}
    BY <1>6
  <2>2. \A s \in Upto(0) : e[s] = Summed(e, s)
    BY <2>1 DEF Summed
  <2>3. e = [s \in Upto(0) |-> Summed(e, s)]
    BY <2>2
  <2> QED
    BY <2>3
<1> DEFINE N == Cardinality(S)
<1>9. N \in Nat /\ Upto(N) = D
  BY <1>3, <1>5
<1>10. N \in ran
  <2> HIDE DEF ran, N
  <2>1. \A k \in 0..N : k \in ran
    BY <1>7, <1>8, <1>9, UpTo
  <2> QED
    BY <1>9, <2>1
<1>11. \E g : g = [s \in D |-> Summed(g, s)]
  <2> HIDE DEF N, Upto
  <2> QED
    BY <1>9, <1>10
<1>12. h = [s \in D |-> Summed(h, s)]
  BY <1>11
<1> HIDE DEF h
<1> DEFINE T == {n \in Nat : \A s \in Upto(n) : h[s] \in Nat}
<1>13. 0 \in T
  <2>1. \A s \in Upto(0) : s = {}
    BY <1>6
  <2>2. h[{}] = 0
    BY <1>5, <1>12 DEF Summed
  <2>3. \A s \in Upto(0) : h[s] \in Nat
    BY <2>1, <2>2
  <2> HIDE DEF Upto
  <2> QED
    BY <2>3
<1>14. ASSUME NEW n \in Nat, n \in T PROVE n + 1 \in T
  <2> SUFFICES ASSUME NEW s \in Upto(n + 1) PROVE h[s] \in Nat
    OBVIOUS
  <2>1. s \in D /\ h[s] = Summed(h, s)
    BY <1>12
  <2>2. CASE s # {}
    <3> DEFINE r == s \ {Picked(s)}
    <3>1. r \in D /\ Cardinality(r) = Cardinality(s) - 1 /\ Cardinality(s) \in Nat
          /\ Weight[Picked(s) + 1] \in Nat
      BY <1>3, <1>4, <2>1, <2>2
    <3>2. r \in Upto(n)
      BY <3>1
    <3>3. h[r] \in Nat
      BY <1>14, <3>2
    <3>4. h[s] = Weight[Picked(s) + 1] + h[r]
      BY <2>1, <2>2 DEF Summed
    <3> QED
      BY <3>1, <3>3, <3>4
  <2> QED
    BY <2>1, <2>2 DEF Summed
<1>15. N \in T
  <2> HIDE DEF T, N
  <2>1. \A k \in 0..N : k \in T
    BY <1>9, <1>13, <1>14, UpTo
  <2> QED
    BY <1>9, <2>1
<1> QED
  BY <1>1, <1>5, <1>9, <1>15

\* Of the first k counts, count i is the nearest one that comes first.
FirstNearest(cnt, ref, i, k) ==
  /\ \A j \in 1..k : Distance(cnt[i], ref) <= Distance(cnt[j], ref)
  /\ \A j \in 1..(i - 1) : Distance(cnt[i], ref) < Distance(cnt[j], ref)

\* The choice the loop makes of the first i counts, sel having its earlier ones.
Choice(sel, cnt, ref, i) ==
  IF i > 1 /\ Distance(cnt[sel[i - 1]], ref) <= Distance(cnt[i], ref) THEN sel[i - 1] ELSE i

IsLoop(sel, cnt, ref, n) == sel = [i \in 1..n |-> Choice(sel, cnt, ref, i)]

\* The loop's function exists: it is defined from each count to the next.
LEMMA LoopExists ==
  ASSUME NEW cnt, NEW ref, NEW n \in Nat
  PROVE  \E sel : IsLoop(sel, cnt, ref, n)
<1> DEFINE ran == {k \in Nat : \E sel : sel = [i \in 1..k |-> Choice(sel, cnt, ref, i)]}
<1>1. 0 \in ran
  <2> DEFINE f == [i \in 1..0 |-> 0]
  <2>1. f = [i \in 1..0 |-> Choice(f, cnt, ref, i)]
    OBVIOUS
  <2> HIDE DEF f
  <2>2. \E sel : sel = [i \in 1..0 |-> Choice(sel, cnt, ref, i)]
    BY <2>1
  <2> QED
    BY <2>2
<1>2. ASSUME NEW k \in Nat, k \in ran PROVE k + 1 \in ran
  <2>1. PICK f : f = [i \in 1..k |-> Choice(f, cnt, ref, i)]
    BY <1>2
  <2> DEFINE g == [i \in 1..(k + 1) |-> IF i <= k THEN f[i] ELSE Choice(f, cnt, ref, i)]
  <2>2. ASSUME NEW i \in 1..(k + 1) PROVE g[i] = Choice(g, cnt, ref, i)
    <3>1. g[i] = Choice(f, cnt, ref, i)
      BY <2>1
    <3>2. i > 1 => g[i - 1] = f[i - 1]
      OBVIOUS
    <3> HIDE DEF g
    <3> QED
      BY <3>1, <3>2 DEF Choice
  <2>3. g = [i \in 1..(k + 1) |-> Choice(g, cnt, ref, i)]
    BY <2>2
  <2> HIDE DEF g
  <2>4. \E sel : sel = [i \in 1..(k + 1) |-> Choice(sel, cnt, ref, i)]
    BY <2>3
  <2> QED
    BY <2>4
<1> HIDE DEF ran
<1>3. \A k \in 0..n : k \in ran
  BY <1>1, <1>2, UpTo
<1> QED
  BY <1>3 DEF ran, IsLoop

\* The loop that chooses selected_idx finds the first of the counts nearest to ref.
LEMMA SelectNearest ==
  ASSUME NEW cnt \in Seq(Nat), Len(cnt) # 0, NEW ref \in Nat
  PROVE  \E i \in 1..Len(cnt) :
           Select(cnt, ref) = i - 1 /\ FirstNearest(cnt, ref, i, Len(cnt))
<1> DEFINE n == Len(cnt)
           sel == CHOOSE f : IsLoop(f, cnt, ref, n)
           d(i) == Distance(cnt[i], ref)
           right == {k \in 1..n : sel[k] \in 1..k /\ FirstNearest(cnt, ref, sel[k], k)}
<1>1. n \in Nat /\ n >= 1
  OBVIOUS
<1>2. Select(cnt, ref) = sel[n] - 1
  BY DEF Select, Choice, IsLoop
<1>3. sel = [i \in 1..n |-> Choice(sel, cnt, ref, i)]
  <2>1. IsLoop(sel, cnt, ref, n)
    BY <1>1, LoopExists
  <2> QED
    BY <2>1 DEF IsLoop
<1> HIDE DEF sel
<1>4. \A i \in 1..n : d(i) \in Nat
  <2>1. \A m \in Nat : Distance(m, ref) \in Nat
    BY DEF Distance
  <2>2. \A i \in 1..n : cnt[i] \in Nat
    OBVIOUS
  <2> QED
    BY <2>1, <2>2
<1> HIDE DEF n
<1>5. 1 \in right
  <2>1. sel[1] = 1
    BY <1>1, <1>3 DEF Choice
  <2>2. FirstNearest(cnt, ref, 1, 1)
    BY <1>1, <1>4 DEF FirstNearest
  <2> QED
    BY <1>1, <2>1, <2>2
<1>6. ASSUME NEW k \in 1..n - 1, k \in right PROVE k + 1 \in right
  <2>1. /\ sel[k] \in 1..k /\ k + 1 \in 1..n
        /\ \A j \in 1..k : d(sel[k]) <= d(j)
        /\ \A j \in 1..(sel[k] - 1) : d(sel[k]) < d(j)
    BY <1>1, <1>6 DEF FirstNearest
  <2>2. sel[k + 1] = IF d(sel[k]) <= d(k + 1) THEN sel[k] ELSE k + 1
    <3>1. \A i \in 1..n : sel[i] = Choice(sel, cnt, ref, i)
      BY <1>3
    <3>2. sel[k + 1] = Choice(sel, cnt, ref, k + 1) /\ k + 1 > 1 /\ (k + 1) - 1 = k
      BY <2>1, <3>1
    <3> QED
      BY <3>2 DEF Choice
  <2>3. d(k + 1) \in Nat /\ \A j \in 1..k : d(j) \in Nat
    BY <1>1, <1>4, <2>1
  <2> HIDE DEF d
  <2>4. CASE d(sel[k]) <= d(k + 1)
    <3>1. sel[k + 1] = sel[k] /\ sel[k + 1] \in 1..(k + 1)
      BY <2>1, <2>2, <2>4
    <3>2. \A j \in 1..(k + 1) : d(sel[k]) <= d(j)
      BY <2>1, <2>4
    <3> QED
      BY <2>1, <3>1, <3>2 DEF FirstNearest, d
  <2>5. CASE ~(d(sel[k]) <= d(k + 1))
    <3>1. sel[k + 1] = k + 1 /\ sel[k + 1] \in 1..(k + 1)
      BY <2>1, <2>2, <2>5
    <3>2. \A j \in 1..k : d(k + 1) < d(j)
      BY <2>1, <2>3, <2>5
    <3>3. \A j \in 1..(k + 1) : d(k + 1) <= d(j)
      BY <2>1, <2>3, <3>2
    <3> QED
      BY <2>1, <3>1, <3>2, <3>3 DEF FirstNearest, d
  <2> QED
    BY <2>4, <2>5
<1> HIDE DEF right
<1>7. \A k \in 1..n : k \in right
  BY <1>1, <1>5, <1>6, UpTo
<1>8. n \in right
  BY <1>1, <1>7
<1> QED
  BY <1>1, <1>2, <1>8 DEF right, n
-----------------------------------------------------------------------------
(* The search.  Zing_AFC2 takes AfcN counts, four accesses apart, and tunes *)
(* six accesses after the last.                                            *)

Refs == RefCounts \cup {BootRef}
Tried == 0..(AfcN - 1)

\* Count m of a search is access CountAt(b, m) of what remains of it, or has
\* been taken if that is not positive.
CountAt(b, m) == b + 4 * m
TuneAt(b) == CountAt(b, AfcN) + 2

Search(s, b, ref) ==
  /\ \A m \in Tried : CountAt(b, m) >= 1 =>
       CountAt(b, m) \in DOMAIN s /\ s[CountAt(b, m)].op = "count" /\ s[CountAt(b, m)].n = m
  /\ TuneAt(b) >= 1 =>
       TuneAt(b) \in DOMAIN s /\ s[TuneAt(b)].op = "tune" /\ s[TuneAt(b)].n = ref
  /\ \A i \in DOMAIN s :
       /\ s[i].op = "count" => \E m \in Tried : i = CountAt(b, m)
       /\ s[i].op = "tune" => i = TuneAt(b)
       /\ i > TuneAt(b) => ~Writes(s[i], "TRIM_2")

\* The counts the search has taken so far.
Progress(b) ==
  \A m \in 1..AfcN :
    CountAt(b, m - 1) <= 0 /\ (m = AfcN \/ CountAt(b, m) >= 1) => Len(counts) = m

\* TRIM_2 has the setting whose count is the first of the nearest to the
\* reference of this search.
Chosen ==
  Ok("TRIM_2") =>
    \E i \in 1..AfcN :
      regs["TRIM_2"] = Tuned(i - 1) /\ FirstNearest(counts, sought, i, AfcN)

Searching(s) ==
  \E b \in Int :
    Search(s, b, sought) /\ Progress(b) /\ (TuneAt(b) <= 0 => Chosen)

\* A routine that neither measures nor tunes.
Calm(s) == \A i \in DOMAIN s : s[i].op \notin {"count", "tune"}
Apart(s) == Calm(s) /\ (NoWrite(s, "TRIM_2") \/ "TRIM_2" \in poked)

AfcInv ==
  /\ counts \in Seq(Nat) /\ Len(counts) <= AfcN
  /\ sought \in Refs
  /\ phase = "boot" => Searching(todo["app"])
  /\ phase = "hung" => todo["app"] = << >>
  /\ phase = "connected" =>
       IF "afc" \in settles THEN Searching(todo["ep0"])
       ELSE Apart(todo["ep0"]) /\ ("afc" \notin unsettled => Chosen)

LEMMA AfcNType == AfcN \in Nat /\ AfcN >= 1
BY AfcAssumption

\* What remains of a search after an access.
LEMMA SearchTail ==
  ASSUME NEW s \in Seq(Accesses), s # << >>, NEW b \in Int, NEW ref, Search(s, b, ref)
  PROVE  Search(Tail(s), b - 1, ref)
<1> DEFINE n == Len(s)
           t == Tail(s)
<1>1. /\ n \in Nat /\ n >= 1 /\ DOMAIN s = 1..n /\ DOMAIN t = 1..(n - 1)
      /\ \A i \in 1..(n - 1) : t[i] = s[i + 1]
  OBVIOUS
<1>2. TuneAt(b) \in Int /\ TuneAt(b - 1) = TuneAt(b) - 1
  BY AfcNType DEF TuneAt, CountAt
<1>3. \A m \in Tried : CountAt(b, m) \in Int /\ CountAt(b - 1, m) = CountAt(b, m) - 1
  BY AfcNType DEF Tried, CountAt
<1> HIDE DEF n, t
<1>4. ASSUME NEW m \in Tried, CountAt(b - 1, m) >= 1
      PROVE  /\ CountAt(b - 1, m) \in DOMAIN t
             /\ t[CountAt(b - 1, m)].op = "count" /\ t[CountAt(b - 1, m)].n = m
  <2>1. CountAt(b, m) \in DOMAIN s /\ s[CountAt(b, m)].op = "count" /\ s[CountAt(b, m)].n = m
    BY <1>3, <1>4 DEF Search
  <2>2. CountAt(b - 1, m) \in 1..(n - 1) /\ CountAt(b - 1, m) + 1 = CountAt(b, m)
    BY <1>1, <1>3, <1>4, <2>1
  <2> QED
    BY <1>1, <2>1, <2>2
<1>5. ASSUME TuneAt(b - 1) >= 1
      PROVE  /\ TuneAt(b - 1) \in DOMAIN t
             /\ t[TuneAt(b - 1)].op = "tune" /\ t[TuneAt(b - 1)].n = ref
  <2>1. TuneAt(b) \in DOMAIN s /\ s[TuneAt(b)].op = "tune" /\ s[TuneAt(b)].n = ref
    BY <1>2, <1>5 DEF Search
  <2>2. TuneAt(b - 1) \in 1..(n - 1) /\ TuneAt(b - 1) + 1 = TuneAt(b)
    BY <1>1, <1>2, <1>5, <2>1
  <2> QED
    BY <1>1, <2>1, <2>2
<1>6. ASSUME NEW i \in DOMAIN t
      PROVE  /\ t[i].op = "count" => \E m \in Tried : i = CountAt(b - 1, m)
             /\ t[i].op = "tune" => i = TuneAt(b - 1)
             /\ i > TuneAt(b - 1) => ~Writes(t[i], "TRIM_2")
  <2>1. i \in Int /\ i + 1 \in DOMAIN s /\ t[i] = s[i + 1]
    BY <1>1, <1>6
  <2>2. /\ s[i + 1].op = "count" => \E m \in Tried : i + 1 = CountAt(b, m)
        /\ s[i + 1].op = "tune" => i + 1 = TuneAt(b)
        /\ i + 1 > TuneAt(b) => ~Writes(s[i + 1], "TRIM_2")
    BY <2>1 DEF Search
  <2>3. \A m \in Tried : i + 1 = CountAt(b, m) => i = CountAt(b - 1, m)
    BY <1>3, <2>1
  <2>4. (i + 1 = TuneAt(b) => i = TuneAt(b - 1)) /\ (i > TuneAt(b - 1) => i + 1 > TuneAt(b))
    BY <1>2, <2>1
  <2> QED
    BY ONLY <2>1, <2>2, <2>3, <2>4
<1> QED
  BY <1>4, <1>5, <1>6 DEF Search, t

\* A search that other accesses come before.
LEMMA SearchAfter ==
  ASSUME NEW p \in Seq(Accesses), NEW s \in Seq(Accesses), NEW b \in Nat \ {0}, NEW ref,
         Calm(p), Search(s, b, ref)
  PROVE  Search(p \o s, b + Len(p), ref)
<1> DEFINE n == Len(s)
           k == Len(p)
           t == p \o s
<1>1. /\ n \in Nat /\ k \in Nat /\ DOMAIN s = 1..n /\ DOMAIN p = 1..k /\ DOMAIN t = 1..(k + n)
      /\ \A i \in 1..k : t[i] = p[i]
      /\ \A i \in 1..n : t[k + i] = s[i]
  OBVIOUS
<1>2. TuneAt(b) \in Int /\ TuneAt(b) >= 1 /\ TuneAt(b + k) = TuneAt(b) + k
  BY AfcNType, <1>1 DEF TuneAt, CountAt
<1>3. \A m \in Tried : CountAt(b, m) \in Int /\ CountAt(b, m) >= 1 /\ CountAt(b + k, m) = CountAt(b, m) + k
  BY AfcNType, <1>1 DEF Tried, CountAt
<1> HIDE DEF n, t, k
<1>4. ASSUME NEW m \in Tried
      PROVE  /\ CountAt(b + k, m) \in DOMAIN t
             /\ t[CountAt(b + k, m)].op = "count" /\ t[CountAt(b + k, m)].n = m
  <2>1. CountAt(b, m) \in DOMAIN s /\ s[CountAt(b, m)].op = "count" /\ s[CountAt(b, m)].n = m
    BY <1>3 DEF Search
  <2> QED
    BY <1>1, <1>3, <2>1
<1>5. TuneAt(b + k) \in DOMAIN t /\ t[TuneAt(b + k)].op = "tune" /\ t[TuneAt(b + k)].n = ref
  <2>1. TuneAt(b) \in DOMAIN s /\ s[TuneAt(b)].op = "tune" /\ s[TuneAt(b)].n = ref
    BY <1>2 DEF Search
  <2> QED
    BY <1>1, <1>2, <2>1
<1>6. ASSUME NEW i \in DOMAIN t
      PROVE  /\ t[i].op = "count" => \E m \in Tried : i = CountAt(b + k, m)
             /\ t[i].op = "tune" => i = TuneAt(b + k)
             /\ i > TuneAt(b + k) => ~Writes(t[i], "TRIM_2")
  <2>1. CASE i \in 1..k
    <3>1. t[i].op \notin {"count", "tune"}
      BY <1>1, <2>1 DEF Calm
    <3>2. ~(i > TuneAt(b + k))
      BY <1>1, <1>2, <2>1
    <3> QED
      BY <3>1, <3>2
  <2>2. CASE i \notin 1..k
    <3>1. PICK j \in 1..n : i = k + j
      <4>1. i - k \in 1..n /\ i = k + (i - k)
        BY <1>1, <1>6, <2>2
      <4> QED
        BY <4>1
    <3>2. /\ s[j].op = "count" => \E m \in Tried : j = CountAt(b, m)
          /\ s[j].op = "tune" => j = TuneAt(b)
          /\ j > TuneAt(b) => ~Writes(s[j], "TRIM_2")
      BY <1>1 DEF Search
    <3>3. \A m \in Tried : j = CountAt(b, m) => i = CountAt(b + k, m)
      BY <1>1, <1>3, <3>1
    <3>4. (j = TuneAt(b) => i = TuneAt(b + k)) /\ (i > TuneAt(b + k) => j > TuneAt(b))
      <4>1. k \in Nat /\ j \in Int
        BY <1>1
      <4> QED
        BY ONLY <1>2, <3>1, <4>1
    <3>5. t[i] = s[j]
      BY <1>1, <3>1
    <3> QED
      BY ONLY <3>2, <3>3, <3>4, <3>5
  <2> QED
    BY <2>1, <2>2
<1> QED
  BY <1>4, <1>5, <1>6 DEF Search, t, k

\* A search that other accesses come after.
LEMMA SearchBefore ==
  ASSUME NEW s \in Seq(Accesses), NEW q \in Seq(Accesses), NEW b \in Nat \ {0}, NEW ref,
         Calm(q), NoWrite(q, "TRIM_2"), Search(s, b, ref)
  PROVE  Search(s \o q, b, ref)
<1> DEFINE n == Len(s)
           t == s \o q
<1>1. /\ n \in Nat /\ Len(q) \in Nat /\ DOMAIN s = 1..n /\ DOMAIN t = 1..(n + Len(q))
      /\ DOMAIN q = 1..Len(q)
      /\ \A i \in 1..n : t[i] = s[i]
      /\ \A i \in 1..Len(q) : t[n + i] = q[i]
  OBVIOUS
<1>2. DOMAIN s \subseteq DOMAIN t
  BY <1>1
<1> HIDE DEF n, t
<1>3. ASSUME NEW m \in Tried, CountAt(b, m) >= 1
      PROVE  /\ CountAt(b, m) \in DOMAIN t
             /\ t[CountAt(b, m)].op = "count" /\ t[CountAt(b, m)].n = m
  <2>1. CountAt(b, m) \in DOMAIN s /\ s[CountAt(b, m)].op = "count" /\ s[CountAt(b, m)].n = m
    BY <1>3 DEF Search
  <2> QED
    BY <1>1, <1>2, <2>1
<1>4. ASSUME TuneAt(b) >= 1
      PROVE  TuneAt(b) \in DOMAIN t /\ t[TuneAt(b)].op = "tune" /\ t[TuneAt(b)].n = ref
  <2>1. TuneAt(b) \in DOMAIN s /\ s[TuneAt(b)].op = "tune" /\ s[TuneAt(b)].n = ref
    BY <1>4 DEF Search
  <2> QED
    BY <1>1, <1>2, <2>1
<1>5. ASSUME NEW i \in DOMAIN t
      PROVE  /\ t[i].op = "count" => \E m \in Tried : i = CountAt(b, m)
             /\ t[i].op = "tune" => i = TuneAt(b)
             /\ i > TuneAt(b) => ~Writes(t[i], "TRIM_2")
  <2>1. CASE i \in 1..n
    <3>1. t[i] = s[i] /\ i \in DOMAIN s
      BY <1>1, <2>1
    <3> QED
      BY <3>1 DEF Search
  <2>2. CASE i \notin 1..n
    <3>1. i - n \in DOMAIN q /\ t[i] = q[i - n]
      <4>1. i - n \in 1..Len(q) /\ i = n + (i - n)
        BY <1>1, <1>5, <2>2
      <4> QED
        BY <1>1, <4>1
    <3> QED
      BY <3>1 DEF Calm, NoWrite
  <2> QED
    BY <2>1, <2>2
<1> QED
  BY <1>3, <1>4, <1>5 DEF Search, t

LEMMA ConcatParts ==
  ASSUME NEW s \in Seq(Accesses), NEW t \in Seq(Accesses)
  PROVE  /\ s \o t \in Seq(Accesses) /\ Len(s) \in Nat /\ Len(t) \in Nat
         /\ Len(s \o t) = Len(s) + Len(t) /\ DOMAIN (s \o t) = 1..(Len(s) + Len(t))
         /\ \A i \in 1..Len(s) : (s \o t)[i] = s[i]
         /\ \A i \in 1..Len(t) : (s \o t)[Len(s) + i] = t[i]
OBVIOUS

LEMMA CalmConcat ==
  ASSUME NEW s \in Seq(Accesses), NEW t \in Seq(Accesses), Calm(s), Calm(t)
  PROVE  Calm(s \o t)
<1> SUFFICES ASSUME NEW i \in DOMAIN (s \o t) PROVE (s \o t)[i].op \notin {"count", "tune"}
  BY DEF Calm
<1>1. CASE i <= Len(s)
  <2>1. i \in DOMAIN s /\ (s \o t)[i] = s[i]
    BY <1>1
  <2> QED
    BY <2>1 DEF Calm
<1>2. CASE i > Len(s)
  <2>1. (s \o t)[i] = t[i - Len(s)] /\ i - Len(s) \in DOMAIN t
    BY <1>2
  <2> QED
    BY <2>1 DEF Calm
<1> QED
  BY <1>1, <1>2

\* The last access of a try is its count.
LEMMA TryCounts ==
  \A m \in Nat :
    /\ Try(m)[4].op = "count" /\ Try(m)[4].n = m
    /\ \A i \in 1..3 : Try(m)[i].op = "write"
<1> SUFFICES ASSUME NEW m \in Nat
             PROVE  /\ Try(m)[4].op = "count" /\ Try(m)[4].n = m
                    /\ \A i \in 1..3 : Try(m)[i].op = "write"
  OBVIOUS
<1>1. /\ Try(m)[1] = Write("TRIM_2", Trying(m)) /\ Try(m)[2] = Write("PLL_AFC", {})
      /\ Try(m)[3] = Write("PLL_AFC", AfcOn) /\ Try(m)[4] = Access("count", "PLL_AFC", {}, {}, m)
  BY DEF Try
<1>2. \A a, w : Write(a, w).op = "write"
  BY DEF Write, Access
<1> QED
  BY <1>1, <1>2 DEF Access

\* Count m of the tries is their access 4 * m + 4, and every other is a write.
LEMMA TriesCounts ==
  /\ Tries \in Seq(Accesses) /\ DOMAIN Tries = 1..(4 * AfcN) /\ Len(Tries) = 4 * AfcN
  /\ \A m \in Tried : Tries[4 * m + 4].op = "count" /\ Tries[4 * m + 4].n = m
  /\ \A k \in 1..(4 * AfcN) :
       /\ Tries[k].op \in {"write", "count"}
       /\ Tries[k].op = "count" => \E m \in Tried : k = 4 * m + 4
<1>1. AfcN \in Nat /\ Tries \in Seq(Accesses) /\ DOMAIN Tries = 1..(4 * AfcN)
  BY AfcNType, TriesPlain DEF Tries, Plain
<1>2. Len(Tries) = 4 * AfcN
  BY <1>1
<1>3. \A k \in 1..(4 * AfcN) : Tries[k] = Try((k - 1) \div 4)[((k - 1) % 4) + 1]
  BY DEF Tries
<1>4. ASSUME NEW m \in Tried
      PROVE  Tries[4 * m + 4].op = "count" /\ Tries[4 * m + 4].n = m
  <2>1. m \in Nat /\ 4 * m + 4 \in 1..(4 * AfcN)
    BY <1>1 DEF Tried
  <2>2. ((4 * m + 4) - 1) \div 4 = m /\ (((4 * m + 4) - 1) % 4) + 1 = 4
    BY <2>1
  <2>3. Tries[4 * m + 4] = Try(m)[4]
    BY <1>3, <2>1, <2>2
  <2> QED
    BY <2>1, <2>3, TryCounts
<1>5. ASSUME NEW k \in 1..(4 * AfcN)
      PROVE  /\ Tries[k].op \in {"write", "count"}
             /\ Tries[k].op = "count" => \E m \in Tried : k = 4 * m + 4
  <2> DEFINE m == (k - 1) \div 4
             i == ((k - 1) % 4) + 1
  <2>1. k \in Nat /\ k >= 1 /\ k <= 4 * AfcN
    BY <1>1
  <2>2. m \in Nat /\ i \in 1..4 /\ k = 4 * m + i /\ m < AfcN
    BY ONLY <1>1, <2>1
  <2>3. Tries[k] = Try(m)[i]
    BY <1>3
  <2> HIDE DEF m, i
  <2>4. CASE i = 4
    <3>1. m \in Tried /\ k = 4 * m + 4
      BY <1>1, <2>2, <2>4 DEF Tried
    <3>2. Tries[k].op = "count"
      BY <2>2, <2>3, <2>4, TryCounts
    <3> QED
      BY <3>1, <3>2
  <2>5. CASE i \in 1..3
    BY <2>2, <2>3, <2>5, TryCounts
  <2> QED
    BY <2>2, <2>4, <2>5
<1> QED
  BY <1>1, <1>2, <1>4, <1>5

LEMMA AccessOps ==
  /\ \A a, w : Write(a, w).op = "write" /\ Write(a, w).addr = a
  /\ \A a : Look(a).op = "look" /\ Read(a).op = "read"
  /\ \A a, clear, set : Modify(a, clear, set).op = "modify"
  /\ \A role : SetRole(role).op = "role"
BY DEF Write, Look, Read, Modify, SetRole, Access

LEMMA Trim3Calm == Calm(Trim3) /\ NoWrite(Trim3, "TRIM_2")
<1>1. NoWrite(Trim3, "TRIM_2")
  BY Trim3Plain DEF Addrs
<1>2. Calm(Trim3)
  BY AccessOps DEF Trim3, Calm
<1> QED
  BY <1>1, <1>2

\* Zing_AFC2 searches: its first count is the seventh access.
LEMMA AFC2Search == \A ref \in Nat : Search(AFC2(ref), 7, ref) /\ AFC2(ref) \in Seq(Accesses)
<1> SUFFICES ASSUME NEW ref \in Nat PROVE Search(AFC2(ref), 7, ref) /\ AFC2(ref) \in Seq(Accesses)
  OBVIOUS
<1> DEFINE t == Access("tune", "TRIM_2", {}, {}, ref)
           first == <<Write("TRIM_1", Word(0, \h1F)), Write("TRIM_4", Word(0, \h88)),
                      Write("TRIM_2", Word(\h1221, \h809B))>>
           rest == <<Write("TEST_PATTERN", {}), Write("TRIM_1", {3}), Write("TEST_CONFIG", {0}),
                     Write("TRIM_1", AfcTrim1), Write("TRIM_4", Word(\hFF88, \h8888)),
                     t, Look("TRIM_2")>>
           v == (first \o Tries) \o rest
           n == 4 * AfcN
<1>1. AFC2(ref) = v \o Trim3
  BY DEF AFC2, Tune
<1>2. first \in Seq(Accesses) /\ Len(first) = 3
  BY ONLY AccessFacts DEF Addrs
<1>3. \A i \in 1..3 : first[i].op = "write"
  BY ONLY AccessFacts DEF Addrs
<1>4. t \in Accesses /\ t.op = "tune" /\ t.n = ref
  BY DEF Access, Accesses, Words, Addrs
<1>5. rest \in Seq(Accesses) /\ Len(rest) = 7
  <2> HIDE DEF t
  <2> QED
    BY ONLY AccessFacts, <1>4 DEF Addrs
<1>6. /\ \A i \in 1..5 : rest[i].op = "write"
      /\ rest[6] = t /\ rest[7].op = "look"
  <2> HIDE DEF t
  <2> QED
    BY ONLY AccessFacts, <1>4 DEF Addrs
<1> HIDE DEF rest, first, t
<1>7. n \in Nat /\ AfcN \in Nat
  BY AfcNType
<1>8. /\ Tries \in Seq(Accesses) /\ Len(Tries) = n
      /\ first \o Tries \in Seq(Accesses) /\ Len(first \o Tries) = n + 3
  <2>1. Tries \in Seq(Accesses) /\ Len(Tries) = n
    BY TriesCounts
  <2>2. first \o Tries \in Seq(Accesses) /\ Len(first \o Tries) = Len(first) + Len(Tries)
    BY ONLY <1>2, <2>1, ConcatParts
  <2> HIDE DEF n
  <2> QED
    BY ONLY <1>2, <1>7, <2>1, <2>2
<1>9. v \in Seq(Accesses) /\ Len(v) = n + 10 /\ DOMAIN v = 1..(n + 10)
  <2> DEFINE u == first \o Tries
  <2> HIDE DEF n, u
  <2>1. u \in Seq(Accesses) /\ Len(u) = n + 3
    BY <1>8 DEF u
  <2>2. /\ u \o rest \in Seq(Accesses) /\ Len(u \o rest) = Len(u) + Len(rest)
        /\ DOMAIN (u \o rest) = 1..(Len(u) + Len(rest))
    BY ONLY <1>5, <2>1, ConcatParts
  <2>3. (n + 3) + 7 = n + 10
    BY ONLY <1>7
  <2> QED
    BY ONLY <1>5, <2>1, <2>2, <2>3 DEF u, v
<1>10. /\ \A i \in 1..3 : v[i] = first[i]
       /\ \A i \in 1..n : v[3 + i] = Tries[i]
       /\ \A i \in 1..7 : v[n + 3 + i] = rest[i]
  <2> DEFINE u == first \o Tries
  <2>1. (\A i \in 1..3 : u[i] = first[i]) /\ (\A i \in 1..n : u[3 + i] = Tries[i])
    BY <1>2, <1>8
  <2>2. u \in Seq(Accesses) /\ Len(u) = n + 3
    BY <1>8
  <2> HIDE DEF u, n
  <2>3. (\A i \in 1..(n + 3) : (u \o rest)[i] = u[i]) /\ (\A i \in 1..7 : (u \o rest)[n + 3 + i] = rest[i])
    BY ONLY <1>5, <1>7, <2>2, ConcatParts
  <2>4. (\A i \in 1..3 : i \in 1..(n + 3)) /\ (\A i \in 1..n : 3 + i \in 1..(n + 3))
    BY <1>7
  <2> QED
    BY <2>1, <2>3, <2>4 DEF u
<1> HIDE DEF v
<1>11. TuneAt(7) = n + 9 /\ \A m \in Tried : CountAt(7, m) = 3 + (4 * m + 4) /\ 4 * m + 4 \in 1..n
  BY <1>7 DEF TuneAt, CountAt, Tried
<1>12. Search(v, 7, ref)
  <2>1. ASSUME NEW m \in Tried
        PROVE  CountAt(7, m) \in DOMAIN v /\ v[CountAt(7, m)].op = "count" /\ v[CountAt(7, m)].n = m
    <3>1. v[CountAt(7, m)] = Tries[4 * m + 4]
      BY <1>10, <1>11
    <3>2. CountAt(7, m) \in 1..(n + 10)
      BY <1>7, <1>11
    <3> QED
      BY <1>9, <3>1, <3>2, TriesCounts
  <2>2. TuneAt(7) \in DOMAIN v /\ v[TuneAt(7)].op = "tune" /\ v[TuneAt(7)].n = ref
    <3>1. n + 9 = n + 3 + 6 /\ n + 9 \in 1..(n + 10)
      BY <1>7
    <3>2. v[n + 9] = t
      BY <1>6, <1>10, <3>1
    <3> QED
      BY <1>4, <1>9, <1>11, <3>1, <3>2
  <2>3. ASSUME NEW i \in DOMAIN v
        PROVE  /\ v[i].op = "count" => \E m \in Tried : i = CountAt(7, m)
               /\ v[i].op = "tune" => i = TuneAt(7)
               /\ i > TuneAt(7) => ~Writes(v[i], "TRIM_2")
    <3>1. CASE i \in 1..3
      BY <1>3, <1>7, <1>10, <1>11, <3>1
    <3>2. CASE i \in 4..(n + 3)
      <4>1. i - 3 \in 1..n /\ 3 + (i - 3) = i /\ ~(i > n + 9)
        BY <1>7, <3>2
      <4>2. v[i] = Tries[i - 3]
        BY <1>10, <4>1
      <4>3. /\ Tries[i - 3].op \in {"write", "count"}
            /\ Tries[i - 3].op = "count" => \E m \in Tried : i - 3 = 4 * m + 4
        BY <4>1, TriesCounts
      <4>4. \A m \in Tried : i - 3 = 4 * m + 4 => i = CountAt(7, m)
        BY <1>11, <4>1
      <4> QED
        BY <1>11, <4>1, <4>2, <4>3, <4>4
    <3>3. CASE i \in (n + 4)..(n + 10)
      <4>1. PICK j \in 1..7 : i = n + 3 + j
        <5>1. i - (n + 3) \in 1..7 /\ i = n + 3 + (i - (n + 3))
          BY <1>7, <3>3
        <5> QED
          BY <5>1
      <4>2. v[i] = rest[j]
        BY <1>10, <4>1
      <4>3. (j = 6 => i = TuneAt(7)) /\ (i > TuneAt(7) => j = 7)
        BY <1>7, <1>11, <4>1
      <4>4. /\ rest[j].op # "count"
            /\ rest[j].op = "tune" => j = 6
            /\ j = 7 => ~Writes(rest[j], "TRIM_2")
        BY <1>4, <1>6 DEF Writes
      <4> QED
        BY <4>2, <4>3, <4>4
    <3>4. i \in 1..3 \/ i \in 4..(n + 3) \/ i \in (n + 4)..(n + 10)
      BY <1>7, <1>9
    <3> QED
      BY <3>1, <3>2, <3>3, <3>4
  <2> QED
    BY <2>1, <2>2, <2>3 DEF Search
<1>13. Trim3 \in Seq(Accesses) /\ Calm(Trim3) /\ NoWrite(Trim3, "TRIM_2")
  BY Trim3Plain, Trim3Calm DEF Plain
<1>14. Search(v \o Trim3, 7, ref)
  BY <1>9, <1>12, <1>13, SearchBefore
<1> QED
  BY <1>1, <1>9, <1>13, <1>14

\* What Zing_Init does before its search neither measures nor tunes.
LEMMA RfSerdesCalm == Calm(RfSerdes) /\ RfSerdes \in Seq(Accesses)
<1> DEFINE p == Access("pll", "PLL", {}, {}, 0)
           zeroed == <<"TEST_PATTERN", "RF_RX_CONTROL_0", "RF_RX_CONTROL_1",
                       "RF_TX_CONTROL_0", "TRIM_1", "TRIM_2">>
           rest == <<Write("RF_CONTROL_1", Word(1, \hDFFF)),
                     Write("RF_CONTROL_0", Word(\hFE, \h011F)),
                     Write("RF_RX_CONTROL_0", Word(\hA, \hA666)),
                     Write("RF_RX_CONTROL_1", Word(3, \hFF59)),
                     Write("RF_TX_CONTROL_0", Word(0, \hEF)),
                     Write("TEST_PATTERN", {}), Look("TEST_PATTERN"),
                     Write("TRIM_1", {3}), Look("TRIM_1"),
                     Write("TEST_CONFIG", {0}), Look("TEST_CONFIG"),
                     Write("TRIM_1", AfcTrim1), Look("TRIM_1"),
                     Write("TRIM_4", Word(\hFF88, \h8888)),
                     Write("TRIM_2", Word(\h9224, \hF0F5))>>
<1>1. RfSerdes = ((<<p>> \o Zero(zeroed)) \o rest) \o Trim3
  BY DEF RfSerdes
<1>2. <<p>> \in Seq(Accesses) /\ Calm(<<p>>)
  <2>1. p \in Accesses /\ p.op = "pll"
    BY DEF Access, Accesses, Words
  <2> HIDE DEF p
  <2> QED
    BY <2>1 DEF Calm
<1>3. Zero(zeroed) \in Seq(Accesses) /\ Calm(Zero(zeroed))
  <2>1. Len(zeroed) = 6 /\ \A i \in 1..6 : zeroed[i] \in Addrs
    BY DEF Addrs
  <2>2. Zero(zeroed) = [i \in 1..6 |-> Write(zeroed[i], {})]
    BY <2>1 DEF Zero
  <2>3. \A i \in 1..6 : Write(zeroed[i], {}) \in Accesses /\ Write(zeroed[i], {}).op = "write"
    BY <2>1, AccessFacts
  <2> HIDE DEF zeroed
  <2>4. Zero(zeroed) \in Seq(Accesses) /\ DOMAIN Zero(zeroed) = 1..6
    BY <2>2, <2>3
  <2> QED
    BY <2>2, <2>3, <2>4 DEF Calm
<1>4. rest \in Seq(Accesses) /\ Calm(rest)
  <2>1. rest \in Seq(Accesses) /\ Len(rest) = 15
    BY ONLY AccessFacts DEF Addrs
  <2>2. \A i \in 1..15 : rest[i].op \in {"write", "look"}
    BY ONLY SMTT(30), AccessOps
  <2> HIDE DEF rest
  <2> QED
    BY <2>1, <2>2 DEF Calm
<1>5. Trim3 \in Seq(Accesses) /\ Calm(Trim3)
  BY Trim3Plain, Trim3Calm DEF Plain
<1> HIDE DEF p, zeroed, rest
<1>6. <<p>> \o Zero(zeroed) \in Seq(Accesses) /\ Calm(<<p>> \o Zero(zeroed))
  BY ONLY <1>2, <1>3, CalmConcat, ConcatParts
<1>7. /\ (<<p>> \o Zero(zeroed)) \o rest \in Seq(Accesses)
      /\ Calm((<<p>> \o Zero(zeroed)) \o rest)
  BY ONLY <1>4, <1>6, CalmConcat, ConcatParts
<1> QED
  BY ONLY <1>1, <1>5, <1>7, CalmConcat, ConcatParts

\* Nor does what it does after, which leaves TRIM_2 as it is.
LEMMA ModemCalm == Modem \in Seq(Accesses) /\ Calm(Modem) /\ NoWrite(Modem, "TRIM_2")
<1>1. Modem \in Seq(Accesses)
  BY ModemPlain DEF Plain
<1>2. DOMAIN Modem = 1..15
  BY DEF Modem
<1>3. \A i \in 1..15 : Modem[i].op \in {"write", "look"}
  BY ONLY SMTT(30), AccessOps DEF Modem
<1>4. \A i \in 1..15 : ~Writes(Modem[i], "TRIM_2")
  BY ONLY SMTT(30), AccessOps DEF Modem, Writes
<1> QED
  BY <1>1, <1>2, <1>3, <1>4 DEF Calm, NoWrite

\* Zing_SetHRCP, Zing_SetPath, Zing_Reset and a single look neither measure nor tune.
LEMMA RoutinesCalm ==
  /\ \A role : Calm(SetHRCP(role)) /\ NoWrite(SetHRCP(role), "TRIM_2")
  /\ \A p : Calm(SetPath(p)) /\ NoWrite(SetPath(p), "TRIM_2")
  /\ Calm(Reset) /\ NoWrite(Reset, "TRIM_2")
  /\ \A a : Calm(<<Look(a)>>) /\ NoWrite(<<Look(a)>>, "TRIM_2")
  /\ \A a, w : Calm(<<Write(a, w)>>) /\ (a # "TRIM_2" => NoWrite(<<Write(a, w)>>, "TRIM_2"))
  /\ Calm(<< >>) /\ NoWrite(<< >>, "TRIM_2")
<1>1. \A role : Calm(SetHRCP(role)) /\ NoWrite(SetHRCP(role), "TRIM_2")
  <2> SUFFICES ASSUME NEW role PROVE Calm(SetHRCP(role)) /\ NoWrite(SetHRCP(role), "TRIM_2")
    OBVIOUS
  <2>1. DOMAIN SetHRCP(role) = 1..4
    BY DEF SetHRCP
  <2>2. \A i \in 1..4 : /\ SetHRCP(role)[i].op \in {"read", "modify", "write", "role"}
                        /\ ~Writes(SetHRCP(role)[i], "TRIM_2")
    BY ONLY AccessOps DEF SetHRCP, Writes
  <2> QED
    BY <2>1, <2>2 DEF Calm, NoWrite
<1>2. \A p : Calm(SetPath(p)) /\ NoWrite(SetPath(p), "TRIM_2")
  BY AccessOps DEF SetPath, Calm, NoWrite, Writes
<1>3. Calm(Reset) /\ NoWrite(Reset, "TRIM_2")
  BY AccessOps DEF Reset, Calm, NoWrite, Writes
<1>4. \A a : Calm(<<Look(a)>>) /\ NoWrite(<<Look(a)>>, "TRIM_2")
  BY AccessOps DEF Calm, NoWrite, Writes
<1>5. \A a, w : Calm(<<Write(a, w)>>) /\ (a # "TRIM_2" => NoWrite(<<Write(a, w)>>, "TRIM_2"))
  BY AccessOps DEF Calm, NoWrite, Writes
<1>6. Calm(<< >>) /\ NoWrite(<< >>, "TRIM_2")
  BY DEF Calm, NoWrite
<1> QED
  BY <1>1, <1>2, <1>3, <1>4, <1>5, <1>6

\* The boot searches too.
LEMMA BootSearch == \E b \in Nat \ {0} : Search(Boot, b, BootRef)
<1> DEFINE r == RfSerdes
           f == AFC2(BootRef)
           l == <<Look("HW_CFG")>>
           h == SetHRCP(Build)
<1>1. Boot = (((r \o f) \o Modem) \o l) \o h
  BY DEF Boot
<1>2. f \in Seq(Accesses) /\ Search(f, 7, BootRef) /\ 7 \in Nat \ {0}
  <2>1. BootRef \in Nat
    BY DEF BootRef
  <2> QED
    BY <2>1, AFC2Search
<1>3. r \in Seq(Accesses) /\ Calm(r)
  BY RfSerdesCalm
<1>4. l \in Seq(Accesses) /\ Calm(l) /\ NoWrite(l, "TRIM_2")
  BY LookPlain, RoutinesCalm DEF Plain, Addrs
<1>5. h \in Seq(Accesses) /\ Calm(h) /\ NoWrite(h, "TRIM_2")
  BY SetHRCPFresh, RoutinesCalm DEF Fresh, Script
<1> DEFINE b == 7 + Len(r)
<1>6. b \in Nat \ {0}
  BY <1>3
<1> HIDE DEF r, f, l, h
<1>7. Search(r \o f, b, BootRef) /\ r \o f \in Seq(Accesses)
  BY <1>2, <1>3, SearchAfter, ConcatParts
<1> HIDE DEF b
<1>8. Search((r \o f) \o Modem, b, BootRef) /\ (r \o f) \o Modem \in Seq(Accesses)
  BY ONLY <1>6, <1>7, ModemCalm, SearchBefore, ConcatParts
<1>9. /\ Search(((r \o f) \o Modem) \o l, b, BootRef)
      /\ ((r \o f) \o Modem) \o l \in Seq(Accesses)
  BY ONLY <1>4, <1>6, <1>8, SearchBefore, ConcatParts
<1>10. Search((((r \o f) \o Modem) \o l) \o h, b, BootRef)
  BY ONLY <1>5, <1>6, <1>9, SearchBefore
<1> QED
  BY <1>1, <1>6, <1>10

-----------------------------------------------------------------------------
(* Steps of the search.                                                    *)

\* The end of an access, and what it has done to the counts and to TRIM_2.
TookTrim(c) ==
  /\ Took(c)
  /\ Now(c).op # "count" => counts' = counts
  /\ Now(c).op = "count" =>
       \E n \in Nat : counts' = Append(IF Now(c).n = 0 THEN << >> ELSE counts, n)
  /\ Now(c).op = "tune" => (Ok("TRIM_2")' => regs'["TRIM_2"] = Tuned(Select(counts, Now(c).n)))
  /\ Now(c).op # "tune" /\ ~Writes(Now(c), "TRIM_2") => Frame("TRIM_2")

LEMMA TakesTrim ==
  ASSUME UpdateInv, NEW c \in Threads, Routine(c)
  PROVE  Fail(c) \/ BeginRead(c) \/ TookTrim(c)
<1> SUFFICES ASSUME ~Fail(c), ~BeginRead(c) PROVE TookTrim(c)
  OBVIOUS
<1>1. Took(c) /\ Typed /\ Scripts /\ (\A d \in Threads : Pending(d) /\ Current(d)) /\ todo[c] # << >>
  BY Takes DEF UpdateInv, Took
<1>2. "TRIM_2" \in Addrs
  BY DEF Addrs
<1>3. disturbed' = disturbed /\ poked' = poked
  BY <1>1 DEF Took
<1>4. ASSUME Now(c).op \notin {"count", "tune"}, counts' = counts,
             ~Writes(Now(c), "TRIM_2") => (~disturbed => regs'["TRIM_2"] = regs["TRIM_2"])
      PROVE  TookTrim(c)
  BY <1>1, <1>3, <1>4 DEF TookTrim, Frame, Ok
<1>5. CASE PllSetup(c)
  BY <1>4, <1>5 DEF PllSetup, Doing, Now, accessVars
<1>6. CASE PutWord(c)
  <2> DEFINE a == Now(c).addr
             w == Now(c).val
  <2>1. Now(c).op = "write" /\ DoWrite(c, a, w) /\ counts' = counts
    BY <1>6 DEF PutWord, Doing, Now
  <2>2. a \in Addrs /\ w \in Vals
    BY <1>1, <2>1, NowFacts DEF OwnOne, Vals
  <2>3. ~Writes(Now(c), "TRIM_2") => a # "TRIM_2"
    BY <2>1 DEF Writes
  <2> HIDE DEF a, w
  <2>4. \A b \in Addrs \ {a} : regs'[b] = regs[b]
    BY <1>1, <2>1, <2>2, WriteEffect
  <2> QED
    BY <1>2, <1>4, <2>1, <2>3, <2>4
<1>7. CASE EndRead(c)
  <2>1. Now(c).op \in {"look", "read", "count"}
    BY <1>1, <1>7 DEF EndRead, Pending, Doing, Now
  <2>2. /\ regs' = regs /\ owed[c] # NoVal
        /\ counts' = IF Doing(c, "count")
                     THEN Append(IF Now(c).n = 0 THEN << >> ELSE counts, CountOf(owed[c]))
                     ELSE counts
    BY <1>7 DEF EndRead, File!EndRead
  <2>3. Doing(c, "count") <=> Now(c).op = "count"
    BY <1>1 DEF Doing, Now
  <2>4. CountOf(owed[c]) \in Nat
    BY LowHalfType DEF CountOf
  <2> HIDE DEF Now
  <2> QED
    BY <1>1, <1>3, <2>1, <2>2, <2>3, <2>4 DEF TookTrim, Frame, Ok
<1>8. CASE PutChanged(c)
  <2> DEFINE a == Now(c).addr
             w == Changed(kept[c], Now(c))
  <2>1. Now(c).op = "modify" /\ DoWrite(c, a, w) /\ counts' = counts
    BY <1>8 DEF PutChanged, Doing, Now
  <2>2. OwnOne(Now(c)) /\ Now(c).val \in Words /\ kept[c] \in Vals
    BY <1>1, NowFacts DEF Typed
  <2>3. a \in {"HW_CFG", "TRIM_1"} /\ a \in Addrs /\ w \in Vals
    BY <2>1, <2>2 DEF OwnOne, Addrs, Changed, Vals, Words
  <2> HIDE DEF a, w
  <2>4. \A b \in Addrs \ {a} : regs'[b] = regs[b]
    BY <1>1, <2>1, <2>3, WriteEffect
  <2> QED
    BY <1>2, <1>4, <2>1, <2>3, <2>4
<1>9. CASE PutTuned(c)
  <2> DEFINE w == Tuned(Select(counts, Now(c).n))
  <2>1. Now(c).op = "tune" /\ DoWrite(c, "TRIM_2", w) /\ counts' = counts
    BY <1>9 DEF PutTuned, Doing, Now
  <2>2. w \in Vals
    BY TunedType DEF Vals
  <2> HIDE DEF w
  <2>3. ~disturbed => regs'["TRIM_2"] = w
    BY <1>1, <1>2, <2>1, <2>2, WriteEffect
  <2> QED
    BY <1>1, <1>3, <2>1, <2>3 DEF TookTrim, Ok, w
<1>10. CASE AssignRole(c)
  BY <1>4, <1>10 DEF AssignRole, Doing, Now
<1> QED
  BY <1>5, <1>6, <1>7, <1>8, <1>9, <1>10 DEF Routine

LEMMA RefsType == Refs \subseteq Nat
BY RefCountAssumption DEF Refs, BootRef

LEMMA ChosenKept ==
  Chosen /\ Frame("TRIM_2") /\ counts' = counts /\ sought' = sought => Chosen'
BY DEF Chosen, Frame

\* A step of a search.
LEMMA SearchStep ==
  ASSUME UpdateInv, NEW c \in Threads, TookTrim(c), Searching(todo[c]),
         counts \in Seq(Nat), Len(counts) <= AfcN, sought \in Refs
  PROVE  counts' \in Seq(Nat) /\ Len(counts') <= AfcN /\ Searching(todo[c])'
<1> DEFINE s == todo[c]
<1>1. s \in Seq(Accesses) /\ s # << >> /\ Now(c) = s[1] /\ todo'[c] = Tail(s)
  BY TookNext DEF TookTrim, Took, UpdateInv, Typed, Now
<1>2. PICK b \in Int : Search(s, b, sought) /\ Progress(b) /\ (TuneAt(b) <= 0 => Chosen)
  BY DEF Searching
<1>3. 1 \in DOMAIN s
  BY <1>1
<1> HIDE DEF s
<1>4. /\ s[1].op = "count" => \E m \in Tried : 1 = CountAt(b, m)
      /\ s[1].op = "tune" => 1 = TuneAt(b)
      /\ 1 > TuneAt(b) => ~Writes(s[1], "TRIM_2")
      /\ \A m \in Tried : 1 = CountAt(b, m) => s[1].op = "count" /\ s[1].n = m
      /\ 1 = TuneAt(b) => s[1].op = "tune" /\ s[1].n = sought
  <2>1. \A m \in Tried : CountAt(b, m) >= 1 =>
          s[CountAt(b, m)].op = "count" /\ s[CountAt(b, m)].n = m
    BY <1>2 DEF Search
  <2>2. TuneAt(b) >= 1 => s[TuneAt(b)].op = "tune" /\ s[TuneAt(b)].n = sought
    BY <1>2 DEF Search
  <2>3. \A i \in DOMAIN s :
          /\ s[i].op = "count" => \E m \in Tried : i = CountAt(b, m)
          /\ s[i].op = "tune" => i = TuneAt(b)
          /\ i > TuneAt(b) => ~Writes(s[i], "TRIM_2")
    BY <1>2 DEF Search
  <2> QED
    BY <1>3, <2>1, <2>2, <2>3
<1>5. Search(Tail(s), b - 1, sought) /\ sought' = sought
  BY <1>1, <1>2, SearchTail DEF TookTrim, Took
<1>6. AfcN \in Nat /\ AfcN >= 1 /\ Tried = 0..(AfcN - 1) /\ b - 1 \in Int
  BY AfcNType DEF Tried
<1>7. TuneAt(b) = b + 4 * AfcN + 2 /\ \A d, m : CountAt(d, m) = d + 4 * m
  BY DEF TuneAt, CountAt
<1>8. /\ s[1].op # "count" => counts' = counts
      /\ s[1].op = "count" =>
           \E n \in Nat : counts' = Append(IF s[1].n = 0 THEN << >> ELSE counts, n)
      /\ s[1].op = "tune" => (Ok("TRIM_2")' => regs'["TRIM_2"] = Tuned(Select(counts, s[1].n)))
      /\ s[1].op # "tune" /\ ~Writes(s[1], "TRIM_2") => Frame("TRIM_2")
  BY <1>1 DEF TookTrim
<1>9. \A m \in 1..AfcN :
        CountAt(b, m - 1) <= 0 /\ (m = AfcN \/ CountAt(b, m) >= 1) => Len(counts) = m
  BY <1>2 DEF Progress
<1>10. counts' \in Seq(Nat) /\ Len(counts') <= AfcN /\ Progress(b - 1)'
  <2>1. CASE s[1].op = "count"
    <3>1. PICK m \in Tried : 1 = CountAt(b, m)
      BY <1>4, <2>1
    <3>2. s[1].n = m
      BY <1>4, <3>1
    <3>3. PICK n \in Nat : counts' = Append(IF m = 0 THEN << >> ELSE counts, n)
      BY <1>8, <2>1, <3>2
    <3>4. m \in Nat /\ m <= AfcN - 1 /\ b = 1 - 4 * m
      BY <1>2, <1>6, <1>7, <3>1
    <3>5. m # 0 => Len(counts) = m
      <4> SUFFICES ASSUME m # 0 PROVE Len(counts) = m
        OBVIOUS
      <4>1. m \in 1..AfcN /\ CountAt(b, m - 1) <= 0 /\ CountAt(b, m) >= 1
        BY <1>6, <1>7, <3>4
      <4> QED
        BY <1>9, <4>1
    <3>6. counts' \in Seq(Nat) /\ Len(counts') = m + 1
      <4> DEFINE before == IF m = 0 THEN << >> ELSE counts
      <4>1. before \in Seq(Nat) /\ Len(before) = m
        BY <3>5
      <4> HIDE DEF before
      <4>2. Append(before, n) \in Seq(Nat) /\ Len(Append(before, n)) = m + 1
        BY <4>1
      <4> QED
        BY <3>3, <4>2 DEF before
    <3>7. ASSUME NEW k \in 1..AfcN, CountAt(b - 1, k - 1) <= 0, k = AfcN \/ CountAt(b - 1, k) >= 1
          PROVE  k = m + 1
      BY <1>6, <1>7, <3>4, <3>7
    <3>8. Progress(b - 1)'
      BY ONLY <3>6, <3>7 DEF Progress
    <3>9. m + 1 <= AfcN
      BY ONLY <1>6, <3>4
    <3> QED
      BY <3>6, <3>8, <3>9
  <2>2. CASE s[1].op # "count"
    <3>1. counts' = counts
      BY <1>8, <2>2
    <3>2. ASSUME NEW m \in 1..AfcN, CountAt(b - 1, m - 1) <= 0, m = AfcN \/ CountAt(b - 1, m) >= 1
          PROVE  Len(counts) = m
      <4>1. m - 1 \in Tried
        BY <1>6
      <4>2. 1 # CountAt(b, m - 1)
        BY <1>4, <2>2, <4>1
      <4>3. CountAt(b, m - 1) <= 0 /\ (m = AfcN \/ CountAt(b, m) >= 1)
        BY <1>2, <1>6, <1>7, <3>2, <4>2
      <4> QED
        BY <1>9, <4>3
    <3> QED
      BY <3>1, <3>2 DEF Progress
  <2> QED
    BY <2>1, <2>2
<1>11. ASSUME TuneAt(b - 1) <= 0 PROVE Chosen'
  <2>1. b + 4 * AfcN + 2 <= 1
    BY <1>2, <1>6, <1>11 DEF TuneAt, CountAt
  <2>2. \A m \in Tried : 1 # CountAt(b, m)
    BY <1>2, <1>6, <1>7, <2>1
  <2>3. s[1].op # "count" /\ counts' = counts
    BY <1>4, <1>8, <2>2
  <2>4. CASE TuneAt(b) = 1
    <3>1. s[1].op = "tune" /\ s[1].n = sought
      BY <1>4, <2>4
    <3>2. Len(counts) = AfcN
      <4>1. CountAt(b, AfcN - 1) <= 0 /\ AfcN \in 1..AfcN
        BY <1>2, <1>6, <1>7, <2>1
      <4> QED
        BY <1>9, <4>1
    <3>3. PICK i \in 1..AfcN : Select(counts, sought) = i - 1 /\ FirstNearest(counts, sought, i, AfcN)
      <4>1. sought \in Nat /\ Len(counts) # 0
        BY <1>6, <3>2, RefsType
      <4> QED
        BY <3>2, <4>1, SelectNearest
    <3>4. Ok("TRIM_2")' => regs'["TRIM_2"] = Tuned(i - 1)
      BY <1>8, <3>1, <3>3
    <3> QED
      BY <1>5, <2>3, <3>3, <3>4 DEF Chosen
  <2>5. CASE TuneAt(b) # 1
    <3>1. TuneAt(b) <= 0 /\ 1 > TuneAt(b)
      BY <1>2, <1>6, <1>7, <2>1, <2>5
    <3>2. Frame("TRIM_2")
      BY <1>4, <1>8, <2>5, <3>1
    <3> QED
      BY <1>2, <1>5, <2>3, <3>1, <3>2, ChosenKept
  <2> QED
    BY <2>4, <2>5
<1> QED
  BY <1>1, <1>2, <1>5, <1>6, <1>10, <1>11 DEF Searching

\* A step of a routine that neither measures nor tunes.
LEMMA ApartStep ==
  ASSUME UpdateInv, NEW c \in Threads, TookTrim(c), Apart(todo[c])
  PROVE  Apart(todo[c])' /\ counts' = counts /\ (Chosen => Chosen')
<1> DEFINE s == todo[c]
<1>1. /\ s \in Seq(Accesses) /\ s # << >> /\ Now(c) = s[1] /\ todo'[c] = Tail(s)
      /\ UNCHANGED <<poked, sought>>
  BY TookNext DEF TookTrim, Took, UpdateInv, Typed, Now
<1>2. 1 \in DOMAIN s /\ \A i \in DOMAIN Tail(s) : i + 1 \in DOMAIN s /\ Tail(s)[i] = s[i + 1]
  BY <1>1
<1>3. Calm(s) /\ (NoWrite(s, "TRIM_2") \/ "TRIM_2" \in poked)
  BY DEF Apart
<1> HIDE DEF s
<1>4. Calm(Tail(s)) /\ (NoWrite(s, "TRIM_2") => NoWrite(Tail(s), "TRIM_2"))
  BY <1>2, <1>3 DEF Calm, NoWrite
<1>5. Apart(todo[c])'
  BY <1>1, <1>3, <1>4 DEF Apart
<1>6. Now(c).op \notin {"count", "tune"} /\ (Writes(Now(c), "TRIM_2") => "TRIM_2" \in poked)
  BY <1>1, <1>2, <1>3 DEF Calm, NoWrite
<1>7. counts' = counts
  BY <1>6 DEF TookTrim
<1>8. Frame("TRIM_2")
  <2>1. CASE "TRIM_2" \in poked
    BY <1>1, <2>1 DEF Frame, Ok
  <2>2. CASE "TRIM_2" \notin poked
    BY <1>6, <2>2 DEF TookTrim
  <2> QED
    BY <2>1, <2>2
<1> QED
  BY <1>1, <1>5, <1>7, <1>8, ChosenKept

\* A step that leaves the search, TRIM_2 and the host's command alone.
LEMMA StillStep ==
  ASSUME AfcInv, Frame("TRIM_2"), UNCHANGED <<counts, phase, poked, sought, settles, unsettled>>,
         todo'["ep0"] = todo["ep0"], phase # "connected" => todo'["app"] = todo["app"]
  PROVE  AfcInv'
<1>1. Chosen => Chosen'
  BY ChosenKept
<1>2. \A b : Progress(b) => Progress(b)'
  BY DEF Progress
<1>3. \A s : Searching(s) => Searching(s)'
  BY <1>1, <1>2 DEF Searching
<1>4. phase # "connected" => (Searching(todo["app"]) => Searching(todo["app"])')
  BY <1>3 DEF Searching, Chosen, Progress
<1>5. Searching(todo["ep0"]) => Searching(todo["ep0"])'
  BY <1>3 DEF Searching, Chosen, Progress
<1>6. Apart(todo["ep0"]) => Apart(todo["ep0"])'
  BY DEF Apart
<1> QED
  BY <1>1, <1>4, <1>5, <1>6 DEF AfcInv

\* What remains of a search that has nothing left to do.
LEMMA SearchOver == Searching(<< >>) => Chosen
<1> SUFFICES ASSUME NEW b \in Int, Search(<< >>, b, sought), TuneAt(b) <= 0 => Chosen
             PROVE  Chosen
  BY DEF Searching
<1>1. DOMAIN << >> = {}
  OBVIOUS
<1>2. ~(TuneAt(b) >= 1)
  BY <1>1 DEF Search
<1>3. TuneAt(b) \in Int
  BY AfcNType DEF TuneAt, CountAt
<1> QED
  BY <1>2, <1>3

\* A search that has not begun.
LEMMA SearchBegins ==
  ASSUME NEW s, NEW b \in Nat \ {0}, Search(s, b, sought)
  PROVE  Searching(s)
<1>1. TuneAt(b) > 0 /\ ~(TuneAt(b) <= 0)
  BY AfcNType DEF TuneAt, CountAt
<1>2. \A m \in 1..AfcN : ~(CountAt(b, m - 1) <= 0)
  BY AfcNType DEF CountAt
<1>3. Progress(b)
  BY <1>2 DEF Progress
<1> QED
  BY <1>1, <1>3 DEF Searching

LEMMA AfcInit == Init => AfcInv
<1> SUFFICES ASSUME Init PROVE AfcInv
  OBVIOUS
<1>1. counts = << >> /\ phase = "boot" /\ todo["app"] = Boot /\ sought = BootRef
  BY DEF Init, BootTodo, Threads
<1>2. counts \in Seq(Nat) /\ Len(counts) <= AfcN
  BY <1>1, AfcNType
<1>3. Searching(Boot)
  BY <1>1, BootSearch, SearchBegins
<1> QED
  BY <1>1, <1>2, <1>3 DEF AfcInv, Refs

LEMMA AfcRoutine ==
  ASSUME ModeInv, AfcInv, NEW c \in Threads, Routine(c)
  PROVE  AfcInv'
<1>1. /\ UpdateInv /\ BootPart /\ HostPart /\ Typed /\ Alone
      /\ (c = "app" \/ c = "ep0") /\ "app" \in Threads /\ "ep0" \in Threads
  BY DEF ModeInv, UpdateInv, Threads
<1>2. /\ counts \in Seq(Nat) /\ Len(counts) <= AfcN /\ sought \in Refs
      /\ phase \in {"boot", "hung", "connected"}
  BY <1>1 DEF AfcInv, Typed
<1>3. CASE TookTrim(c)
  <2>1. /\ todo[c] # << >> /\ phase' = phase /\ UNCHANGED <<path, poked, sought>>
        /\ \A d \in Threads \ {c} : todo'[d] = todo[d]
        /\ todo'[c] = Tail(todo[c])
        /\ c = "app" => UNCHANGED <<settles, unsettled>>
        /\ c = "ep0" /\ Tail(todo[c]) # << >> => UNCHANGED <<settles, unsettled>>
        /\ c = "ep0" /\ Tail(todo[c]) = << >> =>
             settles' = {} /\ unsettled' = unsettled \ settles
    BY <1>1, <1>3, TookNext DEF TookTrim, Took
  <2>2. CASE phase = "boot"
    <3>1. c = "app" /\ Searching(todo[c])
      BY <1>1, <2>1, <2>2 DEF Alone, AfcInv
    <3>2. counts' \in Seq(Nat) /\ Len(counts') <= AfcN /\ Searching(todo[c])'
      BY <1>1, <1>2, <1>3, <3>1, SearchStep
    <3> QED
      BY <2>1, <2>2, <3>1, <3>2 DEF AfcInv
  <2>3. CASE phase = "hung"
    BY <1>1, <2>1, <2>3 DEF Alone, AfcInv
  <2>4. CASE phase = "connected" /\ c = "app"
    <3>1. Now(c).op = "look"
      <4>1. todo[c] \in Seq(Accesses) /\ Looking(todo[c])
        BY <1>1, <2>4 DEF Typed, Alone
      <4>2. 1 \in DOMAIN todo[c]
        BY <2>1, <4>1
      <4> QED
        BY <4>1, <4>2 DEF Looking, Now
    <3>2. counts' = counts /\ Frame("TRIM_2")
      BY <1>3, <3>1 DEF TookTrim, Writes
    <3> QED
      BY <1>1, <2>1, <2>4, <3>2, StillStep
  <2>5. CASE phase = "connected" /\ c = "ep0" /\ "afc" \in settles
    <3>1. counts' \in Seq(Nat) /\ Len(counts') <= AfcN /\ Searching(todo["ep0"])'
      BY <1>1, <1>2, <1>3, <2>5, SearchStep DEF AfcInv
    <3>2. CASE Tail(todo["ep0"]) # << >>
      BY <2>1, <2>5, <3>1, <3>2 DEF AfcInv
    <3>3. CASE Tail(todo["ep0"]) = << >>
      <4>1. todo'["ep0"] = << >> /\ settles' = {}
        BY <2>1, <2>5, <3>3
      <4>2. (Searching(<< >>) => Chosen)'
        BY SearchOver, PTL
      <4>3. Chosen'
        BY <3>1, <4>1, <4>2 DEF Searching
      <4>4. Apart(todo["ep0"])'
        BY <4>1, RoutinesCalm DEF Apart
      <4> QED
        BY <2>1, <2>5, <3>1, <4>1, <4>3, <4>4 DEF AfcInv
    <3> QED
      BY <3>2, <3>3
  <2>6. CASE phase = "connected" /\ c = "ep0" /\ "afc" \notin settles
    <3>1. Apart(todo["ep0"]) /\ ("afc" \notin unsettled => Chosen)
      BY <2>6 DEF AfcInv
    <3>2. Apart(todo["ep0"])' /\ counts' = counts /\ (Chosen => Chosen')
      BY <1>1, <1>3, <2>6, <3>1, ApartStep
    <3>3. "afc" \notin settles' /\ ("afc" \notin unsettled' => "afc" \notin unsettled)
      BY <2>1, <2>6
    <3> QED
      BY <1>2, <2>1, <2>6, <3>1, <3>2, <3>3 DEF AfcInv
  <2> QED
    BY <1>1, <1>2, <2>2, <2>3, <2>4, <2>5, <2>6
<1>4. CASE BeginRead(c)
  <2>1. UNCHANGED <<counts, todo, phase, path, poked, sought, settles, unsettled>>
    BY <1>4 DEF BeginRead, commandVars, stateVars, ghostVars
  <2>2. disturbed' \/ (disturbed' = disturbed /\ regs' = regs)
    BY <1>4 DEF BeginRead, DoBeginRead, File!BeginRead, File!Disturb
  <2>3. Frame("TRIM_2")
    BY <2>1, <2>2 DEF Frame, Ok
  <2> QED
    BY <2>1, <2>3, StillStep
<1>5. CASE Fail(c)
  <2>1. /\ todo' = [todo EXCEPT ![c] = << >>] /\ todo[c] # << >>
        /\ phase' = IF phase = "boot" THEN "hung" ELSE phase
        /\ settles' = IF c = "ep0" THEN {} ELSE settles
        /\ UNCHANGED <<regs, disturbed, counts, unsettled, poked, sought>>
    BY <1>5 DEF Fail
  <2>2. todo'[c] = << >> /\ \A d \in Threads \ {c} : todo'[d] = todo[d]
    BY <1>1, <2>1 DEF Typed
  <2>3. Frame("TRIM_2")
    BY <2>1 DEF Frame, Ok
  <2>4. CASE phase = "connected" /\ c = "app"
    BY <1>1, <2>1, <2>2, <2>3, <2>4, StillStep
  <2>5. CASE phase = "connected" /\ c = "ep0"
    <3>1. Apart(todo["ep0"])'
      BY <2>2, <2>5, RoutinesCalm DEF Apart
    <3>2. "afc" \notin unsettled => Chosen
      BY <1>1, <2>5 DEF AfcInv, HostPart
    <3>3. "afc" \notin unsettled' => Chosen'
      BY <2>1, <2>3, <3>2, ChosenKept
    <3> QED
      BY <1>2, <2>1, <2>5, <3>1, <3>3 DEF AfcInv
  <2>6. CASE phase # "connected"
    <3>1. c = "app"
      BY <1>1, <2>1, <2>6 DEF Alone
    <3> QED
      BY <1>2, <2>1, <2>2, <2>6, <3>1 DEF AfcInv
  <2> QED
    BY <1>1, <2>4, <2>5, <2>6
<1> QED
  BY <1>1, <1>3, <1>4, <1>5, TakesTrim

\* A command begins that does not search.
LEMMA CommandApart ==
  ASSUME ModeInv, AfcInv, NEW s, NEW about, Command(s, about), "afc" \notin about,
         Calm(s), NoWrite(s, "TRIM_2") \/ "TRIM_2" \in poked', poked \subseteq poked',
         sought' = sought
  PROVE  AfcInv'
<1>1. /\ phase = "connected" /\ todo' = [todo EXCEPT !["ep0"] = s]
      /\ settles' = about /\ unsettled' = unsettled \cup about
      /\ UNCHANGED <<regs, disturbed, phase, counts>>
  BY DEF Command, accessVars, stateVars
<1>2. todo'["ep0"] = s /\ settles \subseteq unsettled
  BY <1>1 DEF ModeInv, HostPart, UpdateInv, Typed, Threads
<1>3. Apart(todo["ep0"])'
  BY <1>2 DEF Apart
<1>4. "afc" \notin unsettled' => Chosen
  BY <1>1, <1>2 DEF AfcInv
<1>5. Frame("TRIM_2")
  BY <1>1 DEF Frame, Ok
<1> QED
  BY <1>1, <1>3, <1>4, <1>5, ChosenKept DEF AfcInv

LEMMA AfcCommand ==
  ASSUME ModeInv, AfcInv, HostCommand
  PROVE  AfcInv'
<1>1. ASSUME NEW role, ModeHrcp(role) PROVE AfcInv'
  <2>1. Command(SetHRCP(role), {"role"}) /\ UNCHANGED <<poked, sought>>
    BY <1>1 DEF ModeHrcp
  <2> QED
    BY <2>1, RoutinesCalm, CommandApart
<1>2. ASSUME NEW p, ModePath(p) PROVE AfcInv'
  <2>1. Command(SetPath(p), {"path"}) /\ UNCHANGED <<poked, sought>>
    BY <1>2 DEF ModePath
  <2> QED
    BY <2>1, RoutinesCalm, CommandApart
<1>3. CASE ZingRst
  <2>1. Command(Reset, {"reset"}) /\ UNCHANGED <<poked, sought>>
    BY <1>3 DEF ZingRst
  <2> QED
    BY <2>1, RoutinesCalm, CommandApart
<1>4. ASSUME NEW ref \in RefCounts, Afc(ref) PROVE AfcInv'
  <2>1. Command(AFC2(ref), {"afc", "path"}) /\ sought' = ref
    BY <1>4 DEF Afc
  <2>2. /\ phase = "connected" /\ phase' = phase /\ counts' = counts
        /\ todo' = [todo EXCEPT !["ep0"] = AFC2(ref)] /\ "afc" \in settles'
    BY <2>1 DEF Command, accessVars, stateVars
  <2>3. todo'["ep0"] = AFC2(ref)
    BY <2>2 DEF ModeInv, UpdateInv, Typed, Threads
  <2>4. Search(AFC2(ref), 7, ref) /\ ref \in Refs /\ 7 \in Nat \ {0}
    <3>1. ref \in Nat
      BY RefCountAssumption
    <3> QED
      BY <3>1, AFC2Search DEF Refs
  <2>5. Progress(7)' /\ ~(TuneAt(7) <= 0)
    <3>1. TuneAt(7) > 0 /\ ~(TuneAt(7) <= 0)
      BY AfcNType DEF TuneAt, CountAt
    <3>2. \A m \in 1..AfcN : ~(CountAt(7, m - 1) <= 0)
      BY AfcNType DEF CountAt
    <3> QED
      BY <3>1, <3>2 DEF Progress
  <2>6. Searching(todo["ep0"])'
    BY <2>1, <2>3, <2>4, <2>5 DEF Searching
  <2> QED
    BY <2>1, <2>2, <2>4, <2>6 DEF AfcInv
<1>5. ASSUME NEW p \in Pokes, RegW(p) PROVE AfcInv'
  <2> DEFINE s == <<Write(p.addr, p.val)>>
  <2>1. Command(s, {}) /\ poked' = poked \cup {p.addr} /\ sought' = sought
    BY <1>5 DEF RegW
  <2>2. Calm(s) /\ (NoWrite(s, "TRIM_2") \/ "TRIM_2" \in poked')
    BY <2>1, RoutinesCalm
  <2> HIDE DEF s
  <2> QED
    BY <2>1, <2>2, CommandApart
<1>6. CASE RegR("HW_CFG")
  <2> DEFINE s == <<Look("HW_CFG")>>
  <2>1. Command(s, {}) /\ UNCHANGED <<poked, sought>>
    BY <1>6 DEF RegR
  <2>2. Calm(s) /\ NoWrite(s, "TRIM_2")
    BY RoutinesCalm
  <2> HIDE DEF s
  <2> QED
    BY <2>1, <2>2, CommandApart
<1> QED
  BY <1>1, <1>2, <1>3, <1>4, <1>5, <1>6 DEF HostCommand

LEMMA AfcNext == ModeInv /\ AfcInv /\ [Next]_vars => AfcInv'
<1> SUFFICES ASSUME ModeInv, AfcInv, [Next]_vars PROVE AfcInv'
  OBVIOUS
<1>1. Typed /\ Alone /\ BootPart /\ "TRIM_2" \in Addrs /\ "ep0" \in Threads
  BY DEF ModeInv, UpdateInv, Addrs, Threads
<1>2. ASSUME UNCHANGED <<counts, phase, poked, sought, settles, unsettled, todo>>,
             disturbed' \/ (disturbed' = disturbed /\ regs'["TRIM_2"] = regs["TRIM_2"])
      PROVE  AfcInv'
  <2>1. Frame("TRIM_2")
    BY <1>2 DEF Frame, Ok
  <2> QED
    BY <1>2, <2>1, StillStep
<1>3. ASSUME NEW c \in Threads, Routine(c) PROVE AfcInv'
  BY <1>3, AfcRoutine
<1>4. CASE Connect
  <2>1. /\ phase = "boot" /\ todo["app"] = << >> /\ phase' = "connected"
        /\ UNCHANGED <<regs, disturbed, counts, todo, settles, unsettled, poked, sought>>
    BY <1>4 DEF Connect, accessVars, commandVars, ghostVars
  <2>2. settles = {} /\ todo["ep0"] = << >>
    BY <1>1, <2>1 DEF Alone, BootPart
  <2>3. Chosen
    BY <2>1, SearchOver DEF AfcInv
  <2>4. Chosen'
    BY <2>1, <2>3, ChosenKept DEF Frame, Ok
  <2>5. Apart(todo["ep0"])'
    BY <2>1, <2>2, RoutinesCalm DEF Apart
  <2> QED
    BY <2>1, <2>2, <2>4, <2>5 DEF AfcInv
<1>5. ASSUME NEW a \in Polled, Poll(a) PROVE AfcInv'
  <2>1. /\ phase = "connected" /\ todo' = [todo EXCEPT !["app"] = <<Look(a)>>]
        /\ UNCHANGED <<regs, disturbed, counts, phase, poked, sought, settles, unsettled>>
    BY <1>5 DEF Poll, accessVars, stateVars, commandVars, ghostVars
  <2>2. todo'["ep0"] = todo["ep0"]
    BY <1>1, <2>1 DEF Typed
  <2>3. Frame("TRIM_2")
    BY <2>1 DEF Frame, Ok
  <2> QED
    BY <2>1, <2>2, <2>3, StillStep
<1>6. CASE HostCommand
  BY <1>6, AfcCommand
<1>7. ASSUME NEW p \in UartWrites, UartWrite(p) PROVE AfcInv'
  <2>1. p \in UartRequests
    BY RequestAssumption
  <2>2. p.addr \in {"RF_CONTROL_0", "PPID"} /\ p.val \in Vals
    BY <2>1, WordType DEF UartRequests, BandWords, Vals, Words
  <2>3. p.addr \in Addrs /\ p.addr # "TRIM_2"
    BY <2>2 DEF Addrs
  <2>4. UNCHANGED <<counts, phase, poked, sought, settles, unsettled, todo>>
    BY <1>7 DEF UartWrite, stateVars, commandVars, ghostVars
  <2>5. CASE DoWrite("uart", p.addr, p.val)
    <3>1. disturbed' = disturbed /\ \A b \in Addrs \ {p.addr} : regs'[b] = regs[b]
      BY <1>1, <2>2, <2>3, <2>5, WriteEffect
    <3> QED
      BY <1>1, <1>2, <2>3, <2>4, <3>1
  <2>6. CASE Disturb
    BY <1>2, <2>4, <2>6 DEF Disturb, File!Disturb
  <2> QED
    BY <1>7, <2>5, <2>6 DEF UartWrite
<1>8. ASSUME NEW n \in Counts, Measure(n) PROVE AfcInv'
  <2>1. /\ UNCHANGED <<counts, phase, poked, sought, settles, unsettled, todo, disturbed>>
        /\ regs' = [regs EXCEPT !["PLL_AFC"] = Measured(n)]
    BY <1>8 DEF Measure, File!Write, stateVars, commandVars, ghostVars
  <2>2. regs'["TRIM_2"] = regs["TRIM_2"]
    BY <1>1, <2>1 DEF Typed
  <2> QED
    BY <1>2, <2>1, <2>2
<1>9. CASE Reboot
  <2>1. Init'
    BY <1>9 DEF Reboot, Init
  <2> QED
    BY <2>1, AfcInit, PTL
<1>10. CASE UNCHANGED vars
  BY <1>2, <1>10 DEF vars, accessVars, stateVars, commandVars, ghostVars
<1> QED
  BY <1>3, <1>4, <1>5, <1>6, <1>7, <1>8, <1>9, <1>10 DEF Next

LEMMA AfcAlways == Spec => []AfcInv
BY AfcInit, AfcNext, ModeAlways, PTL DEF Spec

\* Zing_AFC2, at boot or for the host, ends on the first of the settings whose
\* count is nearest to the reference of that search, for any number of
\* settings, counts and references; as long as no reads have crossed and no
\* frame has been mixed up since the FX3 was reset.
THEOREM AfcHolds == Spec => []AfcNearest
<1>1. ModeInv /\ AfcInv => AfcNearest
  BY DEF ModeInv, AfcInv, HostPart, Chosen, Ok, FirstNearest, Refs, AfcNearest, Relied
<1> QED
  BY <1>1, ModeAlways, AfcAlways, PTL
-----------------------------------------------------------------------------
(* The types.  UpdateInv and AfcInv have those of the machine; the rest is  *)
(* what the commands leave of the role, the path and the history variables. *)

Matters == {"role", "path", "reset", "afc"}
GhostType ==
  /\ zing_hrcp \in {"PPC", "DEV"}
  /\ settles \subseteq Matters /\ unsettled \subseteq Matters
  /\ path \in {"RF", "SERDES"}
  /\ poked \subseteq Addrs
  /\ sought \in RefCounts \cup {BootRef}
  /\ fails \in 0..MaxFails

LEMMA GhostInit == Init => GhostType
BY FailsAssumption DEF Init, GhostType

LEMMA GhostNext == GhostType /\ [Next]_vars => GhostType'
<1> SUFFICES ASSUME GhostType, [Next]_vars PROVE GhostType'
  OBVIOUS
<1> USE DEF GhostType
<1>1. ASSUME NEW c \in Threads, Routine(c) PROVE GhostType'
  <2>1. Done(c) => settles' \subseteq Matters /\ unsettled' \subseteq Matters
    BY DEF Done
  <2>2. CASE Fail(c)
    <3>1. fails' = fails + 1 /\ fails < MaxFails /\ UNCHANGED <<zing_hrcp, unsettled, path, poked, sought>>
      BY <2>2 DEF Fail
    <3>2. settles' \subseteq Matters
      BY <2>2 DEF Fail
    <3> QED
      BY <3>1, <3>2, FailsAssumption
  <2>3. CASE BeginRead(c)
    BY <2>3 DEF BeginRead, commandVars, stateVars, ghostVars
  <2>4. CASE AssignRole(c)
    BY <2>1, <2>4 DEF AssignRole, ghostVars
  <2>5. CASE PllSetup(c) \/ PutWord(c) \/ EndRead(c) \/ PutChanged(c) \/ PutTuned(c)
    <3>1. Done(c) /\ UNCHANGED <<zing_hrcp, path, poked, sought, fails>>
      BY <2>5 DEF PllSetup, PutWord, EndRead, PutChanged, PutTuned, stateVars, ghostVars
    <3> QED
      BY <2>1, <3>1
  <2> QED
    BY <1>1, <2>2, <2>3, <2>4, <2>5 DEF Routine
<1>2. CASE Connect
  BY <1>2 DEF Connect, commandVars, ghostVars
<1>3. ASSUME NEW a \in Polled, Poll(a) PROVE GhostType'
  BY <1>3 DEF Poll, stateVars, commandVars, ghostVars
<1>4. CASE HostCommand
  <2>1. ASSUME NEW s, NEW about, Command(s, about), about \subseteq Matters,
               path' \in {"RF", "SERDES"}, poked' \subseteq Addrs,
               sought' \in RefCounts \cup {BootRef}
        PROVE  GhostType'
    BY <2>1 DEF Command, stateVars
  <2>2. ASSUME NEW role, ModeHrcp(role) PROVE GhostType'
    BY <2>1, <2>2 DEF ModeHrcp, Matters
  <2>3. ASSUME NEW p \in {"RF", "SERDES"}, ModePath(p) PROVE GhostType'
    BY <2>1, <2>3 DEF ModePath, Matters
  <2>4. CASE ZingRst
    BY <2>1, <2>4 DEF ZingRst, Matters
  <2>5. ASSUME NEW ref \in RefCounts, Afc(ref) PROVE GhostType'
    BY <2>1, <2>5 DEF Afc, Matters
  <2>6. ASSUME NEW p \in Pokes, RegW(p) PROVE GhostType'
    <3>1. p.addr \in Addrs
      BY RequestAssumption
    <3> QED
      BY <2>1, <2>6, <3>1 DEF RegW
  <2>7. CASE RegR("HW_CFG")
    BY <2>1, <2>7 DEF RegR
  <2> QED
    BY <1>4, <2>2, <2>3, <2>4, <2>5, <2>6, <2>7 DEF HostCommand
<1>5. ASSUME NEW p \in UartWrites, UartWrite(p) PROVE GhostType'
  BY <1>5 DEF UartWrite, stateVars, commandVars, ghostVars
<1>6. ASSUME NEW n \in Counts, Measure(n) PROVE GhostType'
  BY <1>6 DEF Measure, stateVars, commandVars, ghostVars
<1>7. CASE Reboot
  BY <1>7, FailsAssumption DEF Reboot
<1>8. CASE UNCHANGED vars
  BY <1>8 DEF vars, stateVars, commandVars, ghostVars
<1> QED
  BY <1>1, <1>2, <1>3, <1>4, <1>5, <1>6, <1>7, <1>8 DEF Next

\* The registers hold words, the routines are sequences of accesses, CntArr
\* is never overrun, and the commands leave the mode in one of its values.
THEOREM TypeCorrect == Spec => []TypeOK
<1>1. Spec => []GhostType
  BY GhostInit, GhostNext, PTL DEF Spec
<1>2. ModeInv /\ AfcInv /\ GhostType => TypeOK
  BY DEF ModeInv, UpdateInv, Typed, AfcInv, GhostType, Matters, TypeOK
<1> QED
  BY <1>1, <1>2, ModeAlways, AfcAlways, PTL
=============================================================================
