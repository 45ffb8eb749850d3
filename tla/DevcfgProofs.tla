----------------------------- MODULE DevcfgProofs -----------------------------
(***************************************************************************)
(* The invariant of the device configuration port, for any number of       *)
(* applications, readers and administrators and any size of files and      *)
(* blocks, and that every step of the driver, of the hardware, of the      *)
(* attributes and of a reset keeps it.  BoardProofs has the theorems.      *)
(***************************************************************************)
EXTENDS DevcfgSettings, FiniteSetTheorems, TLAPS

Command == [of : Procs, live : BOOLEAN, from : Int, to : 0..FileLen, fits : BOOLEAN]

Stored ==
    [reg : {"ctrl"}, bit : Controls, was : SUBSET CtrlBits]
    \cup [reg : {"lock"}, bit : Locks, was : SUBSET Locks]
    \cup {NoStore}

(* The types that the steps need, finer than DevcfgTypeOK.                 *)
DriverTypes ==
    /\ isOpen \in BOOLEAN /\ sem \in Procs \cup {Nobody} /\ clk \in Nat
    /\ partial \in BOOLEAN /\ swap \in BOOLEAN
    /\ residue \in [of : Procs \cup {Nobody}, len : 0..3]
    /\ dmaDone \in BOOLEAN /\ errorStatus \in BOOLEAN

HardwareTypes ==
    /\ ctrl \in SUBSET CtrlBits
    /\ sts \in SUBSET {"done", "some", "all"}
    /\ handling \in SUBSET {"done", "some", "all"}
    /\ enabled \in BOOLEAN /\ initb \in BOOLEAN
    /\ dma \in Seq(Command)
    /\ pl \in [of : Procs \cup {Nobody}, got : 0..FileLen]
    /\ rst \in BOOLEAN /\ lvl \in {"off", "out", "all"}

PlaceTypes ==
    /\ pc \in [Procs -> Places] /\ pos \in [Procs -> 0..FileLen]
    /\ snap \in [Procs -> SUBSET CtrlBits]
    /\ running \in SUBSET Apps /\ alone \in [Procs -> BOOLEAN]

(* Who is where, and with how much of its file read.                       *)
RoleTypes ==
    \A p \in Procs :
      /\ pc[p] \in {"forget", "readback"} => p \in Readers
      /\ pc[p] = "transfer" => p \in Apps
      /\ p \in Apps => pos[p] = 0 \/ pos[p] > 4
      /\ pc[p] \in Opening \cup {"idle", "openSem"} => pos[p] = 0

HistoryTypes ==
    /\ trouble \in Troubles /\ clean \in BOOLEAN
    /\ stale \in BOOLEAN /\ seen \in BOOLEAN

SettingTypes ==
    /\ locks \in SUBSET Locks
    /\ store \in [Admins -> Stored]
    /\ stores \in 0..MaxStores
    /\ wanted \in SUBSET (({"ctrl"} \X Controls) \cup ({"lock"} \X Locks))

DevTypes ==
    /\ DriverTypes /\ HardwareTypes /\ PlaceTypes /\ RoleTypes
    /\ HistoryTypes /\ SettingTypes

(* The mutex is held by the call that took it; one process has the device. *)
MutexInv ==
    /\ \A p \in Procs : sem = p <=> pc[p] \in Holding
    /\ \A p, q \in Procs : pc[p] \in Owning /\ pc[q] \in Owning => p = q
    /\ isOpen <=> \E p \in Procs : pc[p] \in Owning

Clocking == {p \in Procs : pc[p] \in Holding \cup {"openSem", "sem"}}
Storing  == {a \in Admins : store[a] # NoStore}

(* Only finitely many calls are under way, however many processes there    *)
(* are, and the clock is enabled once for each.                            *)
ClockInv ==
    /\ IsFiniteSet(Clocking) /\ IsFiniteSet(Storing)
    /\ clk = Cardinality(Clocking) + Cardinality(Storing)

(* While nothing has gone wrong, one command is on its way from the DMA    *)
(* engine to dma_done, only while a call waits for it.                     *)
OnItsWay(p) ==
    \/ /\ Len(dma) = 1 /\ dma[1].of = p /\ dma[1].live
       /\ sts = {} /\ handling = {} /\ ~dmaDone
    \/ dma = <<>> /\ sts = {"done"} /\ handling = {} /\ ~dmaDone
    \/ dma = <<>> /\ sts = {} /\ handling = {"done"} /\ ~dmaDone
    \/ dma = <<>> /\ sts = {} /\ handling = {} /\ dmaDone

TransferInv ==
    clean =>
      /\ (\A p \in Procs : pc[p] # "wait") => Quiet
      /\ \A p \in Procs :
           /\ pc[p] = "wait" => OnItsWay(p)
           /\ pc[p] \in {"transfer", "readback"} => sts = {}
           /\ pc[p] \in {"unmask", "readback"} /\ p \in Readers => ~dmaDone
           /\ (pc[p] \in {"unmask", "readback"} /\ p \in Readers)
              \/ pc[p] \in {"wait", "finish"} => ~errorStatus

(* How far the preparations, and the end, of a load have come.             *)
Loading == Owning \ {"preload", "shiftersOff", "shiftersOut", "prRead", "prWrite",
                     "prOff", "resetsOff", "close"}
Linked == lvl = "all" /\ ~rst

LinkInv ==
    clean =>
      /\ isOpen => ~partial
      /\ \A p \in Procs :
           /\ pc[p] \notin {"prRead", "prWrite", "prOff"}
           /\ pc[p] \in {"shiftersOff", "shiftersOut"} => rst
           /\ pc[p] \in Loading => Isolated
           /\ pc[p] = "resetsOff" => lvl = "all"
           /\ pc[p] = "close" => Linked
      /\ ~isOpen /\ pl # Empty => Linked

(* The PL is emptied by the reset of the open call, and then takes what it *)
(* is sent until the device is closed.                                     *)
Filling == InCall \cup {"opened", "call", "sem", "release", "resetsOff", "close"}
Ready == "PROG_B" \in ctrl /\ initb

ResetInv ==
    /\ ~initb => pl = Empty
    /\ clean => \A p \in Procs :
         /\ pc[p] \in {"lowWait", "highRead", "highWrite"} => "PROG_B" \notin ctrl
         /\ pc[p] \in {"highRead", "highWrite"} => ~initb
         /\ pc[p] = "highWait" => "PROG_B" \in ctrl
         /\ pc[p] \in {"highWait", "opened"} => pl = Empty
         /\ pc[p] \in Filling => Ready
         /\ pc[p] \in Opening => residue.len = 0

(* A load has come as far as the file has been read, but for the           *)
(* stragglers that wait for the next call.                                 *)
InWords(n) == (n - HeaderLen) % 4 = 0

Follows(p) ==
    /\ residue.of = p
    /\ swap = (p \in Swapped)

Reached(p, n) ==
    /\ Follows(p)
    /\ InWords(n - residue.len)
    /\ pl = [of |-> p, got |-> n - residue.len]

Between(p) == IF pos[p] = 0 THEN pl = Empty /\ residue.len = 0 ELSE Reached(p, pos[p])

Underway(p) ==
    /\ Follows(p)
    /\ dma[1].fits
    /\ dma[1].to = pos[p] + Count(p) - residue.len /\ InWords(dma[1].to)
    /\ \/ pl = Empty /\ dma[1].from = HeaderLen
       \/ pl = [of |-> p, got |-> dma[1].from]

LoadInv ==
    clean => \A p \in Apps :
      /\ pc[p] \in {"call", "sem", "unmask", "transfer"} => Between(p)
      /\ pc[p] = "wait" => IF dma # <<>> THEN Underway(p) ELSE Reached(p, pos[p] + Count(p))
      /\ pc[p] = "finish" => Reached(p, pos[p] + Count(p))
      /\ pc[p] \in {"release", "resetsOff", "close"} => pl = Whole(p)

(* Who is alone stays so until it is done, and while its server runs.      *)
AloneInv ==
    /\ \A p, q \in Procs : alone[p] /\ pc[p] # "idle" /\ p # q => pc[q] = "idle"
    /\ \A p \in running, q \in Procs : alone[p] => pc[q] = "idle"

ServerInv ==
    clean => \A p \in Apps :
      alone[p] /\ (pc[p] = "run" \/ p \in running) => pl = Whole(p) /\ Linked /\ Ready

(* Who stores no settings has stored none.                                 *)
SettingsInv ==
    /\ SettingsSurvive
    /\ trouble \notin {"settings", "stores"} =>
         locks = {} /\ wanted = {} /\ \A a \in Admins : store[a] = NoStore

DevcfgInv ==
    /\ DevTypes /\ MutexInv /\ ClockInv /\ TransferInv /\ LinkInv
    /\ ResetInv /\ LoadInv /\ AloneInv /\ ServerInv /\ SettingsInv

-----------------------------------------------------------------------------
(* What a step of a process means for its place, the mutex, the device and *)
(* the clock, whichever of the calls it is in.                             *)
Clocked == Holding \cup {"openSem", "sem"}

Moves(p) ==
    /\ pc' \in [Procs -> Places]
    /\ \A q \in Procs : q # p => pc'[q] = pc[q]
    /\ \/ (pc[p] \in Holding <=> pc'[p] \in Holding) /\ sem' = sem
       \/ pc[p] \notin Holding /\ pc'[p] \in Holding /\ sem = Nobody /\ sem' = p
       \/ pc[p] \in Holding /\ pc'[p] \notin Holding /\ sem' = Nobody
    /\ \/ (pc[p] \in Owning <=> pc'[p] \in Owning) /\ isOpen' = isOpen
       \/ pc[p] \notin Owning /\ pc'[p] \in Owning /\ ~isOpen /\ isOpen'
       \/ pc[p] \in Owning /\ pc'[p] \notin Owning /\ ~isOpen'
    /\ \/ (pc[p] \in Clocked <=> pc'[p] \in Clocked) /\ clk' = clk
       \/ pc[p] \notin Clocked /\ pc'[p] \in Clocked /\ clk' = clk + 1
       \/ pc[p] \in Clocked /\ pc'[p] \notin Clocked /\ clk' = clk - 1

LEMMA ProcessMoves ==
    ASSUME pc \in [Procs -> Places], NEW p \in Procs, Start(p) \/ Process(p)
    PROVE  Moves(p)
<1> USE DEF Moves, Goto, Places, Holding, Opening, InCall, Owning, Clocked,
            driver, hardware, history, Return
<1>1. CASE Start(p)
  BY <1>1 DEF Start
<1>2. CASE Interrupted(p) \/ OpenBusy(p)
  BY <1>2 DEF Interrupted, OpenBusy
<1>3. CASE Open(p) \/ Preload(p)
  BY <1>3 DEF Open, Preload
<1>4. CASE EnablePartial(p) \/ ResetPL(p) \/ Opened(p)
  BY <1>4 DEF EnablePartial, ResetPL, Opened, ReadCtrl, WriteCtrl
<1>5. CASE Call(p) \/ Lock(p) \/ Refuse(p)
  BY <1>5 DEF Call, Lock, Refuse
<1>6. CASE ForgetFirst(p) \/ Unmask(p) \/ Transfer(p) \/ Readback(p)
  BY <1>6 DEF ForgetFirst, Unmask, Transfer, Readback
<1>7. CASE Timeout(p) \/ Waited(p) \/ Finish(p)
  BY <1>7 DEF Timeout, Waited, Finish
<1>8. CASE InRelease(p)
  BY <1>8 DEF InRelease, Release, Close, Run, WriteCtrl
<1> QED
  BY <1>1, <1>2, <1>3, <1>4, <1>5, <1>6, <1>7, <1>8 DEF Process, InOpen, InTransfer

(* What goes on beside the calls of the processes.                         *)
Aside ==
    \/ (Irq \/ Hardware) /\ UNCHANGED settingVars
    \/ \E a \in Admins : StoreSetting(a)
    \/ SetIsPartialBitstream
    \/ UNCHANGED devcfgVars

LEMMA StepIsMoveOrAside ==
    [DevcfgNext]_devcfgVars =>
      \/ Aside
      \/ \E p \in Procs : (Start(p) \/ Process(p)) /\ UNCHANGED settingVars
  BY DEF DevcfgNext, DevNext, Aside

LEMMA StoreBegins ==
    ASSUME NEW a \in Admins, SetCtrl(a) \/ SetLock(a)
    PROVE  \E reg \in {"ctrl", "lock"}, bit \in Controls \cup Locks :
              /\ reg = "ctrl" => bit \in Controls
              /\ reg = "lock" => bit \in Locks
              /\ ReadRegister(a, reg, bit)
<1>1. CASE SetCtrl(a)
  BY <1>1 DEF SetCtrl, Controls, SetDapEn, SetDbgen, SetNiden, SetSpiden,
              SetSpniden, SetSeu, SetAes
<1>2. CASE SetLock(a)
  BY <1>2 DEF SetLock, Locks, SetAesEnLock, SetSeuLock, SetDbgLock
<1> QED
  BY <1>1, <1>2

LEMMA AsideKeeps ==
    Aside => UNCHANGED <<pc, pos, snap, sem, isOpen, running, alone, swap,
                         residue, rst, lvl, trouble>>
<1> USE DEF driver, hardware, history
<1>1. CASE Irq
  BY <1>1 DEF Irq, IrqEnter, IrqLeave
<1>2. CASE Hardware
  BY <1>2 DEF Hardware, DmaRuns, InitFollows
<1>3. ASSUME NEW a \in Admins, StoreSetting(a)
      PROVE  UNCHANGED <<pc, pos, snap, sem, isOpen, running, alone, swap,
                         residue, rst, lvl, trouble>>
  <2>1. CASE SetCtrl(a) \/ SetLock(a)
    BY <2>1, StoreBegins DEF ReadRegister
  <2>2. CASE StoreRegister(a) \/ RefuseValue(a)
    BY <2>2 DEF StoreRegister, RefuseValue
  <2> QED
    BY <1>3, <2>1, <2>2 DEF StoreSetting
<1>4. CASE SetIsPartialBitstream
  BY <1>4 DEF SetIsPartialBitstream
<1>5. CASE UNCHANGED devcfgVars
  BY <1>5 DEF devcfgVars, devVars
<1> QED
  BY <1>1, <1>2, <1>3, <1>4, <1>5 DEF Aside

-----------------------------------------------------------------------------
LEMMA NextMutexInv ==
    DevTypes /\ MutexInv /\ [DevcfgNext]_devcfgVars => MutexInv'
<1> SUFFICES ASSUME DevTypes, MutexInv, [DevcfgNext]_devcfgVars PROVE MutexInv'
  OBVIOUS
<1>1. CASE Aside
  BY <1>1, AsideKeeps DEF MutexInv
<1>2. ASSUME NEW p \in Procs, Moves(p) PROVE MutexInv'
  <2>1. pc \in [Procs -> Places] /\ Nobody \notin Procs
    BY DevcfgAssumption DEF DevTypes, PlaceTypes
  <2>2. \A q \in Procs : q # p => pc'[q] = pc[q]
    BY <1>2 DEF Moves
  <2>3. (\A q \in Procs : sem = q <=> pc[q] \in Holding)'
    BY <1>2, <2>1, <2>2 DEF Moves, MutexInv
  <2>4. (\A q, r \in Procs : pc[q] \in Owning /\ pc[r] \in Owning => q = r)'
    BY <1>2, <2>2 DEF Moves, MutexInv
  <2>5. (isOpen <=> \E q \in Procs : pc[q] \in Owning)'
    BY <1>2, <2>2 DEF Moves, MutexInv
  <2> QED
    BY <2>3, <2>4, <2>5 DEF MutexInv
<1> QED
  BY <1>1, <1>2, ProcessMoves, StepIsMoveOrAside DEF DevTypes, PlaceTypes

(* A set of calls that are under way gains one, or loses one.              *)
LEMMA OneMore ==
    ASSUME NEW S, NEW T, IsFiniteSet(S), NEW x, x \notin S, T = S \cup {x}
    PROVE  IsFiniteSet(T) /\ Cardinality(T) = Cardinality(S) + 1
  BY FS_AddElement

LEMMA OneLess ==
    ASSUME NEW S, NEW T, IsFiniteSet(S), NEW x, x \in S, T = S \ {x}
    PROVE  IsFiniteSet(T) /\ Cardinality(T) = Cardinality(S) - 1
  BY FS_RemoveElement

LEMMA NextClockInv ==
    DevTypes /\ ClockInv /\ [DevcfgNext]_devcfgVars => ClockInv' /\ clk' \in Nat
<1> SUFFICES ASSUME DevTypes, ClockInv, [DevcfgNext]_devcfgVars
             PROVE  ClockInv' /\ clk' \in Nat
  OBVIOUS
<1>1. /\ pc \in [Procs -> Places] /\ store \in [Admins -> Stored]
      /\ IsFiniteSet(Clocking) /\ IsFiniteSet(Storing)
      /\ clk = Cardinality(Clocking) + Cardinality(Storing)
  BY DEF DevTypes, PlaceTypes, SettingTypes, ClockInv
<1>2. /\ Cardinality(Clocking) \in Nat /\ Cardinality(Storing) \in Nat
  BY <1>1, FS_CardinalityType
<1>3. Clocking = {p \in Procs : pc[p] \in Clocked}
  BY DEF Clocking, Clocked
<1>4. Clocking' = {p \in Procs : pc'[p] \in Clocked}
  BY DEF Clocking, Clocked
<1>5. ASSUME ClockInv' PROVE clk' \in Nat
  <2>1. /\ IsFiniteSet(Clocking') /\ IsFiniteSet(Storing')
        /\ clk' = Cardinality(Clocking') + Cardinality(Storing')
    BY <1>5 DEF ClockInv
  <2> QED
    BY <2>1, FS_CardinalityType
<1>6. ASSUME NEW p \in Procs, Moves(p), UNCHANGED settingVars PROVE ClockInv'
  <2>1. Storing' = Storing
    BY <1>6 DEF Storing, settingVars
  <2>2. \A q \in Procs : q # p => pc'[q] = pc[q]
    BY <1>6 DEF Moves
  <2>3. CASE (pc[p] \in Clocked <=> pc'[p] \in Clocked) /\ clk' = clk
    <3>1. Clocking' = Clocking
      BY <1>3, <1>4, <2>2, <2>3
    <3> QED
      BY <1>1, <2>1, <2>3, <3>1 DEF ClockInv
  <2>4. CASE pc[p] \notin Clocked /\ pc'[p] \in Clocked /\ clk' = clk + 1
    <3>1. p \notin Clocking /\ Clocking' = Clocking \cup {p}
      BY <1>3, <1>4, <2>2, <2>4
    <3>2. /\ IsFiniteSet(Clocking')
          /\ Cardinality(Clocking') = Cardinality(Clocking) + 1
      BY <1>1, <3>1, OneMore
    <3> QED
      BY <1>1, <1>2, <2>1, <2>4, <3>2 DEF ClockInv
  <2>5. CASE pc[p] \in Clocked /\ pc'[p] \notin Clocked /\ clk' = clk - 1
    <3>1. p \in Clocking /\ Clocking' = Clocking \ {p}
      BY <1>3, <1>4, <2>2, <2>5
    <3>2. /\ IsFiniteSet(Clocking')
          /\ Cardinality(Clocking') = Cardinality(Clocking) - 1
      BY <1>1, <3>1, OneLess
    <3> QED
      BY <1>1, <1>2, <2>1, <2>5, <3>2 DEF ClockInv
  <2> QED
    BY <1>6, <2>3, <2>4, <2>5 DEF Moves
<1>7. ASSUME Aside PROVE Clocking' = Clocking
  BY <1>7, AsideKeeps DEF Clocking
<1>8. ASSUME NEW a \in Admins, StoreSetting(a) PROVE ClockInv'
  <2>1. Clocking' = Clocking
    BY <1>7, <1>8 DEF Aside
  <2>2. CASE SetCtrl(a) \/ SetLock(a)
    <3>1. PICK reg \in {"ctrl", "lock"}, bit \in Controls \cup Locks :
              ReadRegister(a, reg, bit)
      BY <2>2, StoreBegins
    <3>2. a \notin Storing /\ Storing' = Storing \cup {a} /\ clk' = clk + 1
      BY <1>1, <3>1 DEF ReadRegister, Storing, NoStore
    <3>3. /\ IsFiniteSet(Storing')
          /\ Cardinality(Storing') = Cardinality(Storing) + 1
      BY <1>1, <3>2, OneMore
    <3> QED
      BY <1>1, <1>2, <2>1, <3>2, <3>3 DEF ClockInv
  <2>3. CASE StoreRegister(a) \/ RefuseValue(a)
    <3>1. store[a] # NoStore /\ store' = [store EXCEPT ![a] = NoStore] /\ clk' = clk - 1
      BY <2>3 DEF StoreRegister, RefuseValue
    <3>2. a \in Storing /\ Storing' = Storing \ {a}
      BY <1>1, <3>1 DEF Storing
    <3>3. /\ IsFiniteSet(Storing')
          /\ Cardinality(Storing') = Cardinality(Storing) - 1
      BY <1>1, <3>2, OneLess
    <3> QED
      BY <1>1, <1>2, <2>1, <3>1, <3>3 DEF ClockInv
  <2> QED
    BY <1>8, <2>2, <2>3 DEF StoreSetting
<1>9. ASSUME UNCHANGED <<clk, store>>, Aside PROVE ClockInv'
  <2>1. Clocking' = Clocking /\ Storing' = Storing
    BY <1>7, <1>9 DEF Storing
  <2> QED
    BY <1>1, <1>9, <2>1 DEF ClockInv
<1>10. ASSUME Aside PROVE ClockInv'
  <2>1. CASE (Irq \/ Hardware) /\ UNCHANGED settingVars
    <3>1. UNCHANGED clk
      BY <2>1 DEF Irq, IrqEnter, IrqLeave, Hardware, DmaRuns, InitFollows, driver
    <3>2. UNCHANGED store
      BY <2>1 DEF settingVars
    <3> QED
      BY <1>9, <1>10, <3>1, <3>2
  <2>2. CASE SetIsPartialBitstream
    <3>1. UNCHANGED <<clk, store>>
      BY <2>2 DEF SetIsPartialBitstream, settingVars
    <3> QED
      BY <1>9, <1>10, <3>1
  <2>3. CASE UNCHANGED devcfgVars
    <3>1. UNCHANGED <<clk, store>>
      BY <2>3 DEF devcfgVars, devVars, driver, settingVars
    <3> QED
      BY <1>9, <1>10, <3>1
  <2>4. CASE \E a \in Admins : StoreSetting(a)
    BY <1>8, <2>4
  <2> QED
    BY <1>10, <2>1, <2>2, <2>3, <2>4 DEF Aside
<1> QED
  BY <1>1, <1>5, <1>6, <1>10, ProcessMoves, StepIsMoveOrAside

-----------------------------------------------------------------------------
(* The types.                                                              *)
LEMMA FreedIsQueue ==
    ASSUME DevTypes, NEW p \in Procs
    PROVE  /\ Freed(p) \in Seq(Command) /\ Len(Freed(p)) = Len(dma)
           /\ \A i \in 1..Len(dma) : dma[i].of # p => Freed(p)[i] = dma[i]
<1>1. dma \in Seq(Command) /\ DOMAIN dma = 1..Len(dma)
  BY DEF DevTypes, HardwareTypes
<1>2. \A i \in 1..Len(dma) : dma[i] \in Command
  BY <1>1
<1>3. ASSUME NEW d \in Command PROVE [d EXCEPT !.live = FALSE] \in Command
  BY DEF Command
<1> QED
  BY <1>1, <1>2, <1>3 DEF Freed

(* What one write sends ends within the file.                              *)
LEMMA SentWithinFile ==
    ASSUME DevTypes, NEW p \in Apps
    PROVE  /\ Count(p) \in Nat /\ pos[p] \in Nat /\ pos[p] + Count(p) \in 5..FileLen
           /\ First(p) \in Int /\ Stragglers(p) \in 0..3
           /\ HasHeader(p) <=> pos[p] = 0
           /\ First(p) = IF pos[p] = 0 THEN HeaderLen ELSE pos[p] - residue.len
<1>1. /\ HeaderLen \in Nat /\ FileLen \in Nat /\ Block[p] \in Nat
      /\ HeaderLen + 4 < Block[p] /\ Block[p] <= FileLen
  BY DevcfgAssumption DEF Procs
<1>2. /\ pos[p] \in 0..FileLen /\ (pos[p] = 0 \/ pos[p] > 4)
      /\ residue.len \in 0..3
  BY DEF DevTypes, DriverTypes, PlaceTypes, RoleTypes, Procs
<1>3. Count(p) \in Nat /\ pos[p] + Count(p) \in 5..FileLen
  BY <1>1, <1>2 DEF Count
<1>4. HasHeader(p) <=> pos[p] = 0
  BY <1>1, <1>2 DEF Count, HasHeader
<1>5. First(p) = IF pos[p] = 0 THEN HeaderLen ELSE pos[p] - residue.len
  BY <1>4 DEF First
<1> QED
  BY <1>1, <1>2, <1>3, <1>4, <1>5 DEF Stragglers

LEMMA TypesAreRight == DevTypes => DevcfgTypeOK
<1> SUFFICES ASSUME DevTypes PROVE DevcfgTypeOK
  OBVIOUS
<1>1. \A i \in DOMAIN dma : dma[i].of \in Procs /\ dma[i].live \in BOOLEAN
  <2>1. dma \in Seq(Command)
    BY DEF DevTypes, HardwareTypes
  <2>2. \A i \in DOMAIN dma : dma[i] \in Command
    BY <2>1
  <2> QED
    BY <2>2 DEF Command
<1>2. \A a \in Admins : store[a].was \subseteq CtrlBits \cup Locks
  BY DEF DevTypes, SettingTypes, Stored, NoStore
<1> QED
  BY <1>1, <1>2 DEF DevTypes, DevcfgTypeOK, DriverTypes, HardwareTypes, PlaceTypes,
                    HistoryTypes, SettingTypes

LEMMA NextPlaceTypes ==
    DevTypes /\ [DevcfgNext]_devcfgVars => PlaceTypes'
<1> SUFFICES ASSUME DevTypes, [DevcfgNext]_devcfgVars PROVE PlaceTypes'
  OBVIOUS
<1> USE DEF PlaceTypes, driver, hardware, history
<1>1. PlaceTypes /\ HardwareTypes
  BY DEF DevTypes
<1>2. CASE Aside
  BY <1>1, <1>2, AsideKeeps
<1>3. ASSUME NEW p \in Procs, Start(p) \/ Process(p) PROVE PlaceTypes'
  <2>1. pc' \in [Procs -> Places]
    BY <1>1, <1>3, ProcessMoves DEF Moves
  <2>2. CASE Start(p)
    BY <1>1, <2>1, <2>2 DEF Start
  <2>3. CASE InOpen(p)
    BY <1>1, <2>1, <2>3 DEF InOpen, Interrupted, OpenBusy, Open, Preload, EnablePartial,
                            ResetPL, Opened, ReadCtrl, WriteCtrl, HardwareTypes
  <2>4. CASE InTransfer(p) /\ ~Finish(p)
    BY <1>1, <2>1, <2>4 DEF InTransfer, Call, Lock, Refuse, ForgetFirst, Unmask,
                            Transfer, Readback, Timeout, Waited
  <2>5. CASE Finish(p)
    <3>1. Advance(p) \in 0..FileLen
      <4>1. FileLen \in Nat /\ FileLen >= 1
        BY DevcfgAssumption
      <4>2. p \notin Readers => pos[p] + Count(p) \in 5..FileLen
        BY SentWithinFile DEF Procs
      <4> QED
        BY <4>1, <4>2 DEF Advance
    <3> QED
      BY <1>1, <2>1, <2>5, <3>1 DEF Finish
  <2>6. CASE Release(p) \/ Close(p)
    <3>1. CASE Release(p)
      <4>1. /\ pos' = pos /\ running' = running /\ alone' = alone
            /\ \/ snap' = snap
               \/ \E s \in {ctrl, {}} : snap' = [snap EXCEPT ![p] = s]
        BY <3>1 DEF Release, WriteCtrl
      <4>2. \A s \in {ctrl, {}} : s \in SUBSET CtrlBits
        BY <1>1 DEF HardwareTypes
      <4>3. snap' \in [Procs -> SUBSET CtrlBits]
        BY <1>1, <4>1, <4>2
      <4> QED
        BY Zenon, <1>1, <2>1, <4>1, <4>3
    <3>2. CASE Close(p)
      BY Zenon, <1>1, <2>1, <3>2 DEF Close
    <3> QED
      BY Zenon, <2>6, <3>1, <3>2
  <2>7. CASE Run(p)
    BY <1>1, <2>1, <2>7, DevcfgAssumption DEF Run
  <2> QED
    BY <1>3, <2>2, <2>3, <2>4, <2>5, <2>6, <2>7 DEF Process, InRelease
<1> QED
  BY <1>2, <1>3, StepIsMoveOrAside

LEMMA NextRoleTypes ==
    DevTypes /\ [DevcfgNext]_devcfgVars => RoleTypes'
<1> SUFFICES ASSUME DevTypes, [DevcfgNext]_devcfgVars PROVE RoleTypes'
  OBVIOUS
<1> USE DEF RoleTypes, Opening, Goto
<1>1. RoleTypes /\ PlaceTypes
  BY DEF DevTypes
<1>2. CASE Aside
  BY <1>1, <1>2, AsideKeeps
<1>3. ASSUME NEW p \in Procs, Start(p) \/ Process(p) PROVE RoleTypes'
  <2>1. pc' \in [Procs -> Places] /\ \A q \in Procs : q # p => pc'[q] = pc[q]
    BY <1>1, <1>3, ProcessMoves DEF Moves, PlaceTypes
  <2>2. CASE Start(p)
    BY <1>1, <2>1, <2>2 DEF Start, PlaceTypes
  <2>3. CASE InOpen(p)
    BY <1>1, <2>1, <2>3 DEF InOpen, Interrupted, OpenBusy, Open, Preload, EnablePartial,
                            ResetPL, Opened, ReadCtrl, WriteCtrl, PlaceTypes
  <2>4. CASE InTransfer(p) /\ ~Finish(p)
    BY <1>1, <2>1, <2>4 DEF InTransfer, Call, Lock, Refuse, ForgetFirst, Unmask,
                            Transfer, Readback, Timeout, Waited, PlaceTypes, Procs
  <2>5. CASE Finish(p)
    <3>1. p \in Apps => Advance(p) > 4
      BY SentWithinFile, DevcfgAssumption DEF Advance
    <3> QED
      BY <1>1, <2>1, <2>5, <3>1 DEF Finish, PlaceTypes
  <2>6. CASE Release(p) \/ Close(p)
    BY <1>1, <2>1, <2>6 DEF Release, Close, WriteCtrl, PlaceTypes
  <2>7. CASE Run(p)
    BY <1>1, <2>1, <2>7 DEF Run, PlaceTypes
  <2> QED
    BY <1>3, <2>2, <2>3, <2>4, <2>5, <2>6, <2>7 DEF Process, InRelease
<1> QED
  BY <1>2, <1>3, StepIsMoveOrAside

LEMMA NextSettingTypes ==
    DevTypes /\ [DevcfgNext]_devcfgVars => SettingTypes'
<1> SUFFICES ASSUME DevTypes, [DevcfgNext]_devcfgVars PROVE SettingTypes'
  OBVIOUS
<1>1. SettingTypes /\ HardwareTypes
  BY DEF DevTypes
<1>2. CASE UNCHANGED settingVars
  BY <1>1, <1>2 DEF SettingTypes, settingVars
<1>3. ASSUME NEW a \in Admins, SetCtrl(a) \/ SetLock(a) PROVE SettingTypes'
  <2>1. PICK reg \in {"ctrl", "lock"}, bit \in Controls \cup Locks :
              /\ reg = "ctrl" => bit \in Controls
              /\ reg = "lock" => bit \in Locks
              /\ ReadRegister(a, reg, bit)
    BY <1>3, StoreBegins
  <2>2. [reg |-> reg, bit |-> bit, was |-> IF reg = "ctrl" THEN ctrl ELSE locks] \in Stored
    BY <1>1, <2>1 DEF Stored, SettingTypes, HardwareTypes
  <2>3. stores + 1 \in 0..MaxStores
    <3>1. StoreBound \in 0..MaxStores
      BY SettingsAssumption DEF StoreBound
    <3> QED
      BY <1>1, <2>1, <3>1, SettingsAssumption DEF ReadRegister, SettingTypes
  <2> QED
    BY <1>1, <2>1, <2>2, <2>3 DEF ReadRegister, SettingTypes
<1>4. ASSUME NEW a \in Admins, RefuseValue(a) PROVE SettingTypes'
  BY <1>1, <1>4 DEF RefuseValue, SettingTypes, Stored
<1>5. ASSUME NEW a \in Admins, StoreRegister(a) PROVE SettingTypes'
  <2>1. PICK on \in BOOLEAN :
          /\ locks' = IF store[a].reg = "lock" THEN Written(store[a], on) ELSE locks
          /\ wanted' = IF on THEN wanted \cup {<<store[a].reg, store[a].bit>>}
                       ELSE IF store[a].bit = "DAP" THEN wanted
                       ELSE wanted \ {<<store[a].reg, store[a].bit>>}
    BY <1>5 DEF StoreRegister
  <2>2. /\ store[a] \in Stored /\ store[a] # NoStore
        /\ store' = [store EXCEPT ![a] = NoStore] /\ stores' = stores
    BY <1>1, <1>5 DEF StoreRegister, SettingTypes
  <2>3. locks' \in SUBSET Locks
    BY <1>1, <2>1, <2>2 DEF SettingTypes, Stored, Written
  <2>4. wanted' \in SUBSET (({"ctrl"} \X Controls) \cup ({"lock"} \X Locks))
    <3>1. <<store[a].reg, store[a].bit>> \in ({"ctrl"} \X Controls) \cup ({"lock"} \X Locks)
      BY <2>2 DEF Stored
    <3> QED
      BY <1>1, <2>1, <3>1 DEF SettingTypes
  <2> QED
    BY <1>1, <2>2, <2>3, <2>4 DEF SettingTypes, Stored
<1>6. SetIsPartialBitstream \/ UNCHANGED devcfgVars => UNCHANGED settingVars
  BY DEF SetIsPartialBitstream, devcfgVars
<1> QED
  BY <1>2, <1>3, <1>4, <1>5, <1>6 DEF DevcfgNext, StoreSetting

LEMMA NextHistoryTypes ==
    DevTypes /\ [DevcfgNext]_devcfgVars => HistoryTypes'
<1> SUFFICES ASSUME DevTypes, [DevcfgNext]_devcfgVars PROVE HistoryTypes'
  OBVIOUS
<1> USE DEF HistoryTypes, history
<1>1. HistoryTypes
  BY DEF DevTypes
<1>2. ASSUME NEW p \in Procs, Start(p) \/ Process(p) PROVE HistoryTypes'
  <2>1. CASE Start(p)
    BY <1>1, <2>1 DEF Start
  <2>2. CASE InOpen(p)
    BY <1>1, <2>2 DEF InOpen, Interrupted, OpenBusy, Open, Preload, EnablePartial,
                      ResetPL, Opened, ReadCtrl, WriteCtrl
  <2>3. CASE InTransfer(p)
    BY <1>1, <2>3 DEF InTransfer, Call, Lock, Refuse, ForgetFirst, Unmask,
                      Transfer, Readback, Timeout, Waited, Finish
  <2>4. CASE InRelease(p)
    BY <1>1, <2>4 DEF InRelease, Release, Close, Run, WriteCtrl
  <2> QED
    BY <1>2, <2>1, <2>2, <2>3, <2>4 DEF Process
<1>3. CASE Irq \/ Hardware
  BY <1>1, <1>3 DEF Irq, IrqEnter, IrqLeave, Hardware, DmaRuns, InitFollows
<1>4. ASSUME NEW a \in Admins, SetCtrl(a) \/ SetLock(a) PROVE HistoryTypes'
  BY <1>1, <1>4, StoreBegins DEF ReadRegister
<1>5. ASSUME NEW a \in Admins, StoreRegister(a) \/ RefuseValue(a) PROVE HistoryTypes'
  BY <1>1, <1>5 DEF StoreRegister, RefuseValue
<1>6. CASE SetIsPartialBitstream \/ UNCHANGED devcfgVars
  BY <1>1, <1>6 DEF SetIsPartialBitstream, devcfgVars, devVars
<1> QED
  BY <1>2, <1>3, <1>4, <1>5, <1>6 DEF DevcfgNext, DevNext, StoreSetting

LEMMA NextDriverTypes ==
    DevTypes /\ clk' \in Nat /\ [DevcfgNext]_devcfgVars => DriverTypes'
<1> SUFFICES ASSUME DevTypes, clk' \in Nat, [DevcfgNext]_devcfgVars PROVE DriverTypes'
  OBVIOUS
<1> USE DEF DriverTypes, driver, Return
<1>1. DriverTypes
  BY DEF DevTypes
<1>2. ASSUME NEW p \in Procs, Start(p) \/ Process(p) PROVE DriverTypes'
  <2>1. CASE Start(p)
    BY <1>1, <2>1 DEF Start
  <2>2. CASE InOpen(p)
    <3>1. CASE Open(p)
      <4>1. NoResidue \in [of : Procs \cup {Nobody}, len : 0..3]
        BY DEF NoResidue
      <4> QED
        BY <1>1, <3>1, <4>1 DEF Open
    <3>2. CASE InOpen(p) /\ ~Open(p)
      BY <1>1, <3>2 DEF InOpen, Interrupted, OpenBusy, Preload, EnablePartial,
                        ResetPL, Opened, ReadCtrl, WriteCtrl
    <3> QED
      BY <2>2, <3>1, <3>2
  <2>3. CASE InTransfer(p) /\ ~Transfer(p)
    BY <1>1, <2>3 DEF InTransfer, Call, Lock, Refuse, ForgetFirst, Unmask,
                      Readback, Timeout, Waited, Finish, Forget
  <2>4. CASE Transfer(p)
    <3>1. p \in Apps
      BY <2>4 DEF DevTypes, RoleTypes, Transfer, Goto
    <3>2. Stragglers(p) \in 0..3
      BY <3>1, SentWithinFile
    <3>3. residue' \in [of : Procs \cup {Nobody}, len : 0..3]
      BY <2>4, <3>2 DEF Transfer
    <3>4. swap' \in BOOLEAN
      <4>1. (p \in Swapped) \in BOOLEAN /\ swap \in BOOLEAN
        BY <1>1
      <4>2. swap' = IF HasHeader(p) THEN p \in Swapped ELSE swap
        BY <2>4 DEF Transfer
      <4> QED
        BY <4>1, <4>2
    <3> QED
      BY <1>1, <2>4, <3>3, <3>4 DEF Transfer, Forget
  <2>5. CASE InRelease(p)
    BY <1>1, <2>5 DEF InRelease, Release, Close, Run, WriteCtrl
  <2> QED
    BY <1>2, <2>1, <2>2, <2>3, <2>4, <2>5 DEF Process
<1>3. CASE Irq \/ Hardware
  BY <1>1, <1>3 DEF Irq, IrqEnter, IrqLeave, Hardware, DmaRuns, InitFollows
<1>4. ASSUME NEW a \in Admins, SetCtrl(a) \/ SetLock(a) PROVE DriverTypes'
  BY <1>1, <1>4, StoreBegins DEF ReadRegister
<1>5. ASSUME NEW a \in Admins, StoreRegister(a) \/ RefuseValue(a) PROVE DriverTypes'
  BY <1>1, <1>5 DEF StoreRegister, RefuseValue
<1>6. CASE SetIsPartialBitstream \/ UNCHANGED devcfgVars
  BY <1>1, <1>6 DEF SetIsPartialBitstream, devcfgVars, devVars
<1> QED
  BY <1>2, <1>3, <1>4, <1>5, <1>6 DEF DevcfgNext, DevNext, StoreSetting

LEMMA NextHardwareTypes ==
    DevTypes /\ [DevcfgNext]_devcfgVars => HardwareTypes'
<1> SUFFICES ASSUME DevTypes, [DevcfgNext]_devcfgVars PROVE HardwareTypes'
  OBVIOUS
<1> USE DEF HardwareTypes, hardware
<1>1. HardwareTypes /\ PlaceTypes
  BY DEF DevTypes
<1>2. ASSUME NEW p \in Procs, Start(p) \/ Process(p) PROVE HardwareTypes'
  <2>1. snap[p] \in SUBSET CtrlBits
    BY <1>1 DEF PlaceTypes
  <2>2. CASE Start(p)
    BY <1>1, <2>2 DEF Start
  <2>3. CASE Interrupted(p) \/ OpenBusy(p) \/ Open(p) \/ Preload(p) \/ Opened(p)
    BY <1>1, <2>3 DEF Interrupted, OpenBusy, Open, Preload, Opened
  <2>4. CASE EnablePartial(p) \/ ResetPL(p)
    BY <1>1, <2>1, <2>4 DEF EnablePartial, ResetPL, ReadCtrl, WriteCtrl, CtrlBits, Low, High
  <2>5. CASE Call(p) \/ Lock(p) \/ Refuse(p) \/ ForgetFirst(p) \/ Unmask(p) \/ Waited(p)
    BY <1>1, <2>5 DEF Call, Lock, Refuse, ForgetFirst, Unmask, Waited
  <2>6. CASE Transfer(p)
    <3>1. p \in Apps
      BY <2>6 DEF DevTypes, RoleTypes, Transfer, Goto
    <3> DEFINE d == [of |-> p, live |-> TRUE, from |-> First(p),
                     to |-> pos[p] + Count(p) - Stragglers(p),
                     fits |-> /\ swap' = (p \in Swapped)
                              /\ residue.len > 0 => residue.of = p]
    <3>2. d \in Command
      BY <3>1, SentWithinFile, DevcfgAssumption DEF Command
    <3>3. dma' = Append(dma, d)
      BY <2>6 DEF Transfer
    <3> HIDE DEF d
    <3>4. dma' \in Seq(Command)
      BY <1>1, <3>2, <3>3
    <3> QED
      BY <1>1, <2>6, <3>4 DEF Transfer
  <2>7. CASE Readback(p)
    <3> DEFINE d == [of |-> p, live |-> TRUE, from |-> 0, to |-> 0, fits |-> TRUE]
    <3>1. d \in Command
      BY DevcfgAssumption DEF Command
    <3>2. dma' = Append(dma, d)
      BY <2>7 DEF Readback
    <3> HIDE DEF d
    <3>3. dma' \in Seq(Command)
      BY <1>1, <3>1, <3>2
    <3> QED
      BY <1>1, <2>7, <3>3 DEF Readback
  <2>8. CASE Timeout(p) \/ Finish(p)
    BY <1>1, <2>8, FreedIsQueue DEF Timeout, Finish
  <2>9. CASE InRelease(p)
    BY <1>1, <2>1, <2>9 DEF InRelease, Release, Close, Run, WriteCtrl, CtrlBits, PostloadLevel
  <2> QED
    BY <1>2, <2>2, <2>3, <2>4, <2>5, <2>6, <2>7, <2>8, <2>9
       DEF Process, InOpen, InTransfer
<1>3. CASE Irq
  BY <1>1, <1>3 DEF Irq, IrqEnter, IrqLeave
<1>4. CASE DmaRuns
  <2>1. dma # <<>> /\ Tail(dma) \in Seq(Command) /\ Head(dma) \in Command
    BY <1>1, <1>4 DEF DmaRuns
  <2>2. Junk \in [of : Procs \cup {Nobody}, got : 0..FileLen]
    <3>1. Head(dma).of \in Procs
      BY <2>1 DEF Command
    <3>2. FileLen >= 1 /\ FileLen \in Nat
      BY <3>1, DevcfgAssumption
    <3> QED
      BY <3>2 DEF Junk
  <2>3. Grown(Head(dma)) \in [of : Procs \cup {Nobody}, got : 0..FileLen]
    BY <1>1, <2>1, <2>2 DEF Grown, Command
  <2> QED
    BY <1>1, <1>4, <2>1, <2>2, <2>3 DEF DmaRuns
<1>5. CASE InitFollows
  BY <1>1, <1>5, DevcfgAssumption DEF InitFollows, Empty
<1>6. ASSUME NEW a \in Admins, SetCtrl(a) \/ SetLock(a) PROVE HardwareTypes'
  BY <1>1, <1>6, StoreBegins DEF ReadRegister
<1>7. ASSUME NEW a \in Admins, RefuseValue(a) PROVE HardwareTypes'
  BY <1>1, <1>7 DEF RefuseValue
<1>8. ASSUME NEW a \in Admins, StoreRegister(a) PROVE HardwareTypes'
  <2>1. store[a] \in Stored /\ store[a] # NoStore
    BY <1>8 DEF StoreRegister, DevTypes, SettingTypes
  <2>2. PICK on \in BOOLEAN :
           ctrl' = IF store[a].reg = "ctrl" THEN Written(store[a], on) ELSE ctrl
    BY <1>8 DEF StoreRegister
  <2>3. ctrl' \in SUBSET CtrlBits
    BY <1>1, <2>1, <2>2 DEF Stored, Written, CtrlBits
  <2> QED
    BY <1>1, <1>8, <2>3 DEF StoreRegister
<1>9. CASE SetIsPartialBitstream \/ UNCHANGED devcfgVars
  BY <1>1, <1>9 DEF SetIsPartialBitstream, devcfgVars, devVars
<1> QED
  BY <1>2, <1>3, <1>4, <1>5, <1>6, <1>7, <1>8, <1>9
     DEF DevcfgNext, DevNext, Hardware, StoreSetting

LEMMA NextDevTypes ==
    DevTypes /\ clk' \in Nat /\ [DevcfgNext]_devcfgVars => DevTypes'
  BY NextDriverTypes, NextHardwareTypes, NextPlaceTypes, NextRoleTypes,
     NextHistoryTypes, NextSettingTypes DEF DevTypes

-----------------------------------------------------------------------------
(* The settings, bit by bit.                                               *)
Agree ==
    /\ \A b \in Controls : b \in ctrl <=> <<"ctrl", b>> \in wanted
    /\ \A b \in Locks : b \in locks <=> <<"lock", b>> \in wanted

LEMMA BitByBit == DevTypes => (SettingsSurvive <=> (~stale => Agree))
<1> SUFFICES ASSUME DevTypes
             PROVE  ({"ctrl"} \X (ctrl \cap Controls)) \cup ({"lock"} \X locks) = wanted
                      <=> Agree
  BY DEF SettingsSurvive
<1>1. /\ locks \in SUBSET Locks
      /\ wanted \in SUBSET (({"ctrl"} \X Controls) \cup ({"lock"} \X Locks))
  BY DEF DevTypes, SettingTypes
<1> DEFINE kept == ({"ctrl"} \X (ctrl \cap Controls)) \cup ({"lock"} \X locks)
<1>2. \A b \in Controls : <<"ctrl", b>> \in kept <=> b \in ctrl
  OBVIOUS
<1>3. \A b \in Locks : <<"lock", b>> \in kept <=> b \in locks
  OBVIOUS
<1>4. kept \in SUBSET (({"ctrl"} \X Controls) \cup ({"lock"} \X Locks))
  BY <1>1
<1> HIDE DEF kept
<1>5. ASSUME Agree, NEW key \in ({"ctrl"} \X Controls) \cup ({"lock"} \X Locks)
      PROVE  key \in kept <=> key \in wanted
  <2>1. CASE key \in {"ctrl"} \X Controls
    <3>1. PICK b \in Controls : key = <<"ctrl", b>>
      BY <2>1
    <3> QED
      BY <3>1, <1>2, <1>5 DEF Agree
  <2>2. CASE key \in {"lock"} \X Locks
    <3>1. PICK b \in Locks : key = <<"lock", b>>
      BY <2>2
    <3> QED
      BY <3>1, <1>3, <1>5 DEF Agree
  <2> QED
    BY <1>5, <2>1, <2>2
<1>6. ASSUME Agree PROVE kept = wanted
  BY <1>1, <1>4, <1>5, <1>6
<1>7. ASSUME kept = wanted PROVE Agree
  BY <1>2, <1>3, <1>7 DEF Agree
<1> QED
  BY <1>6, <1>7 DEF kept

LEMMA NextSettingsInv ==
    DevTypes /\ DevTypes' /\ SettingsInv /\ [DevcfgNext]_devcfgVars => SettingsInv'
<1> SUFFICES ASSUME DevTypes, DevTypes', SettingsInv, [DevcfgNext]_devcfgVars
             PROVE  SettingsInv'
  OBVIOUS
<1>1. ~stale => Agree
  BY BitByBit DEF SettingsInv
<1>2. (DevTypes => (SettingsSurvive <=> (~stale => Agree)))'
  BY BitByBit, PTL
<1>3. trouble' = trouble
  <2>1. ASSUME NEW p \in Procs, Start(p) \/ Process(p) PROVE trouble' = trouble
    <3> USE DEF history
    <3>1. CASE Start(p) \/ InOpen(p)
      BY <3>1 DEF Start, InOpen, Interrupted, OpenBusy, Open, Preload, EnablePartial,
                  ResetPL, Opened, ReadCtrl, WriteCtrl
    <3>2. CASE InTransfer(p)
      BY <3>2 DEF InTransfer, Call, Lock, Refuse, ForgetFirst, Unmask,
                  Transfer, Readback, Timeout, Waited, Finish
    <3>3. CASE InRelease(p)
      BY <3>3 DEF InRelease, Release, Close, Run, WriteCtrl
    <3> QED
      BY <2>1, <3>1, <3>2, <3>3 DEF Process
  <2> QED
    BY <2>1, AsideKeeps, StepIsMoveOrAside
<1>4. ASSUME UNCHANGED settingVars, ~stale' => ~stale /\ \A b \in Controls : b \in ctrl' <=> b \in ctrl
      PROVE  SettingsInv'
  <2>1. ~stale' => Agree'
    BY <1>1, <1>4 DEF Agree, settingVars
  <2> QED
    BY <1>2, <1>3, <1>4, <2>1 DEF SettingsInv, settingVars
<1>5. ASSUME NEW p \in Procs, Start(p) \/ Process(p), UNCHANGED settingVars
      PROVE  SettingsInv'
  <2>1. ~stale' => ~stale /\ \A b \in Controls : b \in ctrl' <=> b \in ctrl
    <3>1. ASSUME UNCHANGED <<ctrl, stale>>
          PROVE  ~stale' => ~stale /\ \A b \in Controls : b \in ctrl' <=> b \in ctrl
      BY <3>1
    <3>2. UNCHANGED <<ctrl, stale>> \/ EnablePartial(p) \/ ResetPL(p) \/ Release(p)
      <4> USE DEF history, hardware
      <4>1. CASE Start(p)
        BY <4>1 DEF Start
      <4>2. CASE InOpen(p)
        BY <4>2 DEF InOpen, Interrupted, OpenBusy, Open, Preload, Opened
      <4>3. CASE InTransfer(p)
        BY <4>3 DEF InTransfer, Call, Lock, Refuse, ForgetFirst, Unmask,
                    Transfer, Readback, Timeout, Waited, Finish
      <4>4. CASE InRelease(p)
        BY <4>4 DEF InRelease, Close, Run
      <4> QED
        BY <1>5, <4>1, <4>2, <4>3, <4>4 DEF Process
    <3>3. ASSUME NEW from, NEW to, NEW bits, WriteCtrl(p, from, to, bits),
                 snap[p] = ctrl => \A b \in Controls : b \in bits <=> b \in ctrl
          PROVE  ~stale' => ~stale /\ \A b \in Controls : b \in ctrl' <=> b \in ctrl
      BY <3>3 DEF WriteCtrl
    <3>4. \A b \in Controls :
             /\ b \in snap[p] \cup {"PR"} <=> b \in snap[p]
             /\ b \in snap[p] \ {"PR"} <=> b \in snap[p]
             /\ b \in Low(snap[p]) <=> b \in snap[p]
             /\ b \in High(snap[p]) <=> b \in snap[p]
      BY DEF Controls, Low, High
    <3>5. CASE EnablePartial(p)
      BY <3>1, <3>3, <3>4, <3>5 DEF EnablePartial, history, hardware
    <3>6. CASE ResetPL(p)
      BY <3>1, <3>3, <3>4, <3>6 DEF ResetPL, history, hardware
    <3>7. CASE Release(p)
      BY <3>1, <3>3, <3>4, <3>7 DEF Release, history
    <3> QED
      BY <3>1, <3>2, <3>5, <3>6, <3>7
  <2> QED
    BY <1>4, <1>5, <2>1
<1>6. ASSUME Irq \/ Hardware, UNCHANGED settingVars PROVE SettingsInv'
  BY <1>4, <1>6 DEF Irq, IrqEnter, IrqLeave, Hardware, DmaRuns, InitFollows, history
<1>7. ASSUME SetIsPartialBitstream PROVE SettingsInv'
  BY <1>4, <1>7 DEF SetIsPartialBitstream, hardware
<1>8. ASSUME UNCHANGED devcfgVars PROVE SettingsInv'
  BY <1>4, <1>8 DEF devcfgVars, devVars, hardware, history
<1>9. ASSUME NEW a \in Admins, SetCtrl(a) \/ SetLock(a) PROVE SettingsInv'
  <2>1. PICK reg \in {"ctrl", "lock"}, bit \in Controls \cup Locks :
              ReadRegister(a, reg, bit)
    BY <1>9, StoreBegins
  <2>2. trouble \in {"settings", "stores"}
    BY <2>1 DEF ReadRegister, StoreBound, DevTypes, SettingTypes
  <2>3. ~stale' => Agree'
    BY <1>1, <2>1 DEF ReadRegister, Agree, hardware, history
  <2> QED
    BY <1>2, <1>3, <2>2, <2>3 DEF SettingsInv
<1>10. ASSUME NEW a \in Admins, StoreRegister(a) \/ RefuseValue(a) PROVE SettingsInv'
  <2>1. trouble \in {"settings", "stores"}
    BY <1>10 DEF StoreRegister, RefuseValue, SettingsInv
  <2>2. CASE RefuseValue(a)
    <3>1. ~stale' => Agree'
      BY <1>1, <2>2 DEF RefuseValue, Agree, hardware, history
    <3> QED
      BY <1>2, <1>3, <2>1, <3>1 DEF SettingsInv
  <2>3. CASE StoreRegister(a)
    <3>1. store[a] \in Stored /\ store[a] # NoStore
      BY <2>3 DEF StoreRegister, DevTypes, SettingTypes
    <3>2. PICK s \in Stored : s = store[a]
      BY <3>1
    <3>3. PICK on \in BOOLEAN :
             /\ ctrl' = IF s.reg = "ctrl" THEN Written(s, on) ELSE ctrl
             /\ locks' = IF s.reg = "lock" THEN Written(s, on) ELSE locks
             /\ wanted' = IF on THEN wanted \cup {<<s.reg, s.bit>>}
                          ELSE IF s.bit = "DAP" THEN wanted ELSE wanted \ {<<s.reg, s.bit>>}
             /\ stale' = (stale \/ s.was # IF s.reg = "ctrl" THEN ctrl ELSE locks)
      BY <2>3, <3>2 DEF StoreRegister
    <3>4. ASSUME ~stale' PROVE Agree'
      <4>1. Agree /\ s.was = (IF s.reg = "ctrl" THEN ctrl ELSE locks)
        BY <1>1, <3>3, <3>4
      <4>2. CASE s.reg = "ctrl"
        <5>1. s.bit \in Controls
          BY <3>1, <3>2, <4>2 DEF Stored, NoStore
        <5>2. \A b \in Controls : b \in ctrl' <=> <<"ctrl", b>> \in wanted'
          BY <3>3, <4>1, <4>2, <5>1 DEF Written, Agree
        <5>3. \A b \in Locks : b \in locks' <=> <<"lock", b>> \in wanted'
          BY <3>3, <4>1, <4>2 DEF Agree
        <5> QED
          BY <5>2, <5>3 DEF Agree
      <4>3. CASE s.reg = "lock"
        <5>1. s.bit \in Locks /\ s.bit # "DAP"
          BY <3>1, <3>2, <4>3 DEF Stored, NoStore, Locks
        <5>2. \A b \in Controls : b \in ctrl' <=> <<"ctrl", b>> \in wanted'
          BY <3>3, <4>1, <4>3 DEF Agree
        <5>3. \A b \in Locks : b \in locks' <=> <<"lock", b>> \in wanted'
          BY <3>3, <4>1, <4>3, <5>1 DEF Written, Agree
        <5> QED
          BY <5>2, <5>3 DEF Agree
      <4> QED
        BY <3>1, <3>2, <4>2, <4>3 DEF Stored
    <3> QED
      BY <1>2, <1>3, <2>1, <3>4 DEF SettingsInv
  <2> QED
    BY <1>10, <2>2, <2>3
<1> QED
  BY <1>5, <1>6, <1>7, <1>8, <1>9, <1>10
     DEF DevcfgNext, DevNext, StoreSetting

-----------------------------------------------------------------------------
(* What is not clean becomes so with an open call only.                    *)
LEMMA CleanBefore ==
    DevTypes /\ [DevcfgNext]_devcfgVars /\ clean' =>
      clean \/ \E p \in Procs : Open(p) /\ UNCHANGED settingVars
<1> SUFFICES ASSUME DevTypes, [DevcfgNext]_devcfgVars, clean',
                    \A p \in Procs : ~(Open(p) /\ UNCHANGED settingVars)
             PROVE  clean
  OBVIOUS
<1> USE DEF history
<1>1. ASSUME NEW p \in Procs, Start(p) \/ Process(p), UNCHANGED settingVars PROVE clean
  <2>1. CASE Start(p)
    BY <2>1 DEF Start
  <2>2. CASE InOpen(p)
    BY <1>1, <2>2 DEF InOpen, Interrupted, OpenBusy, Preload, EnablePartial,
                      ResetPL, Opened, ReadCtrl, WriteCtrl
  <2>3. CASE InTransfer(p)
    BY <2>3 DEF InTransfer, Call, Lock, Refuse, ForgetFirst, Unmask,
                Transfer, Readback, Timeout, Waited, Finish
  <2>4. CASE InRelease(p)
    BY <2>4 DEF InRelease, Release, Close, Run, WriteCtrl
  <2> QED
    BY <1>1, <2>1, <2>2, <2>3, <2>4 DEF Process
<1>2. CASE Irq \/ Hardware
  BY <1>2 DEF Irq, IrqEnter, IrqLeave, Hardware, DmaRuns, InitFollows
<1>3. ASSUME NEW a \in Admins, SetCtrl(a) \/ SetLock(a) PROVE clean
  BY <1>3, StoreBegins DEF ReadRegister
<1>4. ASSUME NEW a \in Admins, StoreRegister(a) \/ RefuseValue(a) PROVE clean
  BY <1>4 DEF StoreRegister, RefuseValue
<1>5. CASE SetIsPartialBitstream \/ UNCHANGED devcfgVars
  BY <1>5 DEF SetIsPartialBitstream, devcfgVars, devVars
<1> QED
  BY <1>1, <1>2, <1>3, <1>4, <1>5 DEF DevcfgNext, DevNext, StoreSetting

-----------------------------------------------------------------------------
(* A command and its interrupt.                                            *)
Awaiting == {"unmask", "transfer", "readback", "wait", "finish"}

LEMMA NothingOnItsWay ==
    ASSUME TransferInv, clean, UNCHANGED <<dma, sts, enabled, handling, dmaDone, errorStatus>>,
           \A q \in Procs : /\ pc'[q] \in Awaiting => pc'[q] = pc[q]
                            /\ pc[q] = "wait" => pc'[q] = "wait"
    PROVE  TransferInv'
  BY DEF TransferInv, Awaiting, Quiet, OnItsWay

LEMMA NextTransferInv ==
    DevTypes /\ MutexInv /\ TransferInv /\ [DevcfgNext]_devcfgVars => TransferInv'
<1> SUFFICES ASSUME DevTypes, MutexInv, TransferInv, [DevcfgNext]_devcfgVars, clean'
             PROVE  TransferInv'
  BY DEF TransferInv
<1>1. PlaceTypes /\ HardwareTypes /\ DriverTypes /\ pc \in [Procs -> Places]
  BY DEF DevTypes, PlaceTypes
<1>2. ASSUME NEW p \in Procs, Open(p) PROVE TransferInv'
  <2>1. \A q \in Procs : pc'[q] \notin Awaiting
    BY <1>1, <1>2 DEF Open, Goto, Awaiting, MutexInv, Owning, Holding, InCall
  <2>2. Quiet'
    BY <1>2 DEF Open, Quiet, hardware
  <2> QED
    BY <2>1, <2>2 DEF TransferInv, Awaiting
<1>3. ASSUME NEW p \in Procs, pc[p] \in InCall
      PROVE  \A q \in Procs : q # p => pc[q] \notin InCall
  BY <1>3 DEF MutexInv, Owning, Holding
<1>4. ASSUME clean, NEW p \in Procs, Start(p) \/ Process(p), ~Open(p) PROVE TransferInv'
  <2>1. \A q \in Procs : q # p => pc'[q] = pc[q]
    BY <1>1, <1>4, ProcessMoves DEF Moves
  <2>2. ASSUME UNCHANGED <<dma, sts, enabled, handling, dmaDone, errorStatus>>,
               pc'[p] \notin Awaiting, pc[p] # "wait"
        PROVE  TransferInv'
    BY <1>4, <2>1, <2>2, NothingOnItsWay
  <2> USE DEF driver, hardware, history, Goto, Awaiting
  <2>3. CASE Start(p)
    BY <1>1, <2>2, <2>3 DEF Start
  <2>4. CASE InOpen(p)
    <3>1. UNCHANGED <<dma, sts, enabled, handling, dmaDone, errorStatus>>
      BY <1>4, <2>4 DEF InOpen, Interrupted, OpenBusy, Preload, EnablePartial,
                        ResetPL, Opened, ReadCtrl, WriteCtrl
    <3>2. pc'[p] \notin Awaiting /\ pc[p] # "wait"
      BY <1>1, <1>4, <2>4 DEF InOpen, Interrupted, OpenBusy, Preload, EnablePartial,
                              ResetPL, Opened, ReadCtrl, WriteCtrl
    <3> QED
      BY <2>2, <3>1, <3>2
  <2>5. CASE InRelease(p)
    <3>1. UNCHANGED <<dma, sts, enabled, handling, dmaDone, errorStatus>>
      BY <2>5 DEF InRelease, Release, Close, Run, WriteCtrl
    <3>2. pc'[p] \notin Awaiting /\ pc[p] # "wait"
      BY <1>1, <2>5 DEF InRelease, Release, Close, Run, WriteCtrl
    <3> QED
      BY <2>2, <3>1, <3>2
  <2>6. CASE Call(p)
    BY <1>1, <2>2, <2>6 DEF Call
  <2>7. CASE Lock(p)
    <3>1. UNCHANGED <<dma, sts, enabled, handling, dmaDone, errorStatus>>
      BY <2>7 DEF Lock
    <3>2. pc[p] = "sem" /\ pc'[p] \in {"forget", "unmask"} /\ (p \in Readers => pc'[p] = "forget")
      BY <1>1, <2>7 DEF Lock
    <3> QED
      BY <1>4, <2>1, <3>1, <3>2 DEF TransferInv, Quiet, OnItsWay
  <2>8. CASE Refuse(p) \/ Timeout(p)
    BY <2>8 DEF Refuse, Timeout
  <2>9. CASE ForgetFirst(p)
    <3>1. /\ pc[p] = "forget" /\ pc'[p] = "unmask"
          /\ UNCHANGED <<dma, sts, enabled, handling>> /\ ~dmaDone' /\ ~errorStatus'
      BY <1>1, <2>9 DEF ForgetFirst, Forget
    <3>2. \A q \in Procs : pc[q] \notin Awaiting
      BY <1>3, <3>1 DEF InCall
    <3> QED
      BY <1>4, <2>1, <3>1, <3>2 DEF TransferInv, Quiet
  <2>10. CASE Unmask(p)
    <3>1. /\ pc[p] = "unmask" /\ pc'[p] = (IF p \in Readers THEN "readback" ELSE "transfer")
          /\ UNCHANGED <<dma, handling, dmaDone, errorStatus>> /\ sts' = {}
      BY <1>1, <2>10 DEF Unmask
    <3>2. \A q \in Procs : q # p => pc[q] \notin Awaiting
      BY <1>3, <3>1 DEF InCall
    <3>3. Quiet
      BY <1>4, <3>1, <3>2 DEF TransferInv
    <3> QED
      BY <1>4, <2>1, <3>1, <3>2, <3>3 DEF TransferInv, Quiet
  <2>11. CASE Transfer(p) \/ Readback(p)
    <3>1. pc[p] \in {"transfer", "readback"} /\ pc'[p] = "wait"
      BY <1>1, <2>11 DEF Transfer, Readback
    <3>2. \A q \in Procs : q # p => pc[q] \notin Awaiting
      BY <1>3, <3>1 DEF InCall
    <3>3. Quiet /\ sts = {} /\ dma = <<>> /\ handling = {}
      BY <1>4, <3>1, <3>2 DEF TransferInv, Quiet
    <3>4. UNCHANGED <<sts, handling>>
      BY <2>11 DEF Transfer, Readback
    <3>5. ~dmaDone' /\ ~errorStatus'
      <4>1. CASE Transfer(p)
        BY <4>1 DEF Transfer, Forget
      <4>2. CASE Readback(p)
        <5>1. p \in Readers /\ pc[p] = "readback"
          BY <4>2 DEF Readback, DevTypes, RoleTypes
        <5>2. ~dmaDone /\ ~errorStatus
          BY <1>4, <5>1 DEF TransferInv
        <5> QED
          BY <4>2, <5>2 DEF Readback
      <4> QED
        BY <2>11, <4>1, <4>2
    <3>6. Len(dma') = 1 /\ dma'[1].of = p /\ dma'[1].live
      <4>1. PICK d : dma' = Append(dma, d) /\ d.of = p /\ d.live
        <5>1. CASE Transfer(p)
          <6> DEFINE d == [of |-> p, live |-> TRUE, from |-> First(p),
                           to |-> pos[p] + Count(p) - Stragglers(p),
                           fits |-> /\ swap' = (p \in Swapped)
                                    /\ residue.len > 0 => residue.of = p]
          <6>1. dma' = Append(dma, d)
            BY <5>1 DEF Transfer
          <6>2. d.of = p /\ d.live
            OBVIOUS
          <6> QED
            BY <6>1, <6>2
        <5>2. CASE Readback(p)
          <6> DEFINE d == [of |-> p, live |-> TRUE, from |-> 0, to |-> 0, fits |-> TRUE]
          <6>1. dma' = Append(dma, d)
            BY <5>2 DEF Readback
          <6>2. d.of = p /\ d.live
            OBVIOUS
          <6> QED
            BY <6>1, <6>2
        <5> QED
          BY <2>11, <5>1, <5>2
      <4>2. dma' = <<d>>
        BY <3>3, <4>1
      <4> QED
        BY <4>1, <4>2
    <3>7. OnItsWay(p)'
      BY <3>3, <3>4, <3>5, <3>6 DEF OnItsWay
    <3> QED
      BY <2>1, <3>1, <3>2, <3>5, <3>7 DEF TransferInv
  <2>12. CASE Waited(p)
    <3>1. /\ pc[p] = "wait" /\ pc'[p] = "finish" /\ dmaDone
          /\ UNCHANGED <<dma, sts, enabled, handling, dmaDone, errorStatus>>
      BY <1>1, <2>12 DEF Waited
    <3>2. \A q \in Procs : q # p => pc[q] \notin Awaiting
      BY <1>3, <3>1 DEF InCall
    <3>3. OnItsWay(p) /\ ~errorStatus
      BY <1>4, <3>1 DEF TransferInv
    <3>4. Quiet
      BY <3>1, <3>3 DEF OnItsWay, Quiet
    <3> QED
      BY <2>1, <3>1, <3>2, <3>3, <3>4 DEF TransferInv, Quiet
  <2>13. CASE Finish(p)
    <3>1. /\ pc[p] = "finish" /\ pc'[p] \in {"release", "call"}
          /\ UNCHANGED <<sts, handling>> /\ ~enabled' /\ dma' = Freed(p)
      BY <1>1, <2>13 DEF Finish
    <3>2. \A q \in Procs : q # p => pc[q] \notin Awaiting
      BY <1>3, <3>1 DEF InCall
    <3>3. Quiet
      BY <1>4, <3>1, <3>2 DEF TransferInv
    <3>4. dma' = <<>>
      BY <3>1, <3>3 DEF Quiet, Freed
    <3>5. Quiet'
      BY <3>1, <3>3, <3>4 DEF Quiet
    <3> QED
      BY <2>1, <3>1, <3>2, <3>5 DEF TransferInv
  <2> QED
    BY <1>4, <2>3, <2>4, <2>5, <2>6, <2>7, <2>8, <2>9, <2>10, <2>11, <2>12, <2>13
       DEF Process, InTransfer
<1>5. ASSUME clean, Aside, UNCHANGED <<dma, sts, enabled, handling, dmaDone, errorStatus>>
      PROVE  TransferInv'
  BY <1>5, AsideKeeps, NothingOnItsWay
<1>6. ASSUME clean, Aside, IrqEnter \/ IrqLeave \/ DmaRuns PROVE TransferInv'
  <2>1. ~Quiet
    BY <1>6 DEF IrqEnter, IrqLeave, DmaRuns, Quiet
  <2>2. PICK p \in Procs : pc[p] = "wait"
    BY <1>6, <2>1 DEF TransferInv
  <2>3. pc' = pc /\ \A q \in Procs : q # p => pc[q] \notin Awaiting
    BY <1>3, <1>6, <2>2, AsideKeeps DEF InCall, Awaiting
  <2>4. OnItsWay(p) /\ ~errorStatus
    BY <1>6, <2>2 DEF TransferInv
  <2>5. CASE IrqEnter
    <3>1. OnItsWay(p)' /\ errorStatus' = errorStatus
      BY <2>4, <2>5 DEF IrqEnter, OnItsWay, driver
    <3> QED
      BY <2>2, <2>3, <2>4, <3>1 DEF TransferInv, Awaiting
  <2>6. CASE IrqLeave
    <3>1. handling = {"done"} /\ dma = <<>> /\ sts = {}
      BY <2>4, <2>6 DEF IrqLeave, OnItsWay
    <3>2. OnItsWay(p)' /\ ~errorStatus'
      BY <2>4, <2>6, <3>1 DEF IrqLeave, OnItsWay
    <3> QED
      BY <2>2, <2>3, <3>2 DEF TransferInv, Awaiting
  <2>7. CASE DmaRuns
    <3>1. Len(dma) = 1 /\ sts = {} /\ handling = {} /\ ~dmaDone
      BY <2>4, <2>7 DEF DmaRuns, OnItsWay
    <3>2. dma' = <<>>
      BY <1>1, <2>7, <3>1 DEF DmaRuns, HardwareTypes
    <3>3. sts' = {"done"} /\ UNCHANGED <<handling, dmaDone, errorStatus>>
      BY <2>7, <3>1 DEF DmaRuns, driver
    <3>4. OnItsWay(p)'
      BY <3>1, <3>2, <3>3 DEF OnItsWay
    <3> QED
      BY <2>2, <2>3, <2>4, <3>3, <3>4 DEF TransferInv, Awaiting
  <2> QED
    BY <1>6, <2>5, <2>6, <2>7
<1>7. ASSUME clean, Aside PROVE TransferInv'
  <2>1. CASE InitFollows
    BY <1>5, <1>7, <2>1 DEF InitFollows, driver
  <2>2. ASSUME NEW a \in Admins, SetCtrl(a) \/ SetLock(a) PROVE TransferInv'
    BY <1>5, <1>7, <2>2, StoreBegins DEF ReadRegister, hardware
  <2>3. ASSUME NEW a \in Admins, StoreRegister(a) \/ RefuseValue(a) PROVE TransferInv'
    BY <1>5, <1>7, <2>3 DEF StoreRegister, RefuseValue, hardware
  <2>4. CASE SetIsPartialBitstream \/ UNCHANGED devcfgVars
    BY <1>5, <1>7, <2>4 DEF SetIsPartialBitstream, devcfgVars, devVars, driver, hardware
  <2> QED
    BY <1>6, <1>7, <2>1, <2>2, <2>3, <2>4 DEF Aside, Irq, Hardware, StoreSetting
<1> QED
  BY <1>2, <1>4, <1>7, CleanBefore, StepIsMoveOrAside

-----------------------------------------------------------------------------
(* The links between the PL and the processor.                             *)
LEMMA OthersDoNotOwn ==
    ASSUME MutexInv, NEW p \in Procs, pc[p] \in Owning
    PROVE  isOpen /\ \A q \in Procs : q # p => pc[q] \notin Owning
  BY DEF MutexInv

LEMMA LinksKept ==
    ASSUME LinkInv, clean, UNCHANGED <<isOpen, rst, lvl>>,
           ~isOpen => pl' \in {pl, Empty},
           isOpen => partial' = partial,
           \A q \in Procs :
             \/ pc'[q] = pc[q]
             \/ pc[q] \in Loading /\ pc'[q] \in Loading
             \/ pc'[q] \notin Owning
    PROVE  LinkInv'
<1>1. \A q \in Procs : pc'[q] # pc[q] =>
         /\ pc'[q] \notin {"prRead", "prWrite", "prOff", "shiftersOff", "shiftersOut",
                           "resetsOff", "close"}
         /\ pc'[q] \in Loading => pc[q] \in Loading
  BY DEF Loading, Owning, Holding, Opening
<1> QED
  BY <1>1 DEF LinkInv, Isolated, Linked

LEMMA NextLinkInv ==
    DevTypes /\ MutexInv /\ TransferInv /\ LinkInv /\ [DevcfgNext]_devcfgVars => LinkInv'
<1> SUFFICES ASSUME DevTypes, MutexInv, TransferInv, LinkInv, [DevcfgNext]_devcfgVars,
                    clean'
             PROVE  LinkInv'
  BY DEF LinkInv
<1>1. pc \in [Procs -> Places] /\ lvl \in {"off", "out", "all"} /\ HardwareTypes
  BY DEF DevTypes, PlaceTypes, HardwareTypes
<1> USE DEF driver, hardware, history, Goto
<1>2. ASSUME NEW p \in Procs, Open(p) PROVE LinkInv'
  <2>1. isOpen' /\ ~partial' /\ pc'[p] = "preload"
    BY <1>1, <1>2 DEF Open
  <2>2. \A q \in Procs : q # p => pc'[q] \notin Owning
    BY <1>1, <1>2 DEF Open, MutexInv
  <2> QED
    BY <2>1, <2>2 DEF LinkInv, Loading, Owning, Holding, Opening
<1>3. ASSUME clean, NEW p \in Procs, Start(p) \/ Process(p), ~Open(p) PROVE LinkInv'
  <2>1. \A q \in Procs : q # p => pc'[q] = pc[q]
    BY <1>1, <1>3, ProcessMoves DEF Moves
  <2>2. ASSUME UNCHANGED <<isOpen, partial, rst, lvl, pl>>,
               (pc[p] \in Loading /\ pc'[p] \in Loading) \/ pc'[p] \notin Owning
        PROVE  LinkInv'
    BY <1>3, <2>1, <2>2, LinksKept
  <2>3. CASE Start(p)
    <3>1. pc'[p] \notin Owning
      BY <1>1, <2>3 DEF Start, Owning, Holding, Opening, InCall
    <3> QED
      BY <2>2, <2>3, <3>1 DEF Start
  <2>4. CASE Interrupted(p) \/ OpenBusy(p)
    <3>1. pc'[p] \notin Owning
      BY <1>1, <1>3, <2>4 DEF Interrupted, OpenBusy, Owning, Holding, Opening, InCall
    <3> QED
      BY <2>2, <2>4, <3>1 DEF Interrupted, OpenBusy
  <2>5. CASE Preload(p)
    <3>1. pc[p] \in {"preload", "shiftersOff", "shiftersOut"} /\ pc[p] \in Owning
      BY <2>5 DEF Preload, Owning, Holding, Opening
    <3>2. isOpen' /\ ~partial' /\ \A q \in Procs : q # p => pc'[q] \notin Owning
      BY <1>3, <2>1, <2>5, <3>1, OthersDoNotOwn DEF Preload, LinkInv
    <3>3. \/ pc'[p] = "shiftersOff" /\ rst'
          \/ pc'[p] = "shiftersOut" /\ rst'
          \/ pc'[p] = "lowRead" /\ Isolated'
      BY <1>1, <1>3, <2>5, <3>2 DEF Preload, LinkInv, Isolated
    <3> QED
      BY <3>2, <3>3 DEF LinkInv, Loading, Owning, Holding, Opening
  <2>6. CASE EnablePartial(p)
    BY <1>3, <2>6 DEF EnablePartial, ReadCtrl, WriteCtrl, LinkInv
  <2>7. CASE ResetPL(p) \/ Opened(p)
    <3>1. pc[p] \in Loading /\ pc'[p] \in Loading
      BY <1>1, <2>7 DEF ResetPL, Opened, ReadCtrl, WriteCtrl, Loading, Owning, Holding, Opening
    <3> QED
      BY <2>2, <2>7, <3>1 DEF ResetPL, Opened, ReadCtrl, WriteCtrl
  <2>8. CASE InTransfer(p)
    <3>1. pc[p] \in Loading /\ pc'[p] \in Loading
      BY <1>1, <2>8 DEF InTransfer, Call, Lock, Refuse, ForgetFirst, Unmask,
                        Transfer, Readback, Timeout, Waited, Finish,
                        Loading, Owning, Holding, InCall
    <3>2. UNCHANGED <<isOpen, partial, rst, lvl, pl>>
      BY <2>8 DEF InTransfer, Call, Lock, Refuse, ForgetFirst, Unmask,
                  Transfer, Readback, Timeout, Waited, Finish
    <3> QED
      BY <2>2, <3>1, <3>2
  <2>9. CASE Release(p)
    <3>1. pc[p] \in {"release", "prOff", "resetsOff"} /\ pc[p] \in Owning
      BY <2>9 DEF Release, WriteCtrl, Owning
    <3>2. isOpen' /\ ~partial' /\ \A q \in Procs : q # p => pc'[q] \notin Owning
      <4>1. isOpen /\ \A q \in Procs : q # p => pc[q] \notin Owning
        BY <3>1, OthersDoNotOwn
      <4>2. UNCHANGED <<isOpen, partial>>
        BY <2>9 DEF Release, WriteCtrl
      <4> QED
        BY <1>3, <2>1, <4>1, <4>2 DEF LinkInv
    <3>3. \/ pc'[p] = "resetsOff" /\ lvl' = "all"
          \/ pc'[p] = "close" /\ Linked'
      BY <1>1, <1>3, <2>9, <3>2 DEF Release, WriteCtrl, LinkInv, Linked, PostloadLevel
    <3> QED
      BY <3>2, <3>3 DEF LinkInv, Loading, Owning, Holding, Opening
  <2>10. CASE Close(p)
    <3>1. pc[p] = "close" /\ pc'[p] = "run" /\ pc[p] \in Owning /\ pc'[p] \notin Owning
      BY <1>1, <2>10 DEF Close, Owning, Holding, Opening, InCall
    <3>2. Linked' /\ \A q \in Procs : pc'[q] \notin Owning
      BY <1>3, <2>1, <2>10, <3>1, OthersDoNotOwn DEF Close, LinkInv, Linked
    <3>3. ~isOpen'
      BY <2>10 DEF Close
    <3> QED
      BY <3>2, <3>3 DEF LinkInv, Loading, Owning, Holding, Opening
  <2>11. CASE Run(p)
    <3>1. pc'[p] \notin Owning
      BY <1>1, <2>11 DEF Run, Owning, Holding, Opening, InCall
    <3> QED
      BY <2>2, <2>11, <3>1 DEF Run
  <2> QED
    BY <1>3, <2>3, <2>4, <2>5, <2>6, <2>7, <2>8, <2>9, <2>10, <2>11
       DEF Process, InOpen, InRelease
<1>4. ASSUME clean, Aside, ~isOpen => pl' \in {pl, Empty}, isOpen => partial' = partial
      PROVE  LinkInv'
  BY <1>4, AsideKeeps, LinksKept
<1>5. ASSUME clean, Aside PROVE LinkInv'
  <2>1. CASE Irq
    BY <1>4, <1>5, <2>1 DEF Irq, IrqEnter, IrqLeave
  <2>2. CASE DmaRuns
    <3>1. ~Quiet
      BY <2>2 DEF DmaRuns, Quiet
    <3>2. PICK p \in Procs : pc[p] = "wait"
      BY <1>5, <3>1 DEF TransferInv
    <3>3. isOpen
      BY <3>2 DEF MutexInv, Owning, Holding, InCall
    <3> QED
      BY <1>4, <1>5, <2>2, <3>3 DEF DmaRuns
  <2>3. CASE InitFollows
    BY <1>4, <1>5, <2>3 DEF InitFollows
  <2>4. ASSUME NEW a \in Admins, SetCtrl(a) \/ SetLock(a) PROVE LinkInv'
    BY <1>4, <1>5, <2>4, StoreBegins DEF ReadRegister
  <2>5. ASSUME NEW a \in Admins, StoreRegister(a) \/ RefuseValue(a) PROVE LinkInv'
    BY <1>4, <1>5, <2>5 DEF StoreRegister, RefuseValue
  <2>6. CASE SetIsPartialBitstream
    BY <1>4, <1>5, <2>6 DEF SetIsPartialBitstream
  <2>7. CASE UNCHANGED devcfgVars
    BY <1>4, <1>5, <2>7 DEF devcfgVars, devVars
  <2> QED
    BY <1>5, <2>1, <2>2, <2>3, <2>4, <2>5, <2>6, <2>7 DEF Aside, Hardware, StoreSetting
<1> QED
  BY <1>2, <1>3, <1>5, CleanBefore, StepIsMoveOrAside

-----------------------------------------------------------------------------
(* The reset of the PL.                                                    *)
ProgKept == "PROG_B" \in ctrl' <=> "PROG_B" \in ctrl

LEMMA StoreKeepsProg ==
    ASSUME DevTypes, NEW a \in Admins, StoreRegister(a), clean'
    PROVE  ProgKept
<1>1. PICK s \in Stored : s = store[a]
  BY DEF DevTypes, SettingTypes
<1>2. s # NoStore
  BY <1>1 DEF StoreRegister
<1>3. PICK on \in BOOLEAN :
        /\ ctrl' = IF s.reg = "ctrl" THEN Written(s, on) ELSE ctrl
        /\ clean' = (clean /\ (s.reg = "ctrl" => s.was = ctrl))
  BY <1>1 DEF StoreRegister
<1>4. CASE s.reg = "ctrl"
  <2>1. s.bit # "PROG_B"
    BY <1>2, <1>4 DEF Stored, Controls
  <2> QED
    BY <1>3, <1>4, <2>1 DEF Written, ProgKept
<1>5. CASE s.reg # "ctrl"
  BY <1>3, <1>5 DEF ProgKept
<1> QED
  BY <1>4, <1>5

LEMMA ResetKept ==
    ASSUME ResetInv, clean, ProgKept, UNCHANGED <<initb, pl>>,
           \A q \in Procs :
             \/ pc'[q] = pc[q] /\ (pc[q] \in Opening => residue' = residue)
             \/ pc[q] \in Filling /\ pc'[q] \in Filling \ Opening
             \/ pc'[q] \notin Owning
    PROVE  ResetInv'
<1>1. ~initb' => pl' = Empty
  BY DEF ResetInv, Empty
<1>2. ASSUME NEW q \in Procs, pc'[q] = pc[q], pc[q] \in Opening => residue' = residue
      PROVE  /\ pc'[q] \in {"lowWait", "highRead", "highWrite"} => "PROG_B" \notin ctrl'
             /\ pc'[q] \in {"highRead", "highWrite"} => ~initb'
             /\ pc'[q] = "highWait" => "PROG_B" \in ctrl'
             /\ pc'[q] \in {"highWait", "opened"} => pl' = Empty
             /\ pc'[q] \in Filling => Ready'
             /\ pc'[q] \in Opening => residue'.len = 0
  BY <1>2 DEF ResetInv, ProgKept, Ready, Empty
<1>3. ASSUME NEW q \in Procs, pc[q] \in Filling, pc'[q] \in Filling \ Opening
      PROVE  /\ pc'[q] \notin {"lowWait", "highRead", "highWrite", "highWait", "opened"}
             /\ Ready' /\ pc'[q] \notin Opening
  BY <1>3 DEF ResetInv, ProgKept, Ready, Opening
<1>4. ASSUME NEW q \in Procs, pc'[q] \notin Owning
      PROVE  /\ pc'[q] \notin {"lowWait", "highRead", "highWrite", "highWait", "opened"}
             /\ pc'[q] \notin Filling /\ pc'[q] \notin Opening
  BY <1>4 DEF Owning, Holding, Opening, InCall, Filling
<1> QED
  BY <1>1, <1>2, <1>3, <1>4 DEF ResetInv

LEMMA NextResetInv ==
    DevTypes /\ MutexInv /\ TransferInv /\ LinkInv /\ ResetInv /\ [DevcfgNext]_devcfgVars
      => ResetInv'
<1> SUFFICES ASSUME DevTypes, MutexInv, TransferInv, LinkInv, ResetInv,
                    [DevcfgNext]_devcfgVars
             PROVE  ResetInv'
  OBVIOUS
<1>1. /\ pc \in [Procs -> Places] /\ HardwareTypes /\ snap \in [Procs -> SUBSET CtrlBits]
      /\ initb \in BOOLEAN
  BY DEF DevTypes, PlaceTypes, HardwareTypes
<1> USE DEF driver, hardware, history, Goto
<1>2. ~initb' => pl' = Empty
  <2>1. CASE UNCHANGED <<initb, pl>>
    BY <2>1 DEF ResetInv, Empty
  <2>2. CASE DmaRuns
    BY <2>2 DEF DmaRuns, Grown, ResetInv, Empty
  <2>3. CASE InitFollows
    BY <1>1, <2>3 DEF InitFollows, ResetInv, Empty
  <2>4. ASSUME NEW p \in Procs, Start(p) \/ Process(p) PROVE UNCHANGED <<initb, pl>>
    <3>1. CASE Start(p) \/ InOpen(p)
      BY <3>1 DEF Start, InOpen, Interrupted, OpenBusy, Open, Preload, EnablePartial,
                  ResetPL, Opened, ReadCtrl, WriteCtrl
    <3>2. CASE InTransfer(p)
      BY <3>2 DEF InTransfer, Call, Lock, Refuse, ForgetFirst, Unmask,
                  Transfer, Readback, Timeout, Waited, Finish
    <3>3. CASE InRelease(p)
      BY <3>3 DEF InRelease, Release, Close, Run, WriteCtrl
    <3> QED
      BY <2>4, <3>1, <3>2, <3>3 DEF Process
  <2>5. ASSUME Aside, ~Hardware PROVE UNCHANGED <<initb, pl>>
    <3>1. CASE Irq
      BY <3>1 DEF Irq, IrqEnter, IrqLeave
    <3>2. ASSUME NEW a \in Admins, StoreSetting(a) PROVE UNCHANGED <<initb, pl>>
      BY <3>2, StoreBegins DEF StoreSetting, ReadRegister, StoreRegister, RefuseValue
    <3>3. CASE SetIsPartialBitstream \/ UNCHANGED devcfgVars
      BY <3>3 DEF SetIsPartialBitstream, devcfgVars, devVars
    <3> QED
      BY <2>5, <3>1, <3>2, <3>3 DEF Aside
  <2> QED
    BY <2>1, <2>2, <2>3, <2>4, <2>5, StepIsMoveOrAside DEF Hardware
<1>3. CASE ~clean'
  BY <1>2, <1>3 DEF ResetInv
<1>4. ASSUME clean', NEW p \in Procs, Open(p) PROVE ResetInv'
  <2>1. pc'[p] = "preload" /\ residue'.len = 0
    BY <1>1, <1>4 DEF Open, NoResidue, LinkInv
  <2>2. \A q \in Procs : q # p => pc'[q] \notin Owning
    BY <1>1, <1>4 DEF Open, MutexInv
  <2> QED
    BY <1>2, <2>1, <2>2 DEF ResetInv, Filling, Owning, Holding, Opening, InCall
<1>5. ASSUME clean, clean', NEW p \in Procs, Start(p) \/ Process(p), ~Open(p)
      PROVE  ResetInv'
  <2>1. \A q \in Procs : q # p => pc'[q] = pc[q]
    BY <1>1, <1>5, ProcessMoves DEF Moves
  <2>2. ASSUME UNCHANGED <<ctrl, initb, pl>>,
               \/ residue' = residue
               \/ \A q \in Procs : q # p => pc[q] \notin Opening,
               (pc[p] \in Filling /\ pc'[p] \in Filling \ Opening) \/ pc'[p] \notin Owning
        PROVE  ResetInv'
    BY <1>5, <2>1, <2>2, ResetKept DEF ProgKept
  <2>3. CASE Start(p) \/ Interrupted(p) \/ OpenBusy(p)
    <3>1. pc'[p] \notin Owning
      BY <1>1, <1>5, <2>3 DEF Start, Interrupted, OpenBusy, Owning, Holding, Opening, InCall
    <3> QED
      BY <2>2, <2>3, <3>1 DEF Start, Interrupted, OpenBusy
  <2>4. CASE Preload(p)
    <3>1. pc[p] \in {"preload", "shiftersOff", "shiftersOut"} /\ pc[p] \in Owning
          /\ pc[p] \in Opening
      BY <2>4 DEF Preload, Owning, Holding, Opening
    <3>2. ~partial /\ \A q \in Procs : q # p => pc'[q] \notin Owning
      BY <1>5, <2>1, <3>1, OthersDoNotOwn DEF LinkInv
    <3>3. pc'[p] \in {"shiftersOff", "shiftersOut", "lowRead"}
      BY <1>1, <2>4, <3>2 DEF Preload
    <3>4. residue'.len = 0
      BY <1>5, <2>4, <3>1 DEF Preload, ResetInv
    <3> QED
      BY <1>2, <3>2, <3>3, <3>4 DEF ResetInv, Filling, Owning, Holding, Opening, InCall
  <2>5. CASE EnablePartial(p)
    BY <1>5, <2>5 DEF EnablePartial, ReadCtrl, WriteCtrl, LinkInv
  <2>6. CASE ResetPL(p)
    <3>1. pc[p] \in {"lowRead", "lowWrite", "lowWait", "highRead", "highWrite", "highWait"}
          /\ pc[p] \in Owning /\ pc[p] \in Opening
      BY <2>6 DEF ResetPL, ReadCtrl, WriteCtrl, Owning, Holding, Opening
    <3>2. \A q \in Procs : q # p => pc'[q] \notin Owning
      BY <2>1, <3>1, OthersDoNotOwn
    <3>3. residue'.len = 0 /\ UNCHANGED <<initb, pl>>
      BY <1>5, <2>6, <3>1 DEF ResetPL, ReadCtrl, WriteCtrl, ResetInv
    <3>4. \/ pc'[p] = "lowWrite"
          \/ pc'[p] = "lowWait" /\ "PROG_B" \notin ctrl'
          \/ pc'[p] \in {"highRead", "highWrite"} /\ "PROG_B" \notin ctrl' /\ ~initb'
          \/ pc'[p] = "highWait" /\ "PROG_B" \in ctrl' /\ pl' = Empty
          \/ pc'[p] = "opened" /\ "PROG_B" \in ctrl' /\ initb' /\ pl' = Empty
      <4>1. CASE ReadCtrl(p, "lowRead", "lowWrite")
        BY <1>1, <4>1 DEF ReadCtrl
      <4>2. CASE ReadCtrl(p, "highRead", "highWrite") /\ UNCHANGED hardware
        BY <1>1, <1>5, <4>2 DEF ReadCtrl, ResetInv
      <4>3. CASE WriteCtrl(p, "lowWrite", "lowWait", Low(snap[p]))
        BY <1>1, <4>3 DEF WriteCtrl, Low
      <4>4. CASE WriteCtrl(p, "highWrite", "highWait", High(snap[p]))
        BY <1>1, <1>5, <3>3, <4>4 DEF WriteCtrl, High, ResetInv, Empty
      <4>5. CASE Goto(p, "lowWait", "highRead") /\ ~initb /\ UNCHANGED hardware
        BY <1>1, <1>5, <4>5 DEF ResetInv
      <4>6. CASE Goto(p, "highWait", "opened") /\ initb /\ UNCHANGED hardware
        BY <1>1, <1>5, <4>6 DEF ResetInv, Empty
      <4> QED
        BY <2>6, <4>1, <4>2, <4>3, <4>4, <4>5, <4>6 DEF ResetPL
    <3> QED
      BY <1>2, <3>2, <3>3, <3>4 DEF ResetInv, Ready, Filling, Owning, Holding, Opening, InCall
  <2>7. CASE Opened(p)
    <3>1. pc[p] \in Filling /\ pc'[p] \in Filling \ Opening
      BY <1>1, <2>7 DEF Opened, Filling, Opening
    <3> QED
      BY <2>2, <2>7, <3>1 DEF Opened
  <2>8. CASE InTransfer(p)
    <3>1. pc[p] \in Filling /\ pc'[p] \in Filling \ Opening
      BY <1>1, <2>8 DEF InTransfer, Call, Lock, Refuse, ForgetFirst, Unmask,
                        Transfer, Readback, Timeout, Waited, Finish,
                        Filling, Opening, InCall
    <3>2. UNCHANGED <<ctrl, initb, pl>>
      BY <2>8 DEF InTransfer, Call, Lock, Refuse, ForgetFirst, Unmask,
                  Transfer, Readback, Timeout, Waited, Finish
    <3>3. residue' = residue \/ Transfer(p)
      BY <2>8 DEF InTransfer, Call, Lock, Refuse, ForgetFirst, Unmask,
                  Readback, Timeout, Waited, Finish
    <3>4. ASSUME Transfer(p) PROVE \A q \in Procs : q # p => pc[q] \notin Opening
      <4>1. pc[p] \in Owning
        BY <3>4 DEF Transfer, Owning, Holding, InCall
      <4> QED
        BY <4>1, OthersDoNotOwn DEF Owning, Holding
    <3> QED
      BY <2>2, <3>1, <3>2, <3>3, <3>4
  <2>9. CASE Release(p)
    <3>1. pc[p] \in {"release", "prOff", "resetsOff"} /\ pc[p] \in Owning
      BY <2>9 DEF Release, WriteCtrl, Owning
    <3>2. ~partial /\ pc[p] # "prOff"
      BY <1>5, <3>1, OthersDoNotOwn DEF LinkInv
    <3>3. pc[p] \in Filling /\ pc'[p] \in Filling \ Opening
      BY <1>1, <2>9, <3>2 DEF Release, WriteCtrl, Filling, Opening
    <3>4. UNCHANGED <<ctrl, initb, pl, residue>>
      BY <2>9, <3>2 DEF Release, WriteCtrl
    <3> QED
      BY <2>2, <3>3, <3>4
  <2>10. CASE Close(p) \/ Run(p)
    <3>1. pc'[p] \notin Owning
      BY <1>1, <2>10 DEF Close, Run, Owning, Holding, Opening, InCall
    <3> QED
      BY <2>2, <2>10, <3>1 DEF Close, Run
  <2> QED
    BY <1>5, <2>3, <2>4, <2>5, <2>6, <2>7, <2>8, <2>9, <2>10 DEF Process, InOpen, InRelease
<1>6. ASSUME clean, Aside, ProgKept, UNCHANGED <<initb, pl>> PROVE ResetInv'
  BY <1>6, AsideKeeps, ResetKept
<1>7. ASSUME clean, clean', Aside PROVE ResetInv'
  <2>1. CASE Irq
    BY <1>6, <1>7, <2>1 DEF Irq, IrqEnter, IrqLeave, ProgKept
  <2>2. CASE DmaRuns
    <3>1. ~Quiet
      BY <2>2 DEF DmaRuns, Quiet
    <3>2. PICK p \in Procs : pc[p] = "wait"
      BY <1>7, <3>1 DEF TransferInv
    <3>3. pc' = pc /\ \A q \in Procs : q # p => pc'[q] \notin Owning
      <4>1. pc[p] \in Owning
        BY <3>2 DEF Owning, Holding, InCall
      <4> QED
        BY <1>7, <4>1, OthersDoNotOwn, AsideKeeps
    <3>4. Ready'
      BY <1>7, <2>2, <3>2 DEF DmaRuns, ResetInv, Ready, Filling, InCall
    <3> QED
      BY <1>2, <3>2, <3>3, <3>4 DEF ResetInv, Filling, Owning, Holding, Opening, InCall
  <2>3. CASE InitFollows
    <3>1. pc' = pc /\ residue' = residue /\ ctrl' = ctrl
      BY <1>7, <2>3, AsideKeeps DEF InitFollows
    <3>2. initb # ("PROG_B" \in ctrl) /\ initb' = ~initb /\ pl' = (IF initb THEN Empty ELSE pl)
      BY <2>3 DEF InitFollows
    <3>3. ASSUME NEW q \in Procs
          PROVE  /\ pc[q] \notin {"highRead", "highWrite"} /\ pc[q] \notin Filling
                 /\ pc[q] = "highWait" => "PROG_B" \in ctrl /\ pl' = Empty
      <4>1. pc[q] \notin {"highRead", "highWrite"}
        BY <1>1, <1>7, <3>2 DEF ResetInv
      <4>2. pc[q] \notin Filling
        BY <1>1, <1>7, <3>2 DEF ResetInv, Ready
      <4> QED
        BY <1>1, <1>7, <3>2, <4>1, <4>2 DEF ResetInv
    <3> QED
      BY <1>2, <1>7, <3>1, <3>3 DEF ResetInv, Filling
  <2>4. ASSUME NEW a \in Admins, SetCtrl(a) \/ SetLock(a) PROVE ResetInv'
    BY <1>6, <1>7, <2>4, StoreBegins DEF ReadRegister, ProgKept
  <2>5. ASSUME NEW a \in Admins, StoreRegister(a) PROVE ResetInv'
    <3>1. UNCHANGED <<initb, pl>>
      BY <2>5 DEF StoreRegister
    <3> QED
      BY <1>6, <1>7, <2>5, <3>1, StoreKeepsProg
  <2>6. ASSUME NEW a \in Admins, RefuseValue(a) PROVE ResetInv'
    BY <1>6, <1>7, <2>6 DEF RefuseValue, ProgKept
  <2>7. CASE SetIsPartialBitstream \/ UNCHANGED devcfgVars
    BY <1>6, <1>7, <2>7 DEF SetIsPartialBitstream, devcfgVars, devVars, ProgKept
  <2> QED
    BY <1>7, <2>1, <2>2, <2>3, <2>4, <2>5, <2>6, <2>7 DEF Aside, Hardware, StoreSetting
<1> QED
  BY <1>3, <1>4, <1>5, <1>7, CleanBefore, StepIsMoveOrAside

-----------------------------------------------------------------------------
(* How far a load has come.                                                *)
LEMMA SameWords ==
    ASSUME NEW n \in Int, NEW f \in Int, InWords(f), InWords(n), n - f \in 0..3
    PROVE  n = f
<1>1. HeaderLen \in Int
  BY DevcfgAssumption
<1> QED
  BY <1>1 DEF InWords

LEMMA WholeWords ==
    ASSUME DevTypes, NEW p \in Apps, InWords(First(p)), First(p) \in Int
    PROVE  InWords(pos[p] + Count(p) - Stragglers(p))
<1>1. pos[p] \in Int /\ Count(p) \in Int
  BY DevcfgAssumption DEF DevTypes, PlaceTypes, Count, Procs
<1>2. HeaderLen \in Int
  BY DevcfgAssumption
<1>3. Stragglers(p) = (pos[p] + Count(p) - First(p)) % 4
  BY Zenon DEF Stragglers
<1>4. Stragglers(p) \in Int
  BY <1>1, <1>3
<1> QED
  BY <1>1, <1>2, <1>3, <1>4 DEF InWords

LEMMA ReachedThen ==
    \A q, u :
      /\ Follows(q) /\ InWords(u) /\ pl = [of |-> q, got |-> u]
      /\ (pos[q] + Count(q)) - residue.len = u
      => Reached(q, pos[q] + Count(q))
  BY DEF Reached

LEMMA LoadKept ==
    ASSUME LoadInv, clean, UNCHANGED <<swap, residue, dma, pl>>,
           \A q \in Apps : \/ pc'[q] = pc[q] /\ pos'[q] = pos[q]
                           \/ pc'[q] \notin Owning
    PROVE  LoadInv'
<1>1. ASSUME NEW q \in Apps, pos'[q] = pos[q]
      PROVE  /\ Between(q) => Between(q)'
             /\ Underway(q) => Underway(q)'
             /\ Reached(q, pos[q] + Count(q)) => Reached(q, pos[q] + Count(q))'
  BY <1>1 DEF Between, Underway, Reached, Follows, Count, Empty
<1>2. ASSUME NEW q \in Apps, pc'[q] \notin Owning
      PROVE  pc'[q] \notin {"call", "sem", "unmask", "transfer", "wait", "finish",
                            "release", "resetsOff", "close"}
  BY <1>2 DEF Owning, Holding, InCall
<1> QED
  BY <1>1, <1>2 DEF LoadInv, Whole

LEMMA NextLoadInv ==
    DevTypes /\ DevTypes' /\ MutexInv /\ TransferInv /\ LinkInv /\ ResetInv /\ LoadInv
    /\ [DevcfgNext]_devcfgVars => LoadInv'
<1> SUFFICES ASSUME DevTypes, DevTypes', MutexInv, TransferInv, LinkInv, ResetInv, LoadInv,
                    [DevcfgNext]_devcfgVars, clean'
             PROVE  LoadInv'
  BY DEF LoadInv
<1>1. /\ pc \in [Procs -> Places] /\ HardwareTypes /\ pos \in [Procs -> 0..FileLen]
      /\ residue \in [of : Procs \cup {Nobody}, len : 0..3]
      /\ Apps \subseteq Procs /\ Apps \cap Readers = {}
  BY DevcfgAssumption DEF DevTypes, PlaceTypes, DriverTypes, Procs
<1> USE DEF driver, hardware, history, Goto
<1>2. ASSUME NEW p \in Procs, Open(p) PROVE LoadInv'
  <2>1. pc'[p] \in Opening
    BY <1>1, <1>2 DEF Open, Opening
  <2>2. \A q \in Procs : q # p => pc'[q] \notin Owning
    BY <1>1, <1>2 DEF Open, MutexInv
  <2> QED
    BY <1>1, <2>1, <2>2 DEF LoadInv, Owning, Holding, Opening, InCall
<1>3. ASSUME clean, NEW p \in Procs, Start(p) \/ Process(p), ~Open(p) PROVE LoadInv'
  <2>1. \A q \in Procs : q # p => pc'[q] = pc[q]
    BY <1>1, <1>3, ProcessMoves DEF Moves
  <2>2. CASE Start(p) \/ Interrupted(p) \/ OpenBusy(p) \/ Close(p) \/ Run(p)
    <3>1. pc'[p] \notin Owning
      BY <1>1, <1>3, <2>2 DEF Start, Interrupted, OpenBusy, Close, Run,
                              Owning, Holding, Opening, InCall
    <3>2. \A q \in Procs : q # p => pos'[q] = pos[q]
      BY <1>1, <2>2 DEF Start, Interrupted, OpenBusy, Close, Run
    <3>3. UNCHANGED <<swap, residue, dma, pl>>
      BY <2>2 DEF Start, Interrupted, OpenBusy, Close, Run
    <3> QED
      BY <1>1, <1>3, <2>1, <3>1, <3>2, <3>3, LoadKept
  <2>3. ASSUME pc[p] \in Owning,
               p \in Apps =>
                 /\ pc'[p] \in {"call", "sem", "unmask", "transfer"} => Between(p)'
                 /\ pc'[p] = "wait" => dma' # <<>> /\ Underway(p)'
                 /\ pc'[p] = "finish" => Reached(p, pos[p] + Count(p))'
                 /\ pc'[p] \in {"release", "resetsOff", "close"} => pl' = Whole(p)
        PROVE  LoadInv'
    <3>1. \A q \in Procs : q # p => pc'[q] \notin Owning
      BY <2>1, <2>3, OthersDoNotOwn
    <3> QED
      BY <1>1, <2>3, <3>1 DEF LoadInv, Owning, Holding, InCall, Whole
  <2>4. CASE Preload(p) \/ EnablePartial(p) \/ ResetPL(p)
    <3>1. pc[p] \in Owning /\ pc'[p] \in Opening
      BY <1>1, <2>4 DEF Preload, EnablePartial, ResetPL, ReadCtrl, WriteCtrl,
                        Owning, Holding, Opening
    <3> QED
      BY <2>3, <3>1 DEF Opening
  <2>5. CASE Opened(p)
    <3>1. pc[p] = "opened" /\ pc'[p] = "call" /\ UNCHANGED <<pos, residue, pl>>
      BY <1>1, <2>5 DEF Opened
    <3>2. pos[p] = 0 /\ pl = Empty /\ residue.len = 0
      BY <1>3, <3>1 DEF DevTypes, RoleTypes, ResetInv, Opening
    <3>3. Between(p)'
      BY <3>1, <3>2 DEF Between, Empty
    <3> QED
      BY <2>3, <3>1, <3>3 DEF Owning, Holding, Opening
  <2>6. CASE Call(p)
    <3>1. pc[p] = "call" /\ UNCHANGED <<pos, residue, swap, pl>>
      BY <2>6 DEF Call
    <3>2. CASE pc'[p] = "sem"
      <4>1. p \in Apps => Between(p)'
        BY <1>3, <3>1 DEF LoadInv, Between, Reached, Follows, Empty
      <4> QED
        BY <2>3, <3>1, <3>2, <4>1 DEF Owning
    <3>3. CASE pc'[p] = "release" /\ ~More(p)
      <4>1. ASSUME p \in Apps PROVE pl' = Whole(p)
        <5>1. FileLen \in Nat /\ FileLen > 0 /\ InWords(FileLen)
          BY DevcfgAssumption DEF InWords
        <5>2. pos[p] = FileLen
          BY <1>1, <3>3, <4>1, <5>1 DEF More
        <5>3. InWords(FileLen - residue.len) /\ pl = [of |-> p, got |-> FileLen - residue.len]
          BY <1>3, <3>1, <4>1, <5>1, <5>2 DEF LoadInv, Between, Reached
        <5>4. PICK l \in 0..3 : l = residue.len
          BY <1>1
        <5>5. FileLen - l = FileLen
          BY <5>1, <5>3, <5>4, SameWords
        <5> QED
          BY <3>1, <5>3, <5>4, <5>5 DEF Whole
      <4> QED
        BY <2>3, <3>1, <3>3, <4>1 DEF Owning
    <3>4. pc'[p] = "sem" \/ (pc'[p] = "release" /\ ~More(p))
      BY <1>1, <2>6 DEF Call
    <3> QED
      BY <3>2, <3>3, <3>4
  <2>7. CASE Lock(p) \/ ForgetFirst(p) \/ Unmask(p)
    <3>1. /\ pc[p] \in {"sem", "forget", "unmask"} /\ UNCHANGED <<pos, residue, swap, pl>>
          /\ p \in Apps => pc[p] # "forget" /\ pc'[p] \in {"unmask", "transfer"}
          /\ pc'[p] \in {"forget", "unmask", "readback", "transfer"}
      BY <1>1, <2>7 DEF Lock, ForgetFirst, Unmask, DevTypes, RoleTypes
    <3>2. p \in Apps => Between(p)'
      BY <1>3, <3>1 DEF LoadInv, Between, Reached, Follows, Empty
    <3> QED
      BY <2>3, <3>1, <3>2 DEF Owning, Holding, InCall
  <2>8. CASE Refuse(p) \/ Timeout(p)
    BY <2>8 DEF Refuse, Timeout
  <2>9. CASE Transfer(p)
    <3>1. /\ pc[p] = "transfer" /\ pc'[p] = "wait" /\ p \in Apps /\ pos' = pos /\ pl' = pl
      BY <1>1, <2>9 DEF Transfer, DevTypes, RoleTypes
    <3> DEFINE d == [of |-> p, live |-> TRUE, from |-> First(p),
                     to |-> pos[p] + Count(p) - Stragglers(p),
                     fits |-> /\ swap' = (p \in Swapped)
                              /\ residue.len > 0 => residue.of = p]
    <3>2. \A q \in Procs : pc[q] # "wait"
      BY <3>1 DEF MutexInv, Owning, Holding, InCall
    <3>3. dma = <<>>
      BY <1>3, <3>2 DEF TransferInv, Quiet
    <3>4. dma' = Append(dma, d)
      BY <2>9 DEF Transfer
    <3>5. Between(p)
      BY <1>3, <3>1 DEF LoadInv
    <3>6. First(p) = (IF pos[p] = 0 THEN HeaderLen ELSE pos[p] - residue.len)
          /\ (HasHeader(p) <=> pos[p] = 0) /\ pos[p] + Count(p) \in Int
          /\ First(p) \in Int /\ Stragglers(p) \in 0..3
      BY <3>1, SentWithinFile
    <3>7. InWords(First(p))
      BY <3>5, <3>6, DevcfgAssumption DEF Between, Reached, InWords
    <3>8. residue' = [of |-> p, len |-> Stragglers(p)]
      BY <2>9 DEF Transfer
    <3>9. swap' = (p \in Swapped)
      <4>1. swap' = IF HasHeader(p) THEN p \in Swapped ELSE swap
        BY <2>9 DEF Transfer
      <4>2. pos[p] # 0 => swap = (p \in Swapped)
        BY <3>5 DEF Between, Reached, Follows
      <4> QED
        BY <3>6, <4>1, <4>2
    <3>10. residue.len > 0 => residue.of = p
      BY <3>5 DEF Between, Reached, Follows
    <3>11. Follows(p)'
      BY <3>8, <3>9 DEF Follows
    <3>12. InWords(pos[p] + Count(p) - Stragglers(p))
      BY <3>1, <3>6, <3>7, WholeWords
    <3>13. \/ pl = Empty /\ First(p) = HeaderLen
           \/ pl = [of |-> p, got |-> First(p)]
      BY <3>5, <3>6 DEF Between, Reached
    <3>14. dma' = <<d>>
      <4> HIDE DEF d
      <4> QED
        BY <3>3, <3>4
    <3>15. dma' # <<>> /\ dma'[1] = d
      <4> HIDE DEF d
      <4> QED
        BY <3>14
    <3>16. d.fits /\ d.from = First(p) /\ d.to = pos[p] + Count(p) - Stragglers(p)
      BY <3>9, <3>10
    <3> HIDE DEF d
    <3>17. Count(p)' = Count(p)
      BY <3>1 DEF Count
    <3>18. Underway(p)'
      BY <3>1, <3>8, <3>11, <3>12, <3>13, <3>15, <3>16, <3>17 DEF Underway, Empty
    <3> QED
      BY <2>3, <3>1, <3>15, <3>18 DEF Owning, Holding, InCall
  <2>10. CASE Readback(p)
    <3>1. pc[p] = "readback" /\ pc'[p] = "wait" /\ p \notin Apps
      BY <1>1, <2>10 DEF Readback, DevTypes, RoleTypes
    <3> QED
      BY <2>3, <3>1 DEF Owning, Holding, InCall
  <2>11. CASE Waited(p)
    <3>1. /\ pc[p] = "wait" /\ pc'[p] = "finish" /\ dmaDone
          /\ UNCHANGED <<pos, residue, swap, pl>>
      BY <1>1, <2>11 DEF Waited
    <3>2. dma = <<>>
      BY <1>3, <3>1 DEF TransferInv, OnItsWay
    <3>3. p \in Apps => Reached(p, pos[p] + Count(p))'
      BY <1>3, <3>1, <3>2 DEF LoadInv, Reached, Follows, Count
    <3> QED
      BY <2>3, <3>1, <3>3 DEF Owning, Holding, InCall
  <2>12. CASE Finish(p)
    <3>1. pc[p] = "finish" /\ ~errorStatus
      BY <1>3, <2>12 DEF Finish, TransferInv
    <3>2. pc'[p] = "call" /\ pos'[p] = Advance(p) /\ UNCHANGED <<residue, swap, pl>>
      BY <1>1, <2>12, <3>1 DEF Finish
    <3>3. ASSUME p \in Apps PROVE Between(p)'
      <4>1. Reached(p, pos[p] + Count(p))
        BY <1>3, <3>1, <3>3 DEF LoadInv
      <4>2. pos'[p] = pos[p] + Count(p) /\ pos'[p] # 0
        BY <1>1, <3>2, <3>3, SentWithinFile DEF Advance
      <4> QED
        BY <3>2, <4>1, <4>2 DEF Between, Reached, Follows
    <3> QED
      BY <2>3, <3>1, <3>2, <3>3 DEF Owning, Holding, InCall
  <2>13. CASE Release(p)
    <3>1. pc[p] \in {"release", "prOff", "resetsOff"} /\ pc[p] \in Owning
      BY <2>13 DEF Release, WriteCtrl, Owning
    <3>2. ~partial /\ pc[p] # "prOff"
      BY <1>3, <3>1, OthersDoNotOwn DEF LinkInv
    <3>3. pc'[p] \in {"resetsOff", "close"} /\ pl' = pl
      BY <1>1, <2>13, <3>2 DEF Release, WriteCtrl
    <3>4. p \in Apps => pl' = Whole(p)
      BY <1>3, <3>1, <3>2, <3>3 DEF LoadInv
    <3> QED
      BY <2>3, <3>1, <3>3, <3>4
  <2> QED
    BY <1>3, <2>2, <2>4, <2>5, <2>6, <2>7, <2>8, <2>9, <2>10, <2>11, <2>12, <2>13
       DEF Process, InOpen, InTransfer, InRelease
<1>4. ASSUME clean, Aside, UNCHANGED <<dma, pl>> PROVE LoadInv'
  BY <1>4, AsideKeeps, LoadKept
<1>5. ASSUME clean, Aside PROVE LoadInv'
  <2>1. CASE Irq
    BY <1>4, <1>5, <2>1 DEF Irq, IrqEnter, IrqLeave
  <2>2. CASE DmaRuns
    <3>1. ~Quiet
      BY <2>2 DEF DmaRuns, Quiet
    <3>2. PICK p \in Procs : pc[p] = "wait"
      BY <1>5, <3>1 DEF TransferInv
    <3>3. /\ UNCHANGED <<pc, pos, swap, residue>>
          /\ \A q \in Procs : q # p => pc[q] \notin Owning
      <4>1. pc[p] \in Owning
        BY <3>2 DEF Owning, Holding, InCall
      <4> QED
        BY <1>5, <4>1, OthersDoNotOwn, AsideKeeps
    <3>4. Len(dma) = 1 /\ dma[1].of = p /\ dma[1].live
      BY <1>5, <2>2, <3>2 DEF TransferInv, OnItsWay, DmaRuns
    <3>5. dma' = <<>> /\ Head(dma) = dma[1]
      BY <1>1, <2>2, <3>4 DEF DmaRuns, HardwareTypes
    <3>6. pl' = Grown(dma[1])
      BY <2>2, <3>5 DEF DmaRuns
    <3>7. ASSUME p \in Apps PROVE Reached(p, pos[p] + Count(p))'
      <4>1. Underway(p)
        BY <1>5, <2>2, <3>2, <3>7 DEF LoadInv, DmaRuns
      <4>2. initb /\ dma[1].of \notin Readers
        BY <1>1, <1>5, <3>2, <3>4, <3>7 DEF ResetInv, Ready, Filling, InCall
      <4>3. pl' = [of |-> p, got |-> dma[1].to]
        BY <3>4, <3>6, <4>1, <4>2 DEF Grown, Underway
      <4>4. Count(p)' = Count(p)
        BY <3>3 DEF Count
      <4> QED
        <5>1. Follows(p)'
          BY <3>3, <4>1 DEF Underway, Follows
        <5>2. /\ dma[1].to = pos[p] + Count(p) - residue.len
              /\ InWords(dma[1].to)
          BY <4>1 DEF Underway
        <5>3. PICK t : t = dma[1].to
          OBVIOUS
        <5>4. InWords(t)' /\ (pl = [of |-> p, got |-> t])'
          BY <4>3, <5>2, <5>3 DEF InWords
        <5>5. ((pos[p] + Count(p)) - residue.len = t)'
          <6>1. pos[p] \in Int /\ Count(p) \in Int /\ residue.len \in Int
            BY <1>1, <3>7, DevcfgAssumption DEF Count
          <6> QED
            BY <3>3, <4>4, <5>2, <5>3, <6>1
        <5>6. (\A q, u :
                  /\ Follows(q) /\ InWords(u) /\ pl = [of |-> q, got |-> u]
                  /\ (pos[q] + Count(q)) - residue.len = u
                  => Reached(q, pos[q] + Count(q)))'
          BY ReachedThen, PTL
        <5> QED
          BY <5>1, <5>4, <5>5, <5>6
    <3>8. \A q \in Apps : q # p => pc'[q] \notin Owning
      BY <1>1, <3>3
    <3> QED
      BY <3>2, <3>3, <3>5, <3>7, <3>8 DEF LoadInv, Owning, Holding, InCall
  <2>3. CASE InitFollows
    <3>1. ~Ready /\ pc' = pc
      <4>1. pc' = pc
        BY <1>5, AsideKeeps
      <4>2. initb \in BOOLEAN /\ initb # ("PROG_B" \in ctrl)
        BY <1>1, <2>3 DEF InitFollows, HardwareTypes
      <4> QED
        BY <4>1, <4>2 DEF Ready
    <3>2. \A q \in Procs : pc'[q] \notin Filling
      BY <1>5, <3>1 DEF ResetInv
    <3> QED
      BY <1>1, <3>2 DEF LoadInv, Filling, InCall
  <2>4. ASSUME NEW a \in Admins, SetCtrl(a) \/ SetLock(a) PROVE LoadInv'
    BY <1>4, <1>5, <2>4, StoreBegins DEF ReadRegister
  <2>5. ASSUME NEW a \in Admins, StoreRegister(a) \/ RefuseValue(a) PROVE LoadInv'
    BY <1>4, <1>5, <2>5 DEF StoreRegister, RefuseValue
  <2>6. CASE SetIsPartialBitstream \/ UNCHANGED devcfgVars
    BY <1>4, <1>5, <2>6 DEF SetIsPartialBitstream, devcfgVars, devVars
  <2> QED
    BY <1>5, <2>1, <2>2, <2>3, <2>4, <2>5, <2>6 DEF Aside, Hardware, StoreSetting
<1> QED
  BY <1>2, <1>3, <1>5, CleanBefore, StepIsMoveOrAside

-----------------------------------------------------------------------------
(* Who starts, and who is alone.                                           *)
LEMMA OnlyStartAndRun ==
    ASSUME NEW p \in Procs, Process(p)
    PROVE  /\ alone' = alone
           /\ Run(p) \/ running' = running
           /\ pc[p] # "idle"
<1> USE DEF Goto, driver, hardware, history, Return
<1>1. CASE Interrupted(p) \/ OpenBusy(p)
  BY <1>1 DEF Interrupted, OpenBusy
<1>2. CASE Open(p) \/ Preload(p)
  BY <1>2 DEF Open, Preload
<1>3. CASE EnablePartial(p) \/ ResetPL(p) \/ Opened(p)
  BY <1>3 DEF EnablePartial, ResetPL, Opened, ReadCtrl, WriteCtrl
<1>4. CASE Call(p) \/ Lock(p) \/ Refuse(p)
  BY <1>4 DEF Call, Lock, Refuse
<1>5. CASE ForgetFirst(p) \/ Unmask(p) \/ Transfer(p) \/ Readback(p)
  BY <1>5 DEF ForgetFirst, Unmask, Transfer, Readback
<1>6. CASE Timeout(p) \/ Waited(p) \/ Finish(p)
  BY <1>6 DEF Timeout, Waited, Finish
<1>7. CASE InRelease(p)
  BY <1>7 DEF InRelease, Release, Close, Run, WriteCtrl
<1> QED
  BY <1>1, <1>2, <1>3, <1>4, <1>5, <1>6, <1>7 DEF Process, InOpen, InTransfer

LEMMA NextAloneInv ==
    DevTypes /\ AloneInv /\ [DevcfgNext]_devcfgVars => AloneInv'
<1> SUFFICES ASSUME DevTypes, AloneInv, [DevcfgNext]_devcfgVars PROVE AloneInv'
  OBVIOUS
<1>1. /\ pc \in [Procs -> Places] /\ running \in SUBSET Apps
      /\ alone \in [Procs -> BOOLEAN] /\ Apps \subseteq Procs
  BY DEF DevTypes, PlaceTypes, Procs
<1>2. CASE Aside
  BY <1>2, AsideKeeps DEF AloneInv
<1>3. ASSUME NEW p \in Procs, Start(p) PROVE AloneInv'
  <2> DEFINE others == {q \in Procs \ {p} : pc[q] # "idle"}
  <2>1. /\ pc[p] = "idle" /\ pc' = [pc EXCEPT ![p] = "openSem"] /\ running' = {}
        /\ alone' = [q \in Procs |-> IF q = p THEN others = {}
                                     ELSE q \notin others /\ alone[q]]
    BY <1>3 DEF Start, Goto
  <2>2. ASSUME NEW q \in Procs, NEW r \in Procs, alone'[q], pc'[q] # "idle", q # r
        PROVE  pc'[r] = "idle"
    <3>1. CASE q = p
      BY <1>1, <2>1, <2>2, <3>1
    <3>2. CASE q # p
      <4>1. q \notin others
        BY <2>1, <2>2, <3>2
      <4>2. pc[q] = "idle" /\ pc'[q] = "idle"
        BY <1>1, <2>1, <3>2, <4>1
      <4> QED
        BY <2>2, <4>2
    <3> QED
      BY <3>1, <3>2
  <2> QED
    BY <2>1, <2>2 DEF AloneInv
<1>4. ASSUME NEW p \in Procs, Process(p) PROVE AloneInv'
  <2>1. /\ alone' = alone /\ pc[p] # "idle" /\ \A q \in Procs : q # p => pc'[q] = pc[q]
        /\ Run(p) \/ running' = running
    BY <1>1, <1>4, OnlyStartAndRun, ProcessMoves DEF Moves
  <2>2. (\A q, r \in Procs : alone[q] /\ pc[q] # "idle" /\ q # r => pc[r] = "idle")'
    BY <2>1 DEF AloneInv
  <2>3. ASSUME NEW q \in running', NEW r \in Procs, alone'[q] PROVE pc'[r] = "idle"
    <3>1. q \in Procs
      <4>1. q \in running \cup {p}
        BY <2>1, <2>3 DEF Run
      <4> QED
        BY <1>1, <4>1
    <3>2. CASE q \in running
      BY <2>1, <2>3, <3>2 DEF AloneInv
    <3>3. CASE q \notin running
      <4>1. Run(p) /\ q = p
        BY <2>1, <2>3, <3>3 DEF Run
      <4>2. pc'[p] = "idle"
        BY <1>1, <4>1 DEF Run, Goto
      <4>3. r # p => pc[r] = "idle" /\ pc'[r] = pc[r]
        BY <2>1, <2>3, <4>1 DEF AloneInv
      <4> QED
        BY <4>2, <4>3
    <3> QED
      BY <3>2, <3>3
  <2> QED
    BY <2>2, <2>3 DEF AloneInv
<1> QED
  BY <1>2, <1>3, <1>4, StepIsMoveOrAside

-----------------------------------------------------------------------------
(* The servers.                                                            *)
LEMMA WhoComesToRun ==
    ASSUME DevTypes, NEW p \in Procs, Process(p), pc'[p] = "run"
    PROVE  \/ pc[p] = "openSem" /\ (sem # Nobody \/ isOpen)
           \/ Close(p)
<1>1. pc \in [Procs -> Places]
  BY DEF DevTypes, PlaceTypes
<1> USE DEF Goto
<1>2. CASE InOpen(p)
  BY <1>1, <1>2 DEF InOpen, Interrupted, OpenBusy, Open, Preload, EnablePartial,
                    ResetPL, Opened, ReadCtrl, WriteCtrl
<1>3. CASE InTransfer(p)
  BY <1>1, <1>3 DEF InTransfer, Call, Lock, Refuse, ForgetFirst, Unmask,
                    Transfer, Readback, Timeout, Waited, Finish
<1>4. CASE InRelease(p)
  BY <1>1, <1>4 DEF InRelease, Release, Run, WriteCtrl
<1> QED
  BY <1>2, <1>3, <1>4 DEF Process

(* What a server needs is left alone by all but the loads.                 *)
LEMMA DesignKept ==
    ASSUME ServerInv, clean, ProgKept, UNCHANGED <<pl, rst, lvl, initb>>,
           NEW q \in Apps, alone[q], pc[q] = "run" \/ q \in running
    PROVE  (pl = Whole(q) /\ Linked /\ Ready)'
  BY DEF ServerInv, Whole, Linked, Ready, ProgKept

LEMMA NextServerInv ==
    DevTypes /\ MutexInv /\ TransferInv /\ LinkInv /\ ResetInv /\ LoadInv /\ AloneInv
    /\ ServerInv /\ [DevcfgNext]_devcfgVars => ServerInv'
<1> SUFFICES ASSUME DevTypes, MutexInv, TransferInv, LinkInv, ResetInv, LoadInv, AloneInv,
                    ServerInv, [DevcfgNext]_devcfgVars, clean',
                    NEW q \in Apps, alone'[q], pc'[q] = "run" \/ q \in running'
             PROVE  (pl = Whole(q) /\ Linked /\ Ready)'
  BY DEF ServerInv
<1>1. /\ pc \in [Procs -> Places] /\ HardwareTypes /\ q \in Procs
      /\ sem \in Procs \cup {Nobody}
  BY DEF DevTypes, PlaceTypes, DriverTypes, Procs
<1> USE DEF Goto
<1>2. ASSUME NEW p \in Procs, Start(p) PROVE FALSE
  <2>1. /\ running' = {} /\ pc' = [pc EXCEPT ![p] = "openSem"]
        /\ q # p => alone'[q] = (q \notin {r \in Procs \ {p} : pc[r] # "idle"} /\ alone[q])
    BY <1>1, <1>2 DEF Start
  <2>2. q # p /\ pc[q] = "run"
    BY <1>1, <2>1
  <2> QED
    BY <1>1, <2>1, <2>2
<1>3. ASSUME NEW p \in Procs, Process(p)
      PROVE  /\ \/ pc[q] = "run" /\ Run(p)
                \/ Close(p)
             /\ q = p
  <2>1. /\ alone[q] /\ pc[p] # "idle" /\ \A r \in Procs : r # p => pc'[r] = pc[r]
        /\ Run(p) \/ running' = running
    BY <1>1, <1>3, OnlyStartAndRun, ProcessMoves DEF Moves
  <2>2. q \notin running
    BY <2>1 DEF AloneInv
  <2>3. pc[q] # "idle" => q = p
    BY <1>1, <2>1 DEF AloneInv
  <2>4. CASE q \in running'
    BY <2>1, <2>2, <2>4 DEF Run
  <2>5. CASE pc'[q] = "run"
    <3>1. q = p
      BY <1>1, <2>1, <2>3, <2>5
    <3>2. CASE pc[p] = "openSem" /\ (sem # Nobody \/ isOpen)
      <4>1. PICK r \in Procs : pc[r] \in Owning
        <5>1. CASE sem # Nobody
          BY <1>1, <5>1 DEF MutexInv, Owning
        <5>2. CASE isOpen
          BY <5>2 DEF MutexInv
        <5> QED
          BY <3>2, <5>1, <5>2
      <4>2. r # p /\ pc[r] # "idle"
        BY <3>2, <4>1 DEF Owning, Holding, Opening, InCall
      <4> QED
        BY <1>1, <2>1, <3>1, <3>2, <4>2 DEF AloneInv
    <3> QED
      BY <1>3, <2>5, <3>1, <3>2, WhoComesToRun
  <2> QED
    BY <2>4, <2>5
<1>4. ASSUME NEW p \in Procs, Process(p) PROVE (pl = Whole(q) /\ Linked /\ Ready)'
  <2>1. CASE Run(p)
    <3>1. /\ UNCHANGED <<pl, rst, lvl, initb, ctrl>> /\ clean /\ pc[p] = "run"
          /\ pc'[p] = "idle"
      BY <1>1, <2>1 DEF Run, hardware, history
    <3>2. q = p /\ alone[q] /\ ProgKept
      BY <1>3, <1>4, <3>1, OnlyStartAndRun DEF ProgKept
    <3> QED
      BY <3>1, <3>2, DesignKept
  <2>2. CASE Close(p)
    <3>1. /\ UNCHANGED <<pl, rst, lvl, initb, ctrl>> /\ clean /\ pc[p] = "close"
      BY <2>2 DEF Close, hardware, history
    <3>2. q = p
      BY <1>3, <1>4
    <3>3. pl = Whole(q)
      BY <3>1, <3>2 DEF LoadInv
    <3>4. Linked
      BY <1>1, <3>1, <3>2 DEF LinkInv
    <3>5. Ready
      BY <1>1, <3>1, <3>2 DEF ResetInv, Filling
    <3> QED
      BY <3>1, <3>3, <3>4, <3>5 DEF Whole, Linked, Ready
  <2> QED
    BY <1>3, <1>4, <2>1, <2>2
<1>5. ASSUME Aside PROVE (pl = Whole(q) /\ Linked /\ Ready)'
  <2>1. /\ UNCHANGED <<pc, running, alone, rst, lvl>>
        /\ alone[q] /\ (pc[q] = "run" \/ q \in running)
    BY <1>5, AsideKeeps
  <2>2. \A r \in Procs : pc[r] \notin {"openSem", "wait"}
    BY <1>1, <2>1 DEF AloneInv
  <2>3. clean
    BY <2>2, CleanBefore DEF Open
  <2>4. pl = Whole(q) /\ Linked /\ Ready
    BY <2>1, <2>3 DEF ServerInv
  <2>5. ASSUME ProgKept, UNCHANGED <<pl, initb>> PROVE (pl = Whole(q) /\ Linked /\ Ready)'
    BY <2>1, <2>3, <2>5, DesignKept
  <2>6. CASE Irq
    BY <2>5, <2>6 DEF Irq, IrqEnter, IrqLeave, ProgKept
  <2>7. ~Hardware
    <3>1. dma = <<>>
      BY <2>2, <2>3 DEF TransferInv, Quiet
    <3>2. initb = ("PROG_B" \in ctrl)
      BY <1>1, <2>4 DEF Ready, HardwareTypes
    <3> QED
      BY <3>1, <3>2 DEF Hardware, DmaRuns, InitFollows
  <2>8. ASSUME NEW a \in Admins, SetCtrl(a) \/ SetLock(a)
        PROVE  (pl = Whole(q) /\ Linked /\ Ready)'
    BY <2>5, <2>8, StoreBegins DEF ReadRegister, hardware, ProgKept
  <2>9. ASSUME NEW a \in Admins, StoreRegister(a)
        PROVE  (pl = Whole(q) /\ Linked /\ Ready)'
    <3>1. UNCHANGED <<pl, initb>>
      BY <2>9 DEF StoreRegister
    <3> QED
      BY <2>5, <2>9, <3>1, StoreKeepsProg
  <2>10. ASSUME NEW a \in Admins, RefuseValue(a)
         PROVE  (pl = Whole(q) /\ Linked /\ Ready)'
    BY <2>5, <2>10 DEF RefuseValue, hardware, ProgKept
  <2>11. CASE SetIsPartialBitstream \/ UNCHANGED devcfgVars
    BY <2>5, <2>11 DEF SetIsPartialBitstream, devcfgVars, devVars, hardware, ProgKept
  <2> QED
    BY <1>5, <2>6, <2>7, <2>8, <2>9, <2>10, <2>11 DEF Aside, StoreSetting
<1> QED
  BY <1>2, <1>4, <1>5, StepIsMoveOrAside

-----------------------------------------------------------------------------
(* It holds when the board starts, and every step keeps it.                *)
LEMMA StartingValues ==
    /\ [of |-> Nobody, len |-> 0] \in [of : Procs \cup {Nobody}, len : 0..3]
    /\ Empty \in [of : Procs \cup {Nobody}, got : 0..FileLen]
    /\ {"PROG_B", "MODE"} \in SUBSET CtrlBits
    /\ <<>> \in Seq(Command)
<1>1. 0 \in 0..3 /\ 0 \in 0..FileLen
  BY DevcfgAssumption
<1>2. {"PROG_B", "MODE"} \in SUBSET CtrlBits
  BY DEF CtrlBits
<1>3. Empty \in [of : Procs \cup {Nobody}, got : 0..FileLen]
  BY <1>1 DEF Empty
<1>4. <<>> \in Seq(Command)
  OBVIOUS
<1> QED
  BY <1>1, <1>2, <1>3, <1>4

LEMMA DevTypesAtStart ==
    DevcfgInit => DevTypes
<1> SUFFICES ASSUME DevcfgInit PROVE DevTypes
  OBVIOUS
<1> USE DEF DevcfgInit, DevInit, SettingsInit
<1>1. DriverTypes
  BY StartingValues DEF DriverTypes
<1>2. HardwareTypes
  BY StartingValues DEF HardwareTypes
<1>3. PlaceTypes
  BY DevcfgAssumption DEF PlaceTypes, Places
<1>4. RoleTypes
  BY DEF RoleTypes, Opening
<1>5. HistoryTypes
  BY DEF HistoryTypes
<1>6. SettingTypes
  BY SettingsAssumption DEF SettingTypes, Stored
<1> QED
  BY <1>1, <1>2, <1>3, <1>4, <1>5, <1>6 DEF DevTypes

(* The state of a board that starts, when no setting has been stored yet.  *)
AtStart ==
    /\ isOpen = FALSE /\ sem = Nobody /\ clk = 0 /\ partial = FALSE
    /\ residue = [of |-> Nobody, len |-> 0]
    /\ ctrl = {"PROG_B", "MODE"} /\ sts = {} /\ handling = {} /\ dma = <<>>
    /\ initb = TRUE /\ pl = Empty /\ rst = TRUE /\ lvl = "off"
    /\ pc = [p \in Procs |-> "idle"] /\ running = {}
    /\ alone = [p \in Procs |-> TRUE]
    /\ locks = {} /\ wanted = {} /\ \A a \in Admins : store[a] = NoStore

LEMMA InvariantAtStart ==
    DevTypes /\ AtStart => DevcfgInv
<1> SUFFICES ASSUME DevTypes, AtStart PROVE DevcfgInv
  OBVIOUS
<1> USE DEF AtStart
<1>1. \A p \in Procs : pc[p] = "idle"
  OBVIOUS
<1>2. MutexInv
  BY <1>1, DevcfgAssumption DEF MutexInv, Owning, Holding, Opening, InCall
<1>3. ClockInv
  <2>1. Clocking = {}
    BY <1>1 DEF Clocking, Holding, Opening, InCall
  <2>2. Storing = {}
    BY DEF Storing
  <2> QED
    BY <2>1, <2>2, FS_EmptySet DEF ClockInv
<1>4. TransferInv
  BY <1>1 DEF TransferInv, Quiet
<1>5. LinkInv
  BY <1>1 DEF LinkInv, Loading, Owning, Holding, Opening, InCall
<1>6. ResetInv
  BY <1>1 DEF ResetInv, Filling, Opening, InCall
<1>7. LoadInv
  BY <1>1 DEF LoadInv, Procs
<1>8. AloneInv
  BY <1>1 DEF AloneInv
<1>9. ServerInv
  BY <1>1 DEF ServerInv, Procs
<1>10. SettingsInv
  BY DEF SettingsInv, SettingsSurvive, Controls
<1> QED
  BY <1>2, <1>3, <1>4, <1>5, <1>6, <1>7, <1>8, <1>9, <1>10 DEF DevcfgInv

LEMMA DevcfgStarts ==
    DevcfgInit => DevcfgInv
<1> SUFFICES ASSUME DevcfgInit PROVE DevcfgInv
  OBVIOUS
<1>1. AtStart
  BY DEF DevcfgInit, DevInit, SettingsInit, AtStart
<1> QED
  BY <1>1, DevTypesAtStart, InvariantAtStart

LEMMA DevcfgSteps ==
    DevcfgInv /\ [DevcfgNext]_devcfgVars => DevcfgInv'
<1> SUFFICES ASSUME DevcfgInv, [DevcfgNext]_devcfgVars PROVE DevcfgInv'
  OBVIOUS
<1>1. /\ DevTypes /\ MutexInv /\ ClockInv /\ TransferInv /\ LinkInv
      /\ ResetInv /\ LoadInv /\ AloneInv /\ ServerInv /\ SettingsInv
  BY DEF DevcfgInv
<1>2. ClockInv' /\ clk' \in Nat
  BY <1>1, NextClockInv
<1>3. DevTypes'
  BY <1>1, <1>2, NextDevTypes
<1>4. MutexInv' /\ TransferInv' /\ LinkInv' /\ AloneInv'
  BY <1>1, NextMutexInv, NextTransferInv, NextLinkInv, NextAloneInv
<1>5. ResetInv' /\ SettingsInv'
  BY <1>1, <1>3, NextResetInv, NextSettingsInv
<1>6. LoadInv' /\ ServerInv'
  BY <1>1, <1>3, NextLoadInv, NextServerInv
<1> QED
  BY <1>2, <1>3, <1>4, <1>5, <1>6 DEF DevcfgInv

(* A reset leaves the PL empty and the driver as it was at the start; only *)
(* loads without settings are interrupted by one.                          *)
LEMMA DevcfgResets ==
    DevcfgInv /\ trouble = "reboot" /\ DevReset /\ UNCHANGED settingVars => DevcfgInv'
<1> SUFFICES ASSUME DevcfgInv, trouble = "reboot", DevReset, UNCHANGED settingVars
             PROVE  DevcfgInv'
  OBVIOUS
<1>1. DevTypes /\ locks = {} /\ wanted = {} /\ \A a \in Admins : store[a] = NoStore
  BY DEF DevcfgInv, SettingsInv
<1>2. AtStart'
  <2>1. locks' = {} /\ wanted' = {} /\ \A a \in Admins : store'[a] = NoStore
    BY <1>1 DEF settingVars
  <2> QED
    BY <2>1 DEF DevReset, AtStart, Empty, NoStore
<1>3. DevTypes'
  <2> USE DEF DevReset
  <2>1. DriverTypes'
    BY StartingValues DEF DriverTypes
  <2>2. HardwareTypes'
    <3>1. pl' \in [of : Procs \cup {Nobody}, got : 0..FileLen]
      BY StartingValues DEF Empty
    <3> QED
      BY <3>1, StartingValues DEF HardwareTypes
  <2>3. PlaceTypes'
    BY DevcfgAssumption DEF PlaceTypes, Places
  <2>4. RoleTypes'
    BY DEF RoleTypes, Opening
  <2>5. HistoryTypes'
    BY <1>1 DEF DevTypes, HistoryTypes
  <2>6. SettingTypes'
    BY <1>1 DEF DevTypes, SettingTypes, settingVars
  <2> QED
    BY <2>1, <2>2, <2>3, <2>4, <2>5, <2>6 DEF DevTypes
<1>4. (DevTypes /\ AtStart => DevcfgInv)'
  BY InvariantAtStart, PTL
<1> QED
  BY <1>2, <1>3, <1>4

-----------------------------------------------------------------------------
(* What the invariant says of the device.                                  *)
LEMMA BooksAreKept ==
    DevcfgInv => Bookkeeping
<1> SUFFICES ASSUME DevcfgInv PROVE Bookkeeping
  OBVIOUS
<1>1. DevTypes /\ MutexInv /\ ClockInv /\ TransferInv
  BY DEF DevcfgInv
<1> DEFINE Owners == {p \in Procs : pc[p] \in Owning}
<1>2. clk = Cardinality(Clocking) + Cardinality(Storing)
  BY <1>1 DEF ClockInv
<1>3. \A p \in Procs : sem = p <=> pc[p] \in Holding
  BY <1>1 DEF MutexInv
<1>4. Cardinality(Owners) = IF isOpen THEN 1 ELSE 0
  <2>1. CASE isOpen
    <3>1. PICK p \in Procs : Owners = {p}
      BY <1>1, <2>1 DEF MutexInv
    <3> QED
      BY <2>1, <3>1, FS_Singleton
  <2>2. CASE ~isOpen
    <3>1. Owners = {}
      BY <1>1, <2>2 DEF MutexInv
    <3> QED
      BY <2>2, <3>1, FS_EmptySet
  <2> QED
    BY <2>1, <2>2
<1>5. ASSUME clean, handling # {} \/ (sts # {} /\ enabled) PROVE clk > 0
  <2>1. PICK p \in Procs : pc[p] = "wait"
    BY <1>1, <1>5 DEF TransferInv, Quiet
  <2>2. Clocking # {}
    BY <2>1 DEF Clocking, Holding, InCall
  <2>3. /\ IsFiniteSet(Clocking) /\ Cardinality(Clocking) # 0
        /\ Cardinality(Clocking) \in Nat /\ Cardinality(Storing) \in Nat
    BY <1>1, <2>2, FS_EmptySet, FS_CardinalityType DEF ClockInv
  <2> QED
    BY <1>2, <2>3
<1> QED
  BY <1>2, <1>3, <1>4, <1>5 DEF Bookkeeping, Clocking, Storing

LEMMA LinkIsRight ==
    DevcfgInv => LinkMatchesLoad
  BY DEF DevcfgInv, LinkInv, LinkMatchesLoad, Loading, Linked

LEMMA CommandsLive ==
    DevcfgInv => NoDanglingDma
<1> SUFFICES ASSUME DevcfgInv, clean, NEW i \in DOMAIN dma PROVE dma[i].live
  BY DEF NoDanglingDma
<1>1. dma \in Seq(Command) /\ TransferInv
  BY DEF DevcfgInv, DevTypes, HardwareTypes
<1>2. i \in 1..Len(dma)
  BY <1>1
<1>3. dma # <<>>
  BY <1>2
<1>4. PICK p \in Procs : pc[p] = "wait"
  BY <1>1, <1>3 DEF TransferInv, Quiet
<1>5. Len(dma) = 1 /\ dma[1].live
  BY <1>1, <1>3, <1>4 DEF TransferInv, OnItsWay
<1>6. i = 1
  BY <1>2, <1>5
<1> QED
  BY <1>5, <1>6

LEMMA ServersHaveTheirs ==
    DevcfgInv => ServerRunsOnItsDesign
<1>1. DevcfgInv => running \in SUBSET Apps
  BY DEF DevcfgInv, DevTypes, PlaceTypes
<1> QED
  BY <1>1 DEF DevcfgInv, ServerInv, ServerRunsOnItsDesign, Linked

LEMMA StoredStaysStored ==
    DevcfgInv => SettingsSurvive /\ DevcfgTypeOK
  BY TypesAreRight DEF DevcfgInv, SettingsInv

=============================================================================
