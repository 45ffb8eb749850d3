---------------------------- MODULE DevcfgSettings ----------------------------
(***************************************************************************)
(* The attributes in /sys of the device configuration driver,              *)
(* patches/xilinx_devcfg.c: each sets or clears its bits of the control or *)
(* the lock register, which the calls of /dev/xdevcfg also change.  The    *)
(* register is read before the spin lock is taken, and written under it.   *)
(***************************************************************************)
EXTENDS Devcfg

CONSTANTS
    Admins,       \* processes that write attributes
    Meanwhile,    \* settings stored while loads go on: one stands for all
    MaxStores     \* bound on the stores while nothing is loaded

ASSUME SettingsAssumption == MaxStores \in Nat \ {0} /\ Nobody \notin Admins

VARIABLES
    locks,        \* the bits set in the lock register
    store,        \* the attribute being stored and the register as it was read
    stores,       \* history: settings stored so far
    wanted        \* history: the bits as they were last stored

settingVars == <<locks, store, stores, wanted>>

NoStore == [reg |-> "none", bit |-> "none", was |-> {}]

SettingsInit ==
    /\ locks = {} /\ store = [a \in Admins |-> NoStore]
    /\ stores = 0 /\ wanted = {}

(* With the loads there is one store, without them there may be more.      *)
StoreBound ==
    CASE trouble = "settings" -> 1
      [] trouble = "stores"   -> MaxStores
      [] OTHER                -> 0

-----------------------------------------------------------------------------
(* The first half of a store: the clock is enabled, the register is read.  *)
ReadRegister(a, reg, bit) ==
    /\ store[a] = NoStore /\ stores < StoreBound
    /\ trouble = "settings" => bit \in Meanwhile
    /\ store' = [store EXCEPT ![a] = [reg |-> reg, bit |-> bit,
                    was |-> IF reg = "ctrl" THEN ctrl ELSE locks]]
    /\ stores' = stores + 1
    /\ clk' = clk + 1
    /\ UNCHANGED <<isOpen, sem, partial, swap, residue, dmaDone, errorStatus>>
    /\ UNCHANGED <<locks, wanted, hardware, pc, pos, snap, running, history>>

SetDapEn(a)     == ReadRegister(a, "ctrl", "DAP")
SetDbgen(a)     == ReadRegister(a, "ctrl", "DBGEN")
SetNiden(a)     == ReadRegister(a, "ctrl", "NIDEN")
SetSpiden(a)    == ReadRegister(a, "ctrl", "SPIDEN")
SetSpniden(a)   == ReadRegister(a, "ctrl", "SPNIDEN")
SetSeu(a)       == ReadRegister(a, "ctrl", "SEU")
SetAes(a)       == ReadRegister(a, "ctrl", "AES")
SetAesEnLock(a) == ReadRegister(a, "lock", "AES")
SetSeuLock(a)   == ReadRegister(a, "lock", "SEU")
SetDbgLock(a)   == ReadRegister(a, "lock", "DBG")

(* The second half: the bits are set or cleared in what was read.  The     *)
(* debug port's bits are only ever set.                                    *)
Written(s, on) ==
    IF on \/ s.bit = "DAP"
    THEN IF on THEN s.was \cup {s.bit} ELSE s.was
    ELSE s.was \ {s.bit}

StoreRegister(a) ==
    /\ store[a] # NoStore
    /\ LET s == store[a]
           key == <<s.reg, s.bit>>
       IN  \E on \in BOOLEAN :
             /\ ctrl' = IF s.reg = "ctrl" THEN Written(s, on) ELSE ctrl
             /\ locks' = IF s.reg = "lock" THEN Written(s, on) ELSE locks
             /\ wanted' = IF on THEN wanted \cup {key}
                          ELSE IF s.bit = "DAP" THEN wanted ELSE wanted \ {key}
             /\ stale' = (stale \/ s.was # IF s.reg = "ctrl" THEN ctrl ELSE locks)
             /\ clean' = (clean /\ (s.reg = "ctrl" => s.was = ctrl))
    /\ store' = [store EXCEPT ![a] = NoStore]
    /\ clk' = clk - 1
    /\ UNCHANGED <<isOpen, sem, partial, swap, residue, dmaDone, errorStatus>>
    /\ UNCHANGED <<sts, enabled, handling, dma, initb, pl, rst, lvl>>
    /\ UNCHANGED <<stores, pc, pos, snap, running, trouble, alone, seen>>

(* No number, or one that is too large: -EINVAL.                           *)
RefuseValue(a) ==
    /\ store[a] # NoStore
    /\ store' = [store EXCEPT ![a] = NoStore]
    /\ clk' = clk - 1
    /\ UNCHANGED <<isOpen, sem, partial, swap, residue, dmaDone, errorStatus>>
    /\ UNCHANGED <<locks, stores, wanted, hardware, pc, pos, snap, running, history>>

(* A plain variable, written without any lock.                             *)
SetIsPartialBitstream ==
    /\ trouble = "partial"
    /\ partial' = ~partial
    /\ clean' = (clean /\ ~isOpen)
    /\ UNCHANGED <<isOpen, sem, clk, swap, residue, dmaDone, errorStatus>>
    /\ UNCHANGED <<settingVars, hardware, pc, pos, snap, running,
                   trouble, stale, alone, seen>>

-----------------------------------------------------------------------------
SetCtrl(a) ==
    \/ SetDapEn(a) \/ SetDbgen(a) \/ SetNiden(a) \/ SetSpiden(a)
    \/ SetSpniden(a) \/ SetSeu(a) \/ SetAes(a)
SetLock(a) == SetAesEnLock(a) \/ SetSeuLock(a) \/ SetDbgLock(a)

StoreSetting(a) ==
    SetCtrl(a) \/ SetLock(a) \/ StoreRegister(a) \/ RefuseValue(a)

devcfgVars == <<devVars, settingVars>>

DevcfgNext ==
    \/ DevNext /\ UNCHANGED settingVars
    \/ \E a \in Admins : StoreSetting(a)
    \/ SetIsPartialBitstream

DevcfgInit == DevInit /\ SettingsInit

-----------------------------------------------------------------------------
Controls == {"DAP", "DBGEN", "NIDEN", "SPIDEN", "SPNIDEN", "SEU", "AES"}
Locks    == {"AES", "SEU", "DBG"}
CtrlBits == {"PROG_B", "MODE", "PR"} \cup Controls
Places == {"idle", "openSem", "preload", "shiftersOff", "shiftersOut", "prRead",
           "prWrite", "lowRead", "lowWrite", "lowWait", "highRead", "highWrite",
           "highWait", "opened", "call", "sem", "forget", "unmask", "transfer",
           "readback", "wait", "finish", "release", "prOff", "resetsOff",
           "close", "run"}

DevcfgTypeOK ==
    /\ isOpen \in BOOLEAN /\ sem \in Procs \cup {Nobody} /\ clk \in Nat
    /\ partial \in BOOLEAN /\ swap \in BOOLEAN
    /\ residue.of \in Procs \cup {Nobody} /\ residue.len \in 0..3
    /\ dmaDone \in BOOLEAN /\ errorStatus \in BOOLEAN
    /\ ctrl \subseteq CtrlBits /\ locks \subseteq Locks
    /\ sts \subseteq {"done", "some", "all"} /\ handling \subseteq {"done", "some", "all"}
    /\ enabled \in BOOLEAN /\ initb \in BOOLEAN
    /\ \A i \in DOMAIN dma : dma[i].of \in Procs /\ dma[i].live \in BOOLEAN
    /\ pl.of \in Procs \cup {Nobody} /\ pl.got \in 0..FileLen
    /\ rst \in BOOLEAN /\ lvl \in {"off", "out", "all"}
    /\ pc \in [Procs -> Places] /\ pos \in [Procs -> 0..FileLen]
    /\ snap \in [Procs -> SUBSET CtrlBits] /\ running \subseteq Apps
    /\ trouble \in Troubles /\ clean \in BOOLEAN /\ stale \in BOOLEAN
    /\ alone \in [Procs -> BOOLEAN] /\ seen \in BOOLEAN
    /\ \A a \in Admins : store[a].was \subseteq CtrlBits \cup Locks
    /\ stores \in 0..MaxStores
    /\ wanted \subseteq ({"ctrl"} \X Controls) \cup ({"lock"} \X Locks)

-----------------------------------------------------------------------------
Opening == {"preload", "shiftersOff", "shiftersOut", "prRead", "prWrite",
            "lowRead", "lowWrite", "lowWait", "highRead", "highWrite",
            "highWait", "opened"}
InCall  == {"forget", "unmask", "transfer", "readback", "wait", "finish"}
Holding == Opening \cup InCall
Owning  == Holding \cup {"call", "sem", "release", "prOff", "resetsOff", "close"}

(* Through every return, early or late, of the driver's calls the clock is *)
(* enabled exactly while a call needs it, the mutex is held by the call    *)
(* that took it, and one process at most has the device open.  An          *)
(* interrupt finds the clock enabled, unless a call gave up on its DMA.    *)
Bookkeeping ==
    /\ clk = Cardinality({p \in Procs : pc[p] \in Holding \cup {"openSem", "sem"}})
             + Cardinality({a \in Admins : store[a] # NoStore})
    /\ \A p \in Procs : sem = p <=> pc[p] \in Holding
    /\ Cardinality({p \in Procs : pc[p] \in Owning}) = IF isOpen THEN 1 ELSE 0
    /\ clean /\ (handling # {} \/ (sts # {} /\ enabled)) => clk > 0

(* From the reset of the PL to the end of the load nothing passes from it  *)
(* to the processor, and once the device is closed everything does: the    *)
(* three looks at is_partial_bitstream agree unless it changes meanwhile   *)
(* (xdevcfg_open(), "PROG_B is not asserted ... are not invoked").         *)
Isolated == rst /\ lvl = "out"
LinkMatchesLoad ==
    clean =>
      /\ (\E p \in Procs : pc[p] \in (Owning \ {"preload", "shiftersOff", "shiftersOut",
                                                 "prRead", "prWrite", "prOff",
                                                 "resetsOff", "close"}))
         => Isolated
      /\ ~isOpen /\ pl # Empty => lvl = "all" /\ ~rst

(* The DMA engine never works for a buffer that has been freed: the end    *)
(* that xdevcfg_write() sees is the end of its own transfer, whatever      *)
(* interrupts an earlier one has left.                                     *)
NoDanglingDma == clean => \A i \in DOMAIN dma : dma[i].live

(* A server runs on the whole of its own design, its links open, however   *)
(* badly earlier loads ended: a later one repairs it all.  (Two start.sh   *)
(* that overlap may start a server on the other's design.)                 *)
ServerRunsOnItsDesign ==
    \A p \in running : clean /\ alone[p] => pl = Whole(p) /\ lvl = "all" /\ ~rst

(* The driver's own changes of the control register leave the settings as  *)
(* they were stored, as long as no two changes of a register overlap.      *)
SettingsSurvive ==
    ~stale => ({"ctrl"} \X (ctrl \cap Controls)) \cup ({"lock"} \X locks) = wanted

(* No call keeps the mutex for ever: the loops that wait for PCFG_INIT and *)
(* for the DMA come to an end, unless another store pulls PROG_B down.     *)
MutexIsReleased ==
    sem # Nobody ~> sem = Nobody \/ ~clean

(* "@error_status: The error status captured during the DMA transfer".     *)
ErrorsAreCaptured ==
    \A p \in Procs : pc[p] = "finish" /\ seen => errorStatus
=============================================================================
