------------------------------ MODULE FpgaClocks ------------------------------
(***************************************************************************)
(* The rest of patches/xilinx_devcfg.c: the driver is bound and unbound,   *)
(* and the clocks of the programmable logic are exported as devices with   *)
(* attributes of their own, fclk_export, fclk_unexport and enable.         *)
(*                                                                         *)
(* None of these takes a lock.  A step is what one of them does between    *)
(* two calls of the kernel that may fail or sleep.                         *)
(***************************************************************************)
EXTENDS Integers, FiniteSets

CONSTANTS
    Fclks,        \* the clocks, fclk0 to fclk3
    Writers       \* processes that write the attributes

ASSUME FpgaClocksAssumption == IsFiniteSet(Fclks)

VARIABLES
    held,         \* what the driver has acquired; "bound": it is in charge
    exports,      \* fclk_export and fclk_unexport exist
    exported,     \* fclk_exported
    device,       \* a clock's device: "none", "bare", "data", "freed"
    prepared,     \* balance of clk_prepare() and clk_unprepare()
    ticking,      \* balance of clk_enable() and clk_disable()
    flag,         \* fclk_data.enabled
    call,         \* what a process is doing
    oops,         \* a bad pointer was followed
    met,          \* history: two calls clashed
    failed        \* history: an export failed, or a probe that said it had not

clockVars == <<held, exports, exported, device, prepared, ticking, flag,
               call, oops, met, failed>>

Idle == [at |-> "idle", fclk |-> {}, on |-> FALSE]
Resources == {"prepared", "region", "cdev", "class", "device", "group"}

ClocksInit ==
    /\ held = {} /\ exports = FALSE
    /\ exported = {} /\ device = [i \in Fclks |-> "none"]
    /\ prepared = [i \in Fclks |-> 0] /\ ticking = [i \in Fclks |-> 0]
    /\ flag = [i \in Fclks |-> FALSE]
    /\ call = [w \in Writers |-> Idle]
    /\ oops = FALSE /\ met = FALSE /\ failed = FALSE

-----------------------------------------------------------------------------
(* xdevcfg_drv_probe(): what is left when the step that acquires r fails.  *)
(* After a class or a device that cannot be created the cdev is forgotten, *)
(* and the result is still the 0 of cdev_add(): the kernel takes the       *)
(* driver for bound.                                                       *)
LeftBy(r) == IF r \in {"class", "device"} THEN {"cdev", "bound"} ELSE {}

(* fclk_init() gives up without a word when a clock is not found.          *)
Probe ==
    /\ "bound" \notin held /\ ~oops
    /\ \/ /\ held' = Resources \cup {"bound"} /\ exports' \in BOOLEAN
          /\ UNCHANGED failed
       \/ /\ \E r \in Resources : held' = LeftBy(r)
          /\ failed' = (failed \/ "bound" \in held')
          /\ UNCHANGED exports
    /\ UNCHANGED <<exported, device, prepared, ticking, flag, call, oops, met>>

-----------------------------------------------------------------------------
(* Exports go well with one another and with calls that enable other       *)
(* clocks; what unexports, or enables the same clock, goes with nothing.   *)
Clash(c, at, i) ==
    /\ c # Idle
    /\ \/ {at, c.at} \cap {"unbind", "find"} # {}
       \/ i = c.fclk /\ {at, c.at} \cap {"enable", "flag"} # {}

(* A call begins.  What becomes of the system after a clash is not looked  *)
(* at.                                                                     *)
Begin(w, at, i, on) ==
    /\ call[w] = Idle /\ ~oops /\ ~met
    /\ call' = [call EXCEPT ![w] = [at |-> at, fclk |-> i, on |-> on]]
    /\ met' = \E v \in Writers : Clash(call[v], at, i)

At(w, at) == call[w].at = at /\ ~oops
Continue(w, at) == call' = [call EXCEPT ![w].at = at]
End(w) == call' = [call EXCEPT ![w] = Idle]
The(w) == CHOOSE i \in call[w].fclk : TRUE

(* xdevcfg_fclk_export_store(): the flag is looked at, and set before      *)
(* anything else is done.                                                  *)
ExportStore(w) ==
    /\ exports
    /\ \E i \in Fclks \ exported : Begin(w, "claim", {i}, FALSE)
    /\ UNCHANGED <<held, exports, exported, device, prepared, ticking, flag,
                   oops, failed>>

Claim(w) ==
    /\ At(w, "claim")
    /\ exported' = exported \cup {The(w)}
    /\ Continue(w, "create")
    /\ UNCHANGED <<held, exports, device, prepared, ticking, flag, oops, met, failed>>

CreateDevice(w) ==
    /\ At(w, "create") /\ device[The(w)] = "none"
    /\ device' = [device EXCEPT ![The(w)] = "bare"]
    /\ Continue(w, "prepare")
    /\ UNCHANGED <<held, exports, exported, prepared, ticking, flag, oops, met, failed>>

PrepareClock(w) ==
    /\ At(w, "prepare")
    /\ prepared' = [prepared EXCEPT ![The(w)] = @ + 1]
    /\ Continue(w, "data")
    /\ UNCHANGED <<held, exports, exported, device, ticking, flag, oops, met, failed>>

SetData(w) ==
    /\ At(w, "data")
    /\ device' = [device EXCEPT ![The(w)] = "data"]
    /\ flag' = [flag EXCEPT ![The(w)] = FALSE]
    /\ Continue(w, "group")
    /\ UNCHANGED <<held, exports, exported, prepared, ticking, oops, met, failed>>

CreateGroup(w) ==
    /\ At(w, "group") /\ End(w)
    /\ UNCHANGED <<held, exports, exported, device, prepared, ticking, flag,
                   oops, met, failed>>

(* One of the steps fails: what was prepared is undone, the device stays.  *)
ExportFails(w) ==
    /\ call[w].at \in {"create", "prepare", "data", "group"} /\ ~oops
    /\ prepared' = IF call[w].at \in {"data", "group"}
                   THEN [prepared EXCEPT ![The(w)] = @ - 1] ELSE prepared
    /\ device' = IF call[w].at = "group"
                 THEN [device EXCEPT ![The(w)] = "freed"] ELSE device
    /\ failed' = TRUE
    /\ End(w)
    /\ UNCHANGED <<held, exports, exported, ticking, flag, oops, met>>

-----------------------------------------------------------------------------
(* xdevcfg_fclk_unexport_store() clears the flag and looks for the device. *)
UnexportStore(w) ==
    /\ exports
    /\ \E i \in exported :
         /\ exported' = exported \ {i}
         /\ Begin(w, "find", {i}, FALSE)
    /\ UNCHANGED <<held, exports, device, prepared, ticking, flag, oops, failed>>

(* xdevcfg_drv_remove() and xdevcfg_fclk_remove(): all that are exported,  *)
(* and then the class and the device, without a look at what there is.     *)
Unbind(w) ==
    /\ "bound" \in held
    /\ Begin(w, "unbind", {}, FALSE)
    /\ UNCHANGED <<held, exports, exported, device, prepared, ticking, flag,
                   oops, failed>>

UnbindNext(w) ==
    /\ At(w, "unbind")
    /\ IF exported = {}
       THEN /\ IF Resources \subseteq held THEN held' = {} /\ UNCHANGED oops
                                            ELSE oops' = TRUE /\ UNCHANGED held
            /\ exports' = FALSE
            /\ End(w) /\ UNCHANGED exported
       ELSE /\ LET i == CHOOSE i \in exported : TRUE
               IN  /\ exported' = exported \ {i}
                   /\ call' = [call EXCEPT ![w] =
                                 [at |-> "find", fclk |-> {i}, on |-> TRUE]]
            /\ UNCHANGED <<held, exports, oops>>
    /\ UNCHANGED <<device, prepared, ticking, flag, met, failed>>

(* match_fclk() follows the data of each device that it meets, and of the  *)
(* one that it finds none.                                                 *)
FindFails(w) ==
    /\ At(w, "find")
    /\ device[The(w)] = "none" \/ \E i \in Fclks : device[i] \in {"bare", "freed"}
    /\ oops' = TRUE
    /\ UNCHANGED <<held, exports, exported, device, prepared, ticking, flag,
                   call, met, failed>>

Disabled_Never(w) == ticking
Disabled(w) ==
    IF flag[The(w)] THEN [ticking EXCEPT ![The(w)] = @ - 1] ELSE ticking

FindDevice(w) ==
    /\ At(w, "find") /\ device[The(w)] = "data"
    /\ ticking' = Disabled(w)
    /\ prepared' = [prepared EXCEPT ![The(w)] = @ - 1]
    /\ device' = [device EXCEPT ![The(w)] = "none"]
    /\ IF call[w].on THEN Continue(w, "unbind") ELSE End(w)
    /\ UNCHANGED <<held, exports, exported, flag, oops, met, failed>>

-----------------------------------------------------------------------------
(* fclk_enable_store(): the flag is looked at, and set after the clock.    *)
EnableStore(w) ==
    /\ \E i \in Fclks : \E on \in BOOLEAN :
         /\ device[i] = "data" /\ on # flag[i]
         /\ Begin(w, "enable", {i}, on)
    /\ UNCHANGED <<held, exports, exported, device, prepared, ticking, flag,
                   oops, failed>>

SwitchClock(w) ==
    /\ At(w, "enable")
    /\ \/ /\ ticking' = [ticking EXCEPT ![The(w)] = IF call[w].on THEN @ + 1 ELSE @ - 1]
          /\ Continue(w, "flag")
       \/ call[w].on /\ End(w) /\ UNCHANGED ticking      \* clk_enable() fails
    /\ UNCHANGED <<held, exports, exported, device, prepared, flag, oops, met, failed>>

SetFlag(w) ==
    /\ At(w, "flag")
    /\ flag' = [flag EXCEPT ![The(w)] = call[w].on]
    /\ End(w)
    /\ UNCHANGED <<held, exports, exported, device, prepared, ticking, oops, met, failed>>

-----------------------------------------------------------------------------
ExportStep(w) ==
    \/ ExportStore(w) \/ Claim(w) \/ CreateDevice(w) \/ PrepareClock(w) \/ SetData(w)
    \/ CreateGroup(w) \/ ExportFails(w)
UnexportStep(w) ==
    UnexportStore(w) \/ Unbind(w) \/ UnbindNext(w) \/ FindFails(w) \/ FindDevice(w)
EnableStep(w) == EnableStore(w) \/ SwitchClock(w) \/ SetFlag(w)

ClocksNext ==
    \/ Probe
    \/ \E w \in Writers : ExportStep(w) \/ UnexportStep(w) \/ EnableStep(w)

-----------------------------------------------------------------------------
ClocksTypeOK ==
    /\ held \subseteq Resources \cup {"bound"} /\ exports \in BOOLEAN /\ exported \subseteq Fclks
    /\ device \in [Fclks -> {"none", "bare", "data", "freed"}]
    /\ flag \in [Fclks -> BOOLEAN]
    /\ \A w \in Writers : call[w].fclk \subseteq Fclks /\ call[w].on \in BOOLEAN
    /\ oops \in BOOLEAN /\ met \in BOOLEAN /\ failed \in BOOLEAN

(* As long as no two calls clash, every way out of every call leaves a     *)
(* clock prepared as long as its device has data, and running as long as   *)
(* its flag says so.  A driver that is unbound has given back everything;  *)
(* and nothing follows a bad pointer unless an export failed, or a probe   *)
(* that said it had not.                                                   *)
ClocksBalanced ==
    ~met =>
      /\ (\A w \in Writers : call[w] = Idle) =>
           \A i \in Fclks :
             /\ prepared[i] = IF device[i] = "data" THEN 1 ELSE 0
             /\ ticking[i] = IF device[i] = "data" /\ flag[i] THEN 1 ELSE 0
      /\ "bound" \notin held =>
           held = {} /\ \A i \in Fclks : prepared[i] = 0 /\ ticking[i] = 0
      /\ oops => failed
=============================================================================
