----------------------------- MODULE BoardProofs -----------------------------
(***************************************************************************)
(* The theorems of the board, for any number of applications, readers,     *)
(* administrators and clocks, any size of files and blocks, and any kinds  *)
(* of trouble; and the lemmas about the exported clocks and the boot       *)
(* loader's hook.  The invariant of the loads is that of DevcfgProofs.     *)
(***************************************************************************)
EXTENDS Board, DevcfgProofs, SequenceTheorems

(* A step of the board is one of the driver, a reset, or something else.   *)
LEMMA BoardStepsOfDevcfg ==
    [BoardNext]_boardVars =>
      \/ [DevcfgNext]_devcfgVars
      \/ trouble = "reboot" /\ DevReset /\ UNCHANGED settingVars
  BY DEF BoardNext, boardVars, Boot, PowerCycle, Loads, Linux

(* Under the board's specification the invariant of the configuration      *)
(* driver, patches/xilinx_devcfg.c, holds: through every early return of   *)
(* its calls, the interrupts, the attributes, and resets at any time.      *)
THEOREM DevcfgInvariant == BoardSpec => []DevcfgInv
<1>1. BoardInit => DevcfgInv
  BY DevcfgStarts DEF BoardInit
<1>2. DevcfgInv /\ [BoardNext]_boardVars => DevcfgInv'
  BY BoardStepsOfDevcfg, DevcfgSteps, DevcfgResets
<1> QED
  BY <1>1, <1>2, PTL DEF BoardSpec

(* The clock is enabled exactly while a call needs it, the mutex is held   *)
(* by the call that took it, one process at most has the device, and an    *)
(* interrupt finds the clock enabled unless a call gave up on its DMA.     *)
THEOREM BooksBalance == BoardSpec => []Bookkeeping
  BY DevcfgInvariant, BooksAreKept, PTL

(* From the reset of the PL to the end of its load nothing passes from it  *)
(* to the processor, and once the device is closed everything does; unless *)
(* something has gone wrong since that reset (clean): a call has given up, *)
(* a DMA has failed, or a store has got in between.                        *)
THEOREM LinkFollowsLoad == BoardSpec => []LinkMatchesLoad
  BY DevcfgInvariant, LinkIsRight, PTL

(* The DMA engine never works for a buffer that has been freed, unless a   *)
(* call has given up on its DMA since the last full reset.                 *)
THEOREM DmaNeverDangles == BoardSpec => []NoDanglingDma
  BY DevcfgInvariant, CommandsLive, PTL

(* A server runs on the whole of its own design, its links open, however   *)
(* badly earlier loads have ended and whatever the sizes of the blocks.    *)
THEOREM EveryServerHasItsDesign == BoardSpec => []ServerRunsOnItsDesign
  BY DevcfgInvariant, ServersHaveTheirs, PTL

(* The settings stay as they were stored, as long as no two changes of a   *)
(* register overlap.                                                       *)
THEOREM SettingsAreKept == BoardSpec => []SettingsSurvive
  BY DevcfgInvariant, StoredStaysStored, PTL

-----------------------------------------------------------------------------
(* The exported clocks of the programmable logic, for any number of clocks *)
(* and of processes that write their attributes: every call of             *)
(* patches/xilinx_devcfg.c keeps their invariant, as long as no two calls  *)
(* clash.                                                                  *)
Exporting == {"claim", "create", "prepare", "data", "group"}
Building  == {"prepare", "data", "group"}
Steps     == Exporting \cup {"idle", "unbind", "find", "enable", "flag"}

Busy(w) == call[w] # Idle
Works(w, at, i) == call[w].at = at /\ call[w].fclk = {i}

CallTypes ==
    /\ call \in [Writers -> [at : Steps, fclk : SUBSET Fclks, on : BOOLEAN]]
    /\ \A w \in Writers : call[w].at = "idle" => ~Busy(w)
    /\ \A w \in Writers :
         call[w].at \notin {"idle", "unbind"} => \E i \in Fclks : call[w].fclk = {i}

ClockTypes ==
    /\ held \in SUBSET (Resources \cup {"bound"}) /\ exports \in BOOLEAN
    /\ exported \in SUBSET Fclks
    /\ device \in [Fclks -> {"none", "bare", "data", "freed"}]
    /\ prepared \in [Fclks -> Int] /\ ticking \in [Fclks -> Int]
    /\ flag \in [Fclks -> BOOLEAN]
    /\ oops \in BOOLEAN /\ met \in BOOLEAN /\ failed \in BOOLEAN
    /\ CallTypes

(* No two calls clash: who unexports is alone, and who enables a clock has *)
(* that clock alone.                                                       *)
ApartInv ==
    \A v, w \in Writers : v # w /\ Busy(v) /\ Busy(w) =>
      /\ call[v].at \notin {"unbind", "find"}
      /\ call[v].at \in {"enable", "flag"} => call[v].fclk # call[w].fclk

(* What a call has found of its clock, or made of it, is still so.         *)
Placed(w, i) ==
    /\ call[w].at \in Exporting \ {"claim"} => i \in exported
    /\ call[w].at \in {"prepare", "data"} => device[i] = "bare"
    /\ call[w].at = "group" => device[i] = "data" /\ ~flag[i]
    /\ call[w].at \in {"enable", "flag"} => device[i] = "data"
    /\ call[w].at = "enable" => flag[i] # call[w].on
    /\ call[w].at = "find" => i \notin exported

PlaceInv ==
    /\ \A w \in Writers, i \in Fclks : call[w].fclk = {i} => Placed(w, i)
    /\ \A v, w \in Writers :
         /\ v # w /\ call[v].at \in Building /\ call[w].at \in Building
         => call[v].fclk # call[w].fclk

(* Nothing is exported, nor under way, without the driver; a clock with a  *)
(* device is exported, or is about to lose it.                             *)
BoundInv ==
    /\ "bound" \in held \/ /\ held = {} /\ ~exports /\ exported = {}
                           /\ \A w \in Writers : ~Busy(w)
    /\ \A i \in Fclks : device[i] = "data" =>
         i \in exported \/ \E w \in Writers : Works(w, "find", i)

(* A clock is prepared from just before its device has data, and runs as   *)
(* the flag says, or is about to say.                                      *)
BalanceInv ==
    \A i \in Fclks :
      /\ prepared[i] = IF device[i] = "data" \/ \E w \in Writers : Works(w, "data", i)
                       THEN 1 ELSE 0
      /\ \A w \in Writers : Works(w, "flag", i) => ticking[i] = IF call[w].on THEN 1 ELSE 0
      /\ (\A w \in Writers : ~Works(w, "flag", i)) =>
           ticking[i] = IF device[i] = "data" /\ flag[i] THEN 1 ELSE 0

(* Unless something has failed, what is exported has a device, and every   *)
(* device has data, but for the exports under way.                         *)
FaultInv ==
    /\ oops => failed
    /\ ~failed =>
         /\ "bound" \in held => Resources \subseteq held
         /\ \A i \in Fclks :
              /\ device[i] # "freed"
              /\ device[i] = "bare" =>
                   \E w \in Writers : Works(w, "prepare", i) \/ Works(w, "data", i)
              /\ i \in exported =>
                   device[i] = "data" \/ \E w \in Writers : \/ Works(w, "create", i)
                                                            \/ Works(w, "prepare", i)
                                                            \/ Works(w, "data", i)
              /\ \A w \in Writers : Works(w, "find", i) => device[i] = "data"

ClocksInv ==
    /\ ClockTypes
    /\ ~met => ApartInv /\ PlaceInv /\ BoundInv /\ BalanceInv /\ FaultInv

-----------------------------------------------------------------------------
(* The types.                                                              *)
LEMMA TheClock ==
    ASSUME NEW w, NEW i, call[w].fclk = {i}
    PROVE  The(w) = i
  BY DEF The

(* A call goes on, or ends: the others stay where they are.                *)
LEMMA CallGoesOn ==
    ASSUME CallTypes, NEW w \in Writers, NEW at \in Steps \ {"idle"}, NEW i \in Fclks,
           call[w].fclk = {i}, Continue(w, at)
    PROVE  /\ CallTypes'
           /\ call'[w].at = at /\ call'[w].fclk = {i} /\ call'[w].on = call[w].on
           /\ \A v \in Writers : v # w => call'[v] = call[v]
<1>1. /\ call'[w].at = at /\ call'[w].fclk = {i} /\ call'[w].on = call[w].on
      /\ \A v \in Writers : v # w => call'[v] = call[v]
      /\ call' \in [Writers -> [at : Steps, fclk : SUBSET Fclks, on : BOOLEAN]]
  BY DEF CallTypes, Continue
<1>2. at # "idle" /\ at \in Steps
  OBVIOUS
<1>3. \A v \in Writers : call'[v].at = "idle" => ~Busy(v)'
  BY <1>1, <1>2 DEF CallTypes, Busy
<1>4. \A v \in Writers :
        call'[v].at \notin {"idle", "unbind"} => \E j \in Fclks : call'[v].fclk = {j}
  BY <1>1 DEF CallTypes
<1> QED
  BY <1>1, <1>3, <1>4 DEF CallTypes

LEMMA CallEnds ==
    ASSUME CallTypes, NEW w \in Writers, End(w)
    PROVE  /\ CallTypes'
           /\ call'[w] = Idle
           /\ \A v \in Writers : v # w => call'[v] = call[v]
<1>1. /\ Idle \in [at : Steps, fclk : SUBSET Fclks, on : BOOLEAN]
      /\ Idle.at = "idle"
  BY DEF Idle, Steps
<1>2. /\ call'[w] = Idle /\ \A v \in Writers : v # w => call'[v] = call[v]
      /\ call' \in [Writers -> [at : Steps, fclk : SUBSET Fclks, on : BOOLEAN]]
  BY <1>1 DEF CallTypes, End
<1> QED
  BY <1>1, <1>2 DEF CallTypes, Busy

LEMMA CallBegins ==
    ASSUME CallTypes, NEW w \in Writers, NEW at \in Steps \ {"idle"}, NEW i \in Fclks,
           NEW on \in BOOLEAN,
           call' = [call EXCEPT ![w] = [at |-> at, fclk |-> {i}, on |-> on]]
    PROVE  /\ CallTypes'
           /\ call'[w].at = at /\ call'[w].fclk = {i} /\ call'[w].on = on
           /\ \A v \in Writers : v # w => call'[v] = call[v]
<1>1. /\ call'[w].at = at /\ call'[w].fclk = {i} /\ call'[w].on = on
      /\ \A v \in Writers : v # w => call'[v] = call[v]
      /\ call' \in [Writers -> [at : Steps, fclk : SUBSET Fclks, on : BOOLEAN]]
  BY DEF CallTypes
<1>2. \A v \in Writers : call'[v].at = "idle" => ~Busy(v)'
  BY <1>1 DEF CallTypes, Busy
<1>3. \A v \in Writers :
        call'[v].at \notin {"idle", "unbind"} => \E j \in Fclks : call'[v].fclk = {j}
  BY <1>1 DEF CallTypes
<1> QED
  BY <1>1, <1>2, <1>3 DEF CallTypes

LEMMA UnbindBegins ==
    ASSUME CallTypes, NEW w \in Writers,
           call' = [call EXCEPT ![w] = [at |-> "unbind", fclk |-> {}, on |-> FALSE]]
    PROVE  /\ CallTypes'
           /\ call'[w].at = "unbind"
           /\ \A v \in Writers : v # w => call'[v] = call[v]
<1>1. [at |-> "unbind", fclk |-> {}, on |-> FALSE]
        \in [at : Steps, fclk : SUBSET Fclks, on : BOOLEAN]
  BY DEF Steps
<1>2. /\ call'[w] = [at |-> "unbind", fclk |-> {}, on |-> FALSE]
      /\ \A v \in Writers : v # w => call'[v] = call[v]
      /\ call' \in [Writers -> [at : Steps, fclk : SUBSET Fclks, on : BOOLEAN]]
  BY <1>1 DEF CallTypes
<1>3. \A v \in Writers : call'[v].at = "idle" => ~Busy(v)'
  BY <1>2 DEF CallTypes, Busy
<1>4. \A v \in Writers :
        call'[v].at \notin {"idle", "unbind"} => \E j \in Fclks : call'[v].fclk = {j}
  BY <1>2 DEF CallTypes
<1> QED
  BY <1>2, <1>3, <1>4 DEF CallTypes

(* A call that is under way is about one clock.                            *)
LEMMA CallAt ==
    ASSUME CallTypes, NEW w \in Writers, call[w].at \notin {"idle", "unbind"}
    PROVE  \E i \in Fclks : call[w].fclk = {i} /\ The(w) = i /\ Busy(w)
  BY TheClock DEF CallTypes, Busy, Idle

LEMMA NextClockTypes ==
    ClockTypes /\ [ClocksNext]_clockVars => ClockTypes'
<1> SUFFICES ASSUME ClockTypes, [ClocksNext]_clockVars PROVE ClockTypes'
  OBVIOUS
<1>1. CallTypes
  BY DEF ClockTypes
<1> USE DEF ClockTypes
<1>2. CASE Probe
  <2>1. UNCHANGED call
    BY <1>2 DEF Probe
  <2>2. CallTypes'
    BY <1>1, <2>1 DEF CallTypes, Busy
  <2> QED
    BY <1>2, <2>2 DEF Probe, LeftBy, Resources
<1>3. ASSUME NEW w \in Writers, ExportStore(w) PROVE ClockTypes'
  <2>1. PICK i \in Fclks : Begin(w, "claim", {i}, FALSE)
    BY <1>3 DEF ExportStore
  <2>2. CallTypes'
    BY <1>1, <2>1, CallBegins DEF Begin, Steps, Exporting
  <2> QED
    BY <1>3, <2>1, <2>2 DEF ExportStore, Begin
<1>4. ASSUME NEW w \in Writers,
             \/ Claim(w) \/ CreateDevice(w) \/ PrepareClock(w) \/ SetData(w)
             \/ CreateGroup(w) \/ ExportFails(w) \/ FindDevice(w) \/ SwitchClock(w) \/ SetFlag(w)
      PROVE  ClockTypes'
  <2>1. PICK i \in Fclks : call[w].fclk = {i} /\ The(w) = i
    <3>1. call[w].at \notin {"idle", "unbind"}
      BY <1>4 DEF Claim, CreateDevice, PrepareClock, SetData, CreateGroup, ExportFails,
                  FindDevice, SwitchClock, SetFlag, At
    <3> QED
      BY <1>1, <3>1, CallAt
  <2>2. CallTypes'
    <3>1. \/ \E at \in Steps \ {"idle"} : Continue(w, at)
          \/ End(w)
      BY <1>4 DEF Claim, CreateDevice, PrepareClock, SetData, CreateGroup, ExportFails,
                  FindDevice, SwitchClock, SetFlag, Steps, Exporting
    <3> QED
      BY <1>1, <2>1, <3>1, CallGoesOn, CallEnds
  <2>3. CASE Claim(w) \/ CreateGroup(w)
    BY <2>1, <2>2, <2>3 DEF Claim, CreateGroup
  <2>4. CASE CreateDevice(w) \/ PrepareClock(w)
    BY <2>1, <2>2, <2>4 DEF CreateDevice, PrepareClock
  <2>5. CASE SetData(w)
    BY <2>1, <2>2, <2>5 DEF SetData
  <2>9. CASE ExportFails(w)
    <3>1. device' \in [Fclks -> {"none", "bare", "data", "freed"}]
      BY <2>1, <2>9 DEF ExportFails
    <3>2. prepared' \in [Fclks -> Int]
      BY <2>1, <2>9 DEF ExportFails
    <3> QED
      BY <2>2, <2>9, <3>1, <3>2 DEF ExportFails
  <2>6. CASE FindDevice(w)
    BY <2>1, <2>2, <2>6 DEF FindDevice, Disabled
  <2>7. CASE SwitchClock(w)
    BY <2>1, <2>2, <2>7 DEF SwitchClock
  <2>8. CASE SetFlag(w)
    <3>1. call[w].on \in BOOLEAN
      BY <1>1 DEF CallTypes
    <3> QED
      BY <2>1, <2>2, <2>8, <3>1 DEF SetFlag
  <2> QED
    BY <1>4, <2>3, <2>4, <2>5, <2>6, <2>7, <2>8, <2>9
<1>5. ASSUME NEW w \in Writers, UnexportStore(w) PROVE ClockTypes'
  <2>1. PICK i \in exported : exported' = exported \ {i} /\ Begin(w, "find", {i}, FALSE)
    BY <1>5 DEF UnexportStore
  <2>2. CallTypes'
    BY <1>1, <2>1, CallBegins DEF Begin, Steps
  <2> QED
    BY <1>5, <2>1, <2>2 DEF UnexportStore, Begin
<1>6. ASSUME NEW w \in Writers, Unbind(w) PROVE ClockTypes'
  <2>1. CallTypes'
    BY <1>1, <1>6, UnbindBegins DEF Unbind, Begin
  <2> QED
    BY <1>6, <2>1 DEF Unbind, Begin
<1>7. ASSUME NEW w \in Writers, UnbindNext(w) PROVE ClockTypes'
  <2>1. CASE exported = {}
    <3>1. CallTypes'
      BY <1>1, <1>7, <2>1, CallEnds DEF UnbindNext
    <3> QED
      BY <1>7, <2>1, <3>1 DEF UnbindNext
  <2>2. CASE exported # {}
    <3>1. PICK i \in exported :
            /\ exported' = exported \ {i}
            /\ call' = [call EXCEPT ![w] = [at |-> "find", fclk |-> {i}, on |-> TRUE]]
      BY <1>7, <2>2 DEF UnbindNext
    <3>2. CallTypes'
      BY <1>1, <3>1, CallBegins DEF Steps
    <3> QED
      BY <1>7, <2>2, <3>1, <3>2 DEF UnbindNext
  <2> QED
    BY <2>1, <2>2
<1>8. ASSUME NEW w \in Writers, FindFails(w) PROVE ClockTypes'
  BY <1>1, <1>8 DEF FindFails, CallTypes, Busy
<1>9. ASSUME NEW w \in Writers, EnableStore(w) PROVE ClockTypes'
  <2>1. PICK i \in Fclks, on \in BOOLEAN : Begin(w, "enable", {i}, on)
    BY <1>9 DEF EnableStore
  <2>2. CallTypes'
    BY <1>1, <2>1, CallBegins DEF Begin, Steps
  <2> QED
    BY <1>9, <2>1, <2>2 DEF EnableStore, Begin
<1>10. CASE UNCHANGED clockVars
  BY <1>1, <1>10 DEF clockVars, CallTypes, Busy
<1> QED
  BY <1>2, <1>3, <1>4, <1>5, <1>6, <1>7, <1>8, <1>9, <1>10
     DEF ClocksNext, ExportStep, UnexportStep, EnableStep

-----------------------------------------------------------------------------
(* Who clashes with whom.                                                  *)
Lonely(w) == \A v \in Writers : v # w => ~Busy(v)

LEMMA ApartKept ==
    ASSUME CallTypes, ApartInv, NEW w \in Writers, Busy(w),
           \A v \in Writers : v # w => call'[v] = call[v],
           \/ call'[w] = Idle
           \/ Lonely(w)
           \/ /\ call'[w].fclk = call[w].fclk /\ call'[w].at \notin {"unbind", "find"}
              /\ call'[w].at \in {"enable", "flag"} => call[w].at \in {"enable", "flag"}
    PROVE  ApartInv'
  BY DEF ApartInv, Busy, Lonely, Idle

(* A call that began without a clash.                                      *)
LEMMA ApartBegins ==
    ASSUME CallTypes, ApartInv, ~met', NEW w \in Writers, NEW at \in Steps \ {"idle"},
           NEW c, NEW on, Begin(w, at, c, on),
           call'[w].at = at, call'[w].fclk = c,
           \A v \in Writers : v # w => call'[v] = call[v]
    PROVE  /\ ApartInv'
           /\ ~met /\ ~oops /\ call[w] = Idle
           /\ \A v \in Writers : call'[v] # call[v] => v = w
           /\ at \in {"unbind", "find"} => Lonely(w)
           /\ \A v \in Writers : v # w /\ Busy(v) =>
                /\ call[v].at \notin {"unbind", "find"}
                /\ {at, call[v].at} \cap {"enable", "flag"} # {} => call[v].fclk # c
<1>1. \A v \in Writers : Busy(v) =>
        /\ {at, call[v].at} \cap {"unbind", "find"} = {}
        /\ {at, call[v].at} \cap {"enable", "flag"} # {} => call[v].fclk # c
  BY DEF Begin, Clash, Busy
<1>2. ~met /\ ~oops /\ call[w] = Idle
  BY DEF Begin
<1>3. \A v \in Writers : v # w => (Busy(v)' <=> Busy(v))
  BY DEF Busy
<1>4. ASSUME NEW u \in Writers, NEW v \in Writers, u # v, Busy(u)', Busy(v)'
      PROVE  /\ call'[u].at \notin {"unbind", "find"}
             /\ call'[u].at \in {"enable", "flag"} => call'[u].fclk # call'[v].fclk
  <2>1. CASE u # w /\ v # w
    BY <1>3, <1>4, <2>1 DEF ApartInv
  <2>2. CASE u = w
    BY <1>1, <1>3, <1>4, <2>2
  <2>3. CASE v = w
    BY <1>1, <1>3, <1>4, <2>3
  <2> QED
    BY <2>1, <2>2, <2>3
<1>5. ApartInv'
  BY <1>4 DEF ApartInv
<1> QED
  BY <1>1, <1>2, <1>5 DEF Lonely

(* Who unexports is alone.                                                 *)
LEMMA AloneInFind ==
    ASSUME ApartInv, NEW w \in Writers, Busy(w), call[w].at \in {"unbind", "find"}
    PROVE  Lonely(w)
  BY DEF ApartInv, Lonely

Balanced == ApartInv /\ PlaceInv /\ BoundInv /\ BalanceInv /\ FaultInv

-----------------------------------------------------------------------------
(* The driver is bound: no call is under way.                              *)
LEMMA ProbeBalances ==
    ASSUME ClockTypes, Balanced, Probe
    PROVE  Balanced'
<1>1. /\ \A w \in Writers : call[w] = Idle /\ call'[w] = Idle
      /\ held = {} /\ exported = {} /\ exported' = {}
      /\ UNCHANGED <<device, prepared, ticking, flag, oops, call>>
  BY DEF Balanced, BoundInv, Probe, Busy
<1>2. \A w \in Writers, i \in Fclks, at \in Steps \ {"idle"} :
         ~Works(w, at, i) /\ ~Works(w, at, i)'
  BY <1>1 DEF Works, Idle, Steps
<1>3. ApartInv' /\ PlaceInv'
  BY <1>1 DEF ApartInv, PlaceInv, Placed, Busy, Idle, Exporting, Building
<1>4. \A i \in Fclks : device[i] # "data"
  BY <1>1, <1>2 DEF Balanced, BoundInv, Steps
<1>5. BoundInv'
  <2>1. ~exports
    BY DEF Balanced, BoundInv, Probe
  <2>2. CASE held' = Resources \cup {"bound"}
    BY <1>1, <1>4, <2>2 DEF BoundInv, Busy
  <2>3. CASE exports' = exports /\ \E r \in Resources : held' = LeftBy(r)
    <3>1. "bound" \in held' \/ held' = {}
      BY <2>3 DEF LeftBy
    <3> QED
      BY <1>1, <1>4, <2>1, <2>3, <3>1 DEF BoundInv, Busy
  <2> QED
    BY <2>2, <2>3 DEF Probe
<1>6. BalanceInv'
  BY <1>1 DEF Balanced, BalanceInv, Works
<1>7. FaultInv'
  <2>1. (oops => failed)'
    BY <1>1 DEF Probe, Balanced, FaultInv, ClockTypes
  <2>2. ~failed' => ~failed /\ ("bound" \in held' => Resources \subseteq held')
    BY DEF Probe, LeftBy, ClockTypes
  <2> QED
    BY <1>1, <2>1, <2>2 DEF Balanced, FaultInv, Works
<1> QED
  BY <1>3, <1>5, <1>6, <1>7 DEF Balanced

-----------------------------------------------------------------------------
(* A clock is exported.                                                    *)
LEMMA ExportBegins ==
    ASSUME ClockTypes, Balanced, ~met', NEW w \in Writers, ExportStore(w)
    PROVE  Balanced'
<1>1. PICK i \in Fclks : i \notin exported /\ Begin(w, "claim", {i}, FALSE)
  BY DEF ExportStore
<1>2. /\ "claim" \in Steps \ {"idle"} /\ CallTypes
  BY DEF ClockTypes, Steps, Exporting
<1>3. /\ call'[w].at = "claim" /\ call'[w].fclk = {i}
      /\ \A v \in Writers : v # w => call'[v] = call[v]
  BY <1>1, <1>2, CallBegins DEF Begin
<1>4. ApartInv' /\ call[w] = Idle
  BY <1>1, <1>2, <1>3, ApartBegins DEF Balanced
<1>5. UNCHANGED <<held, exports, exported, device, prepared, ticking, flag, oops, failed>>
  BY DEF ExportStore
<1>6. \A v \in Writers, j \in Fclks, at \in Steps \ {"idle", "claim"} :
         Works(v, at, j)' <=> Works(v, at, j)
  BY <1>3, <1>4 DEF Works, Idle
<1>7. PlaceInv'
  BY <1>3, <1>4, <1>5 DEF Balanced, PlaceInv, Placed, Building, Exporting, Idle
<1>8. BoundInv'
  <2>1. "bound" \in held
    BY DEF ExportStore, Balanced, BoundInv
  <2> QED
    BY <1>5, <1>6, <2>1 DEF Balanced, BoundInv, Steps
<1>9. BalanceInv'
  <2>1. \A v \in Writers, j \in Fclks : Works(v, "flag", j) => call'[v].on = call[v].on
    BY <1>3, <1>4 DEF Works, Idle
  <2> QED
    BY <1>5, <1>6, <2>1 DEF Balanced, BalanceInv, Steps, Exporting
<1>10. FaultInv'
  BY <1>5, <1>6 DEF Balanced, FaultInv, Steps, Exporting
<1> QED
  BY <1>4, <1>7, <1>8, <1>9, <1>10 DEF Balanced

(* What is common to the steps of an export, of clock i.                   *)
LEMMA ExportGoesOn ==
    ASSUME ClockTypes, ApartInv, BoundInv, NEW w \in Writers, NEW i \in Fclks,
           call[w].at \in Exporting, call[w].fclk = {i},
           \A v \in Writers : v # w => call'[v] = call[v],
           call'[w] = Idle \/ (call'[w].at \in Exporting /\ call'[w].fclk = {i})
    PROVE  /\ ApartInv' /\ "bound" \in held
           /\ \A v \in Writers, j \in Fclks :
                /\ Works(v, "find", j)' <=> Works(v, "find", j)
                /\ Works(v, "flag", j)' <=> Works(v, "flag", j)
                /\ ~Works(v, "find", j) /\ ~Works(v, "flag", i)
                /\ j # i => \A at \in Steps \ {"idle"} : Works(v, at, j)' <=> Works(v, at, j)
                /\ v # w /\ call[v].at \in {"enable", "flag"} => call[v].fclk # {i}
<1>1. Busy(w)
  BY DEF Busy, Idle, Exporting
<1>2. ApartInv'
  BY <1>1, ApartKept DEF ClockTypes, Exporting
<1>3. "bound" \in held
  BY <1>1 DEF BoundInv
<1>4. ASSUME NEW v \in Writers, v # w
      PROVE  call[v].at # "find" /\ (call[v].at \in {"enable", "flag"} => call[v].fclk # {i})
  <2>1. call[v].at # "idle" => Busy(v)
    BY DEF Busy, Idle
  <2> QED
    BY <1>1, <1>4, <2>1 DEF ApartInv
<1>5. ASSUME NEW v \in Writers, NEW j \in Fclks
      PROVE  /\ Works(v, "find", j)' <=> Works(v, "find", j)
             /\ Works(v, "flag", j)' <=> Works(v, "flag", j)
             /\ ~Works(v, "find", j) /\ ~Works(v, "flag", i)
             /\ j # i => \A at \in Steps \ {"idle"} : Works(v, at, j)' <=> Works(v, at, j)
  BY <1>4 DEF Works, Exporting, Idle
<1> QED
  BY <1>2, <1>3, <1>4, <1>5

LEMMA ClaimBalances ==
    ASSUME ClockTypes, Balanced, NEW w \in Writers, Claim(w)
    PROVE  Balanced'
<1>1. PICK i \in Fclks : call[w].fclk = {i} /\ The(w) = i
  BY CallAt DEF Claim, At, ClockTypes
<1>2. /\ call[w].at = "claim" /\ call'[w].at = "create" /\ call'[w].fclk = {i}
      /\ \A v \in Writers : v # w => call'[v] = call[v]
  BY <1>1, CallGoesOn DEF Claim, At, ClockTypes, Steps, Exporting
<1>3. /\ exported' = exported \cup {i}
      /\ UNCHANGED <<held, device, prepared, ticking, flag, oops, met, failed>>
  BY <1>1 DEF Claim
<1>4. /\ ApartInv' /\ "bound" \in held
      /\ \A v \in Writers, j \in Fclks :
           /\ Works(v, "find", j)' <=> Works(v, "find", j)
           /\ Works(v, "flag", j)' <=> Works(v, "flag", j)
           /\ ~Works(v, "find", j) /\ ~Works(v, "flag", i)
           /\ v # w /\ call[v].at \in {"enable", "flag"} => call[v].fclk # {i}
  BY <1>1, <1>2, ExportGoesOn DEF Balanced, Exporting
<1>5. \A v \in Writers, j \in Fclks, at \in Steps \ {"idle", "claim", "create"} :
         Works(v, at, j)' <=> Works(v, at, j)
  BY <1>2 DEF Works
<1>6. PlaceInv'
  BY <1>2, <1>3, <1>4 DEF Balanced, PlaceInv, Placed, Building, Exporting, Works
<1>7. BoundInv'
  BY <1>3, <1>4 DEF Balanced, BoundInv
<1>8. BalanceInv'
  <2>1. \A v \in Writers, j \in Fclks : Works(v, "flag", j) => call'[v].on = call[v].on
    BY <1>2 DEF Works
  <2> QED
    BY <1>3, <1>4, <1>5, <2>1 DEF Balanced, BalanceInv, Steps, Exporting
<1>9. FaultInv'
  <2>1. Works(w, "create", i)'
    BY <1>2 DEF Works
  <2>2. \A v \in Writers, j \in Fclks : Works(v, "create", j) => Works(v, "create", j)'
    BY <1>2 DEF Works
  <2> QED
    BY <1>3, <1>4, <1>5, <2>1, <2>2 DEF Balanced, FaultInv, Steps, Exporting
<1> QED
  BY <1>4, <1>6, <1>7, <1>8, <1>9 DEF Balanced

LEMMA CreateDeviceBalances ==
    ASSUME ClockTypes, Balanced, NEW w \in Writers, CreateDevice(w)
    PROVE  Balanced'
<1>1. PICK i \in Fclks : call[w].fclk = {i} /\ The(w) = i
  BY CallAt DEF CreateDevice, At, ClockTypes
<1>2. /\ call[w].at = "create" /\ call'[w].at = "prepare" /\ call'[w].fclk = {i}
      /\ \A v \in Writers : v # w => call'[v] = call[v]
  BY <1>1, CallGoesOn DEF CreateDevice, At, ClockTypes, Steps, Exporting
<1>3. /\ device[i] = "none" /\ device' = [device EXCEPT ![i] = "bare"]
      /\ UNCHANGED <<held, exports, exported, prepared, ticking, flag, oops, met, failed>>
  BY <1>1 DEF CreateDevice
<1>4. /\ ApartInv' /\ "bound" \in held
      /\ \A v \in Writers, j \in Fclks :
           /\ Works(v, "find", j)' <=> Works(v, "find", j)
           /\ Works(v, "flag", j)' <=> Works(v, "flag", j)
           /\ ~Works(v, "find", j) /\ ~Works(v, "flag", i)
           /\ j # i => \A at \in Steps \ {"idle"} : Works(v, at, j)' <=> Works(v, at, j)
           /\ v # w /\ call[v].at \in {"enable", "flag"} => call[v].fclk # {i}
  BY <1>1, <1>2, ExportGoesOn DEF Balanced, Exporting
<1>5. /\ device'[i] = "bare" /\ \A j \in Fclks : j # i => device'[j] = device[j]
  BY <1>3 DEF ClockTypes
<1>6. \A v \in Writers : call[v].fclk = {i} => call[v].at \notin Building
  BY <1>3 DEF Balanced, PlaceInv, Placed, Building
<1>7. PlaceInv'
  <2>1. ASSUME NEW v \in Writers, NEW j \in Fclks, call'[v].fclk = {j}
        PROVE  Placed(v, j)'
    <3>1. CASE v = w
      <4>1. i = j
        BY <1>2, <2>1, <3>1
      <4>2. i \in exported
        BY <1>1, <1>2 DEF Balanced, PlaceInv, Placed, Exporting
      <4> QED
        BY <1>2, <1>3, <1>5, <3>1, <4>1, <4>2 DEF Placed
    <3>2. CASE v # w /\ j # i
      BY <1>2, <1>3, <1>5, <2>1, <3>2 DEF Balanced, PlaceInv, Placed
    <3>3. CASE v # w /\ j = i
      BY <1>2, <1>3, <1>4, <1>5, <1>6, <2>1, <3>3 DEF Balanced, PlaceInv, Placed, Building
    <3> QED
      BY <3>1, <3>2, <3>3
  <2>2. \A u, v \in Writers :
           /\ u # v /\ call'[u].at \in Building /\ call'[v].at \in Building
           => call'[u].fclk # call'[v].fclk
    BY <1>2, <1>6 DEF Balanced, PlaceInv
  <2> QED
    BY <2>1, <2>2 DEF PlaceInv
<1>8. BoundInv'
  BY <1>3, <1>4, <1>5 DEF Balanced, BoundInv
<1>9. BalanceInv'
  <2>1. \A v \in Writers, j \in Fclks : Works(v, "flag", j) => call'[v].on = call[v].on
    BY <1>2 DEF Works
  <2>2. \A v \in Writers, j \in Fclks : Works(v, "data", j)' <=> Works(v, "data", j)
    BY <1>2 DEF Works
  <2> QED
    BY <1>3, <1>4, <1>5, <2>1, <2>2 DEF Balanced, BalanceInv
<1>10. FaultInv'
  <2>1. Works(w, "prepare", i)'
    BY <1>2 DEF Works
  <2>2. \A v \in Writers, j \in Fclks :
           /\ j # i /\ Works(v, "create", j) => Works(v, "create", j)'
           /\ Works(v, "prepare", j) => Works(v, "prepare", j)'
           /\ Works(v, "data", j) => Works(v, "data", j)'
    BY <1>1, <1>2 DEF Works
  <2> QED
    BY <1>3, <1>4, <1>5, <2>1, <2>2 DEF Balanced, FaultInv
<1> QED
  BY <1>4, <1>7, <1>8, <1>9, <1>10 DEF Balanced

LEMMA PrepareClockBalances ==
    ASSUME ClockTypes, Balanced, NEW w \in Writers, PrepareClock(w)
    PROVE  Balanced'
<1>1. PICK i \in Fclks : call[w].fclk = {i} /\ The(w) = i
  BY CallAt DEF PrepareClock, At, ClockTypes
<1>2. /\ call[w].at = "prepare" /\ call'[w].at = "data" /\ call'[w].fclk = {i}
      /\ \A v \in Writers : v # w => call'[v] = call[v]
  BY <1>1, CallGoesOn DEF PrepareClock, At, ClockTypes, Steps, Exporting
<1>3. /\ prepared' = [prepared EXCEPT ![i] = @ + 1]
      /\ UNCHANGED <<held, exports, exported, device, ticking, flag, oops, met, failed>>
  BY <1>1 DEF PrepareClock
<1>4. /\ ApartInv' /\ "bound" \in held
      /\ \A v \in Writers, j \in Fclks :
           /\ Works(v, "find", j)' <=> Works(v, "find", j)
           /\ Works(v, "flag", j)' <=> Works(v, "flag", j)
           /\ j # i => \A at \in Steps \ {"idle"} : Works(v, at, j)' <=> Works(v, at, j)
  BY <1>1, <1>2, ExportGoesOn DEF Balanced, Exporting
<1>5. /\ prepared'[i] = prepared[i] + 1 /\ \A j \in Fclks : j # i => prepared'[j] = prepared[j]
  BY <1>3 DEF ClockTypes
<1>6. device[i] = "bare" /\ \A v \in Writers : ~Works(v, "data", i)
  BY <1>1, <1>2 DEF Balanced, PlaceInv, Placed, Works, Building
<1>7. PlaceInv'
  <2>1. ASSUME NEW v \in Writers, NEW j \in Fclks, call'[v].fclk = {j}
        PROVE  Placed(v, j)'
    <3>1. CASE v = w
      <4>1. i = j
        BY <1>2, <2>1, <3>1
      <4>2. i \in exported
        BY <1>1, <1>2 DEF Balanced, PlaceInv, Placed, Exporting
      <4> QED
        BY <1>2, <1>3, <1>6, <3>1, <4>1, <4>2 DEF Placed
    <3>2. CASE v # w
      BY <1>2, <1>3, <2>1, <3>2 DEF Balanced, PlaceInv, Placed
    <3> QED
      BY <3>1, <3>2
  <2>2. \A u, v \in Writers :
           /\ u # v /\ call'[u].at \in Building /\ call'[v].at \in Building
           => call'[u].fclk # call'[v].fclk
    <3>1. \A v \in Writers :
            call'[v].at \in Building =>
              call[v].at \in Building /\ call'[v].fclk = call[v].fclk
      BY <1>1, <1>2 DEF Building
    <3>2. PlaceInv
      BY DEF Balanced
    <3> QED
      BY <3>1, <3>2 DEF PlaceInv
  <2> QED
    BY <2>1, <2>2 DEF PlaceInv
<1>8. BoundInv'
  BY <1>3, <1>4 DEF Balanced, BoundInv
<1>9. BalanceInv'
  <2>1. \A v \in Writers, j \in Fclks : Works(v, "flag", j) => call'[v].on = call[v].on
    BY <1>2 DEF Works
  <2>2. Works(w, "data", i)'
    BY <1>2 DEF Works
  <2>3. prepared'[i] = 1
    BY <1>5, <1>6 DEF Balanced, BalanceInv
  <2> QED
    BY <1>3, <1>4, <1>5, <2>1, <2>2, <2>3 DEF Balanced, BalanceInv, Steps, Exporting
<1>10. FaultInv'
  <2>1. Works(w, "data", i)'
    BY <1>2 DEF Works
  <2>2. \A v \in Writers, j \in Fclks : j # i =>
           /\ Works(v, "create", j) => Works(v, "create", j)'
           /\ Works(v, "prepare", j) => Works(v, "prepare", j)'
           /\ Works(v, "data", j) => Works(v, "data", j)'
    BY <1>1, <1>2 DEF Works
  <2> QED
    BY <1>3, <1>4, <2>1, <2>2 DEF Balanced, FaultInv
<1> QED
  BY <1>4, <1>7, <1>8, <1>9, <1>10 DEF Balanced

LEMMA SetDataBalances ==
    ASSUME ClockTypes, Balanced, NEW w \in Writers, SetData(w)
    PROVE  Balanced'
<1>1. PICK i \in Fclks : call[w].fclk = {i} /\ The(w) = i
  BY CallAt DEF SetData, At, ClockTypes
<1>2. /\ call[w].at = "data" /\ call'[w].at = "group" /\ call'[w].fclk = {i}
      /\ \A v \in Writers : v # w => call'[v] = call[v]
  BY <1>1, CallGoesOn DEF SetData, At, ClockTypes, Steps, Exporting
<1>3. /\ device' = [device EXCEPT ![i] = "data"] /\ flag' = [flag EXCEPT ![i] = FALSE]
      /\ UNCHANGED <<held, exports, exported, prepared, ticking, oops, met, failed>>
  BY <1>1 DEF SetData
<1>4. /\ ApartInv' /\ "bound" \in held
      /\ \A v \in Writers, j \in Fclks :
           /\ Works(v, "find", j)' <=> Works(v, "find", j)
           /\ Works(v, "flag", j)' <=> Works(v, "flag", j)
           /\ ~Works(v, "find", j) /\ ~Works(v, "flag", i)
           /\ j # i => \A at \in Steps \ {"idle"} : Works(v, at, j)' <=> Works(v, at, j)
           /\ v # w /\ call[v].at \in {"enable", "flag"} => call[v].fclk # {i}
  BY <1>1, <1>2, ExportGoesOn DEF Balanced, Exporting
<1>5. /\ device'[i] = "data" /\ ~flag'[i]
      /\ \A j \in Fclks : j # i => device'[j] = device[j] /\ flag'[j] = flag[j]
  BY <1>3 DEF ClockTypes
<1>6. /\ i \in exported /\ device[i] = "bare"
      /\ \A v \in Writers : v # w /\ call[v].fclk = {i} => call[v].at \notin Building
  BY <1>1, <1>2 DEF Balanced, PlaceInv, Placed, Building, Exporting
<1>7. PlaceInv'
  <2>1. ASSUME NEW v \in Writers, NEW j \in Fclks, call'[v].fclk = {j}
        PROVE  Placed(v, j)'
    <3>1. CASE v = w
      <4>1. i = j
        BY <1>2, <2>1, <3>1
      <4> QED
        BY <1>2, <1>3, <1>5, <1>6, <3>1, <4>1 DEF Placed
    <3>2. CASE v # w /\ j # i
      BY <1>2, <1>3, <1>5, <2>1, <3>2 DEF Balanced, PlaceInv, Placed
    <3>3. CASE v # w /\ j = i
      <4>1. call'[v] = call[v] /\ call[v].fclk = {i}
        BY <1>2, <2>1, <3>3
      <4>2. call[v].at \notin Building /\ call[v].at \notin {"enable", "flag", "find"}
        BY <1>4, <1>6, <3>3, <4>1 DEF Works
      <4>3. Placed(v, i)
        BY <4>1 DEF Balanced, PlaceInv
      <4> QED
        BY <1>3, <3>3, <4>1, <4>2, <4>3 DEF Placed, Building
    <3> QED
      BY <3>1, <3>2, <3>3
  <2>2. \A u, v \in Writers :
           /\ u # v /\ call'[u].at \in Building /\ call'[v].at \in Building
           => call'[u].fclk # call'[v].fclk
    BY <1>2, <1>6 DEF Balanced, PlaceInv
  <2> QED
    BY <2>1, <2>2 DEF PlaceInv
<1>8. BoundInv'
  BY <1>3, <1>4, <1>5, <1>6 DEF Balanced, BoundInv
<1>9. BalanceInv'
  <2>1. \A v \in Writers, j \in Fclks : Works(v, "flag", j) => call'[v].on = call[v].on
    BY <1>2 DEF Works
  <2>2. Works(w, "data", i)
    BY <1>1, <1>2 DEF Works
  <2>3. prepared[i] = 1 /\ ticking[i] = 0
    BY <1>4, <1>6, <2>2 DEF Balanced, BalanceInv
  <2> QED
    BY <1>3, <1>4, <1>5, <2>1, <2>3 DEF Balanced, BalanceInv, Steps, Exporting
<1>10. FaultInv'
  <2>2. \A v \in Writers, j \in Fclks : j # i =>
           /\ Works(v, "create", j) => Works(v, "create", j)'
           /\ Works(v, "prepare", j) => Works(v, "prepare", j)'
           /\ Works(v, "data", j) => Works(v, "data", j)'
    BY <1>1, <1>2 DEF Works
  <2> QED
    BY <1>3, <1>4, <1>5, <2>2 DEF Balanced, FaultInv
<1> QED
  BY <1>4, <1>7, <1>8, <1>9, <1>10 DEF Balanced

LEMMA CreateGroupBalances ==
    ASSUME ClockTypes, Balanced, NEW w \in Writers, CreateGroup(w)
    PROVE  Balanced'
<1>1. PICK i \in Fclks : call[w].fclk = {i}
  BY CallAt DEF CreateGroup, At, ClockTypes
<1>2. /\ call[w].at = "group" /\ call'[w] = Idle
      /\ \A v \in Writers : v # w => call'[v] = call[v]
  BY CallEnds DEF CreateGroup, At, ClockTypes
<1>3. UNCHANGED <<held, exports, exported, device, prepared, ticking, flag, oops, met, failed>>
  BY DEF CreateGroup
<1>4. /\ ApartInv' /\ "bound" \in held
      /\ \A v \in Writers, j \in Fclks :
           /\ Works(v, "find", j)' <=> Works(v, "find", j)
           /\ Works(v, "flag", j)' <=> Works(v, "flag", j)
  BY <1>1, <1>2, ExportGoesOn DEF Balanced, Exporting
<1>5. \A v \in Writers, j \in Fclks, at \in {"create", "prepare", "data", "find"} :
         Works(v, at, j)' <=> Works(v, at, j)
  BY <1>2 DEF Works, Idle
<1>6. PlaceInv'
  BY <1>2, <1>3 DEF Balanced, PlaceInv, Placed, Building, Exporting, Idle
<1>7. BoundInv'
  BY <1>3, <1>4 DEF Balanced, BoundInv
<1>8. BalanceInv'
  <2>1. \A v \in Writers, j \in Fclks : Works(v, "flag", j) => call'[v].on = call[v].on
    BY <1>2 DEF Works
  <2> QED
    BY <1>3, <1>4, <1>5, <2>1 DEF Balanced, BalanceInv
<1>9. FaultInv'
  BY <1>3, <1>5 DEF Balanced, FaultInv
<1> QED
  BY <1>4, <1>6, <1>7, <1>8, <1>9 DEF Balanced

LEMMA ExportFailsBalances ==
    ASSUME ClockTypes, Balanced, NEW w \in Writers, ExportFails(w)
    PROVE  Balanced'
<1>1. PICK i \in Fclks : call[w].fclk = {i} /\ The(w) = i
  BY CallAt DEF ExportFails, ClockTypes
<1>2. /\ call[w].at \in {"create", "prepare", "data", "group"} /\ call'[w] = Idle
      /\ \A v \in Writers : v # w => call'[v] = call[v]
  BY CallEnds DEF ExportFails, ClockTypes
<1>3. /\ UNCHANGED <<held, exports, exported, ticking, flag, oops, met>> /\ failed' = TRUE
      /\ prepared' = IF call[w].at \in {"data", "group"}
                     THEN [prepared EXCEPT ![i] = @ - 1] ELSE prepared
      /\ device' = IF call[w].at = "group" THEN [device EXCEPT ![i] = "freed"] ELSE device
  BY <1>1 DEF ExportFails
<1>4. /\ ApartInv' /\ "bound" \in held
      /\ \A v \in Writers, j \in Fclks :
           /\ Works(v, "find", j)' <=> Works(v, "find", j)
           /\ Works(v, "flag", j)' <=> Works(v, "flag", j)
           /\ ~Works(v, "find", j) /\ ~Works(v, "flag", i)
           /\ j # i => \A at \in Steps \ {"idle"} : Works(v, at, j)' <=> Works(v, at, j)
           /\ v # w /\ call[v].at \in {"enable", "flag"} => call[v].fclk # {i}
  BY <1>1, <1>2, ExportGoesOn DEF Balanced, Exporting
<1>5. /\ \A j \in Fclks : j # i => device'[j] = device[j] /\ prepared'[j] = prepared[j]
      /\ call[w].at = "group" => device'[i] = "freed"
      /\ call[w].at # "group" => device'[i] = device[i]
      /\ call[w].at \in {"data", "group"} => prepared'[i] = prepared[i] - 1
      /\ call[w].at \notin {"data", "group"} => prepared'[i] = prepared[i]
  BY <1>3 DEF ClockTypes
<1>6. /\ call[w].at \in {"prepare", "data"} => device[i] = "bare"
      /\ call[w].at = "group" => device[i] = "data" /\ ~flag[i]
      /\ \A v \in Writers : /\ v # w /\ call[v].fclk = {i} /\ call[w].at \in Building
                            => call[v].at \notin Building
  <2>1. Placed(w, i)
    BY <1>1 DEF Balanced, PlaceInv
  <2>2. \A v \in Writers : /\ v # w /\ call[v].fclk = {i} /\ call[w].at \in Building
                           => call[v].at \notin Building
    BY <1>1 DEF Balanced, PlaceInv
  <2> QED
    BY <2>1, <2>2 DEF Placed
<1>7. PlaceInv'
  <2>1. ASSUME NEW v \in Writers, NEW j \in Fclks, call'[v].fclk = {j}
        PROVE  Placed(v, j)'
    <3>1. v # w
      BY <1>2, <2>1 DEF Idle
    <3>2. CASE j # i
      BY <1>2, <1>3, <1>5, <2>1, <3>1, <3>2 DEF Balanced, PlaceInv, Placed
    <3>3. CASE j = i
      BY <1>2, <1>3, <1>4, <1>5, <1>6, <2>1, <3>1, <3>3
         DEF Balanced, PlaceInv, Placed, Building
    <3> QED
      BY <3>2, <3>3
  <2>2. \A u, v \in Writers :
           /\ u # v /\ call'[u].at \in Building /\ call'[v].at \in Building
           => call'[u].fclk # call'[v].fclk
    BY <1>2 DEF Balanced, PlaceInv, Building, Idle
  <2> QED
    BY <2>1, <2>2 DEF PlaceInv
<1>8. BoundInv'
  BY <1>3, <1>4, <1>5 DEF Balanced, BoundInv
<1>9. BalanceInv'
  <2>1. \A v \in Writers, j \in Fclks : Works(v, "flag", j) => call'[v].on = call[v].on
    BY <1>2 DEF Works
  <2>2. ASSUME NEW j \in Fclks, j # i
        PROVE  prepared'[j] = IF device'[j] = "data" \/ \E v \in Writers : Works(v, "data", j)'
                              THEN 1 ELSE 0
    BY <1>4, <1>5, <2>2 DEF Balanced, BalanceInv, Steps, Exporting
  <2>3. prepared'[i] = IF device'[i] = "data" \/ \E v \in Writers : Works(v, "data", i)'
                       THEN 1 ELSE 0
    <3>1. CASE call[w].at = "data"
      <4>1. Works(w, "data", i)
        BY <1>1, <3>1 DEF Works
      <4>2. \A v \in Writers : ~Works(v, "data", i)'
        BY <1>2, <1>6, <3>1 DEF Works, Idle, Building
      <4> QED
        BY <1>5, <1>6, <3>1, <4>1, <4>2 DEF Balanced, BalanceInv
    <3>2. CASE call[w].at = "group"
      <4>1. \A v \in Writers : ~Works(v, "data", i)'
        BY <1>2, <1>6, <3>2 DEF Works, Idle, Building
      <4> QED
        BY <1>5, <1>6, <3>2, <4>1 DEF Balanced, BalanceInv
    <3>3. CASE call[w].at \in {"create", "prepare"}
      <4>1. \A v \in Writers : Works(v, "data", i)' <=> Works(v, "data", i)
        BY <1>2, <3>3 DEF Works, Idle
      <4> QED
        BY <1>5, <3>3, <4>1 DEF Balanced, BalanceInv
    <3> QED
      BY <1>2, <3>1, <3>2, <3>3
  <2>4. ASSUME NEW j \in Fclks, \A v \in Writers : ~Works(v, "flag", j)
        PROVE  ticking'[j] = IF device'[j] = "data" /\ flag'[j] THEN 1 ELSE 0
    BY <1>3, <1>5, <1>6, <2>4 DEF Balanced, BalanceInv
  <2> QED
    BY <1>3, <1>4, <2>1, <2>2, <2>3, <2>4 DEF Balanced, BalanceInv
<1>10. FaultInv'
  BY <1>3 DEF FaultInv
<1> QED
  BY <1>4, <1>7, <1>8, <1>9, <1>10 DEF Balanced

-----------------------------------------------------------------------------
(* A clock is unexported, or all of them are, with the driver.             *)
LEMMA UnexportBegins ==
    ASSUME ClockTypes, Balanced, ~met', NEW w \in Writers, UnexportStore(w)
    PROVE  Balanced'
<1>1. PICK i \in Fclks : /\ i \in exported /\ exported' = exported \ {i}
                         /\ Begin(w, "find", {i}, FALSE)
  BY DEF UnexportStore, ClockTypes
<1>2. /\ "find" \in Steps \ {"idle"} /\ CallTypes
  BY DEF ClockTypes, Steps
<1>3. /\ call'[w].at = "find" /\ call'[w].fclk = {i}
      /\ \A v \in Writers : v # w => call'[v] = call[v]
  BY <1>1, <1>2, CallBegins DEF Begin
<1>4. ApartInv' /\ call[w] = Idle /\ Lonely(w)
  BY <1>1, <1>2, <1>3, ApartBegins DEF Balanced
<1>5. UNCHANGED <<held, exports, device, prepared, ticking, flag, oops, failed>>
  BY DEF UnexportStore
<1>6. \A v \in Writers, j \in Fclks :
        /\ \A at \in Steps \ {"idle"} : ~Works(v, at, j)
        /\ \A at \in Steps \ {"idle", "find"} : ~Works(v, at, j)'
        /\ Works(v, "find", j)' <=> v = w /\ j = i
  BY <1>3, <1>4 DEF Works, Idle, Lonely, Busy, Steps
<1>7. PlaceInv'
  BY <1>1, <1>3, <1>4 DEF PlaceInv, Placed, Building, Exporting, Lonely, Busy, Idle
<1>8. BoundInv'
  <2>1. "bound" \in held
    BY <1>1 DEF Balanced, BoundInv
  <2> QED
    BY <1>1, <1>5, <1>6, <2>1 DEF Balanced, BoundInv, Steps
<1>9. BalanceInv'
  BY <1>5, <1>6 DEF Balanced, BalanceInv, Steps, Exporting
<1>10. FaultInv'
  <2>1. ~failed => device[i] = "data"
    BY <1>1, <1>6 DEF Balanced, FaultInv, Steps, Exporting
  <2> QED
    BY <1>1, <1>5, <1>6, <2>1 DEF Balanced, FaultInv, Steps, Exporting
<1> QED
  BY <1>4, <1>7, <1>8, <1>9, <1>10 DEF Balanced

LEMMA UnbindBalances ==
    ASSUME ClockTypes, Balanced, ~met', NEW w \in Writers, Unbind(w)
    PROVE  Balanced'
<1>1. /\ "unbind" \in Steps \ {"idle"} /\ CallTypes /\ Begin(w, "unbind", {}, FALSE)
      /\ "bound" \in held
  BY DEF ClockTypes, Steps, Unbind
<1>2. /\ call'[w].at = "unbind" /\ call'[w].fclk = {}
      /\ \A v \in Writers : v # w => call'[v] = call[v]
  BY <1>1, UnbindBegins DEF Begin, CallTypes
<1>3. ApartInv' /\ call[w] = Idle /\ Lonely(w)
  BY <1>1, <1>2, ApartBegins DEF Balanced
<1>4. UNCHANGED <<held, exports, exported, device, prepared, ticking, flag, oops, failed>>
  BY DEF Unbind
<1>5. \A v \in Writers, j \in Fclks, at \in Steps \ {"idle", "unbind"} :
        ~Works(v, at, j) /\ ~Works(v, at, j)'
  BY <1>2, <1>3 DEF Works, Idle, Lonely, Busy
<1>6. PlaceInv'
  BY <1>2, <1>3 DEF PlaceInv, Placed, Building, Exporting, Lonely, Busy, Idle
<1>7. BoundInv'
  BY <1>1, <1>4, <1>5 DEF Balanced, BoundInv, Steps
<1>8. BalanceInv'
  BY <1>4, <1>5 DEF Balanced, BalanceInv, Steps, Exporting
<1>9. FaultInv'
  BY <1>4, <1>5 DEF Balanced, FaultInv, Steps, Exporting
<1> QED
  BY <1>3, <1>6, <1>7, <1>8, <1>9 DEF Balanced

LEMMA UnbindNextBalances ==
    ASSUME ClockTypes, Balanced, NEW w \in Writers, UnbindNext(w)
    PROVE  Balanced'
<1>1. call[w].at = "unbind" /\ ~oops /\ CallTypes
  BY DEF UnbindNext, At, ClockTypes
<1>2. Busy(w) /\ Lonely(w)
  BY <1>1, AloneInFind DEF Balanced, Busy, Idle
<1>3. "bound" \in held
  BY <1>2 DEF Balanced, BoundInv
<1>4. \A v \in Writers, j \in Fclks, at \in Steps \ {"idle", "unbind"} : ~Works(v, at, j)
  BY <1>1, <1>2 DEF Works, Idle, Lonely, Busy
<1>5. UNCHANGED <<device, prepared, ticking, flag, failed>>
  BY DEF UnbindNext
<1>6. CASE exported = {}
  <2>1. /\ exported' = {} /\ exports' = FALSE /\ call'[w] = Idle
        /\ \A v \in Writers : v # w => call'[v] = call[v]
    BY <1>1, <1>6, CallEnds DEF UnbindNext
  <2>2. \/ Resources \subseteq held /\ held' = {} /\ oops' = oops
        \/ ~(Resources \subseteq held) /\ held' = held
    BY <1>6 DEF UnbindNext
  <2>3. \A v \in Writers : ~Busy(v)'
    BY <1>2, <2>1 DEF Lonely, Busy
  <2>4. \A v \in Writers, j \in Fclks, at \in Steps \ {"idle"} : ~Works(v, at, j)'
    BY <2>3 DEF Works, Busy, Idle
  <2>5. ApartInv'
    BY <2>3 DEF ApartInv
  <2>6. PlaceInv'
    BY <2>3 DEF PlaceInv, Placed, Building, Exporting, Busy, Idle
  <2>7. \A j \in Fclks : device[j] # "data"
    BY <1>4, <1>6 DEF Balanced, BoundInv, Steps
  <2>8. BoundInv'
    BY <1>3, <1>5, <2>1, <2>2, <2>3, <2>7 DEF BoundInv
  <2>9. BalanceInv'
    BY <1>4, <1>5, <2>4 DEF Balanced, BalanceInv, Steps, Exporting
  <2>10. FaultInv'
    <3>1. (oops => failed)'
      BY <1>1, <1>3, <1>5, <2>2 DEF Balanced, FaultInv
    <3>2. ~failed => ("bound" \in held => Resources \subseteq held)'
      BY <2>2 DEF Balanced, FaultInv
    <3> QED
      BY <1>4, <1>5, <2>1, <2>4, <3>1, <3>2 DEF Balanced, FaultInv, Steps, Exporting
  <2> QED
    BY <2>5, <2>6, <2>8, <2>9, <2>10 DEF Balanced
<1>7. CASE exported # {}
  <2>1. PICK i \in exported :
          /\ exported' = exported \ {i} /\ UNCHANGED <<held, exports, oops>>
          /\ call' = [call EXCEPT ![w] = [at |-> "find", fclk |-> {i}, on |-> TRUE]]
    BY <1>7 DEF UnbindNext
  <2>2. i \in Fclks /\ "find" \in Steps \ {"idle"}
    BY DEF ClockTypes, Steps
  <2>3. /\ call'[w].at = "find" /\ call'[w].fclk = {i}
        /\ \A v \in Writers : v # w => call'[v] = call[v]
    BY <1>1, <2>1, <2>2, CallBegins
  <2>4. ApartInv'
    BY <1>1, <1>2, <2>3, ApartKept DEF Balanced
  <2>5. \A v \in Writers, j \in Fclks :
          /\ \A at \in Steps \ {"idle", "find"} : ~Works(v, at, j)'
          /\ Works(v, "find", j)' <=> v = w /\ j = i
    BY <1>2, <2>2, <2>3 DEF Works, Idle, Lonely, Busy
  <2>6. PlaceInv'
    <3>1. \A v \in Writers : v # w => call'[v] = Idle
      BY <1>2, <2>3 DEF Lonely, Busy
    <3>2. Placed(w, i)'
      BY <2>1, <2>3 DEF Placed, Exporting
    <3>3. \A v \in Writers, j \in Fclks : call'[v].fclk = {j} => v = w /\ j = i
      BY <2>3, <3>1 DEF Idle
    <3>4. \A v \in Writers : call'[v].at \notin Building
      BY <2>3, <3>1 DEF Idle, Building
    <3> QED
      BY <3>2, <3>3, <3>4 DEF PlaceInv
  <2>7. BoundInv'
    BY <1>3, <1>4, <1>5, <2>1, <2>2, <2>5 DEF Balanced, BoundInv, Steps
  <2>8. BalanceInv'
    BY <1>4, <1>5, <2>5 DEF Balanced, BalanceInv, Steps, Exporting
  <2>9. FaultInv'
    <3>1. ~failed => device[i] = "data"
      BY <1>4, <2>2 DEF Balanced, FaultInv, Steps, Exporting
    <3> QED
      BY <1>4, <1>5, <2>1, <2>5, <3>1 DEF Balanced, FaultInv, Steps, Exporting
  <2> QED
    BY <2>4, <2>6, <2>7, <2>8, <2>9 DEF Balanced
<1> QED
  BY <1>6, <1>7

LEMMA FindFailsBalances ==
    ASSUME ClockTypes, Balanced, NEW w \in Writers, FindFails(w)
    PROVE  Balanced'
<1>1. PICK i \in Fclks : call[w].fclk = {i} /\ The(w) = i /\ Busy(w)
  BY CallAt DEF FindFails, At, ClockTypes
<1>2. /\ call[w].at = "find" /\ oops' = TRUE
      /\ device[i] = "none" \/ \E j \in Fclks : device[j] \in {"bare", "freed"}
      /\ UNCHANGED <<held, exports, exported, device, prepared, ticking, flag, call, failed>>
  BY <1>1 DEF FindFails, At
<1>3. failed
  <2>1. Works(w, "find", i)
    BY <1>1, <1>2 DEF Works
  <2>2. \A v \in Writers, j \in Fclks : ~Works(v, "prepare", j) /\ ~Works(v, "data", j)
    BY <1>1, <1>2, AloneInFind DEF Balanced, Lonely, Works, Busy, Idle
  <2> QED
    BY <1>2, <2>1, <2>2 DEF Balanced, FaultInv
<1> QED
  <2>1. ApartInv' /\ PlaceInv'
    BY <1>2 DEF Balanced, ApartInv, PlaceInv, Placed, Busy
  <2>2. BoundInv'
    BY <1>2 DEF Balanced, BoundInv, Works, Busy
  <2>3. BalanceInv'
    BY <1>2 DEF Balanced, BalanceInv, Works
  <2>4. FaultInv'
    BY <1>2, <1>3 DEF FaultInv
  <2> QED
    BY <2>1, <2>2, <2>3, <2>4 DEF Balanced

LEMMA FindDeviceBalances ==
    ASSUME ClockTypes, Balanced, NEW w \in Writers, FindDevice(w)
    PROVE  Balanced'
<1>1. PICK i \in Fclks : call[w].fclk = {i} /\ The(w) = i /\ Busy(w)
  BY CallAt DEF FindDevice, At, ClockTypes
<1>2. call[w].at = "find" /\ device[i] = "data" /\ Lonely(w) /\ CallTypes
  BY <1>1, AloneInFind DEF FindDevice, At, Balanced, ClockTypes
<1>3. /\ ticking' = IF flag[i] THEN [ticking EXCEPT ![i] = @ - 1] ELSE ticking
      /\ prepared' = [prepared EXCEPT ![i] = @ - 1] /\ device' = [device EXCEPT ![i] = "none"]
      /\ UNCHANGED <<held, exports, exported, flag, oops, failed>>
  BY <1>1 DEF FindDevice, Disabled
<1>4. /\ call'[w].at \in {"idle", "unbind"}
      /\ \A v \in Writers : v # w => call'[v] = call[v]
  <2>1. CASE call[w].on
    BY <1>1, <1>2, <2>1, CallGoesOn DEF FindDevice, Steps
  <2>2. CASE ~call[w].on
    BY <1>2, <2>2, CallEnds DEF FindDevice, Idle
  <2> QED
    BY <2>1, <2>2
<1>5. \A v \in Writers, j \in Fclks :
        /\ \A at \in Steps \ {"idle", "find"} : ~Works(v, at, j)
        /\ \A at \in Steps \ {"idle", "unbind"} : ~Works(v, at, j)'
        /\ Works(v, "find", j) <=> v = w /\ j = i
  BY <1>1, <1>2, <1>4 DEF Works, Idle, Lonely, Busy
<1>6. /\ prepared'[i] = prepared[i] - 1 /\ device'[i] = "none"
      /\ ticking'[i] = IF flag[i] THEN ticking[i] - 1 ELSE ticking[i]
      /\ \A j \in Fclks : j # i => /\ prepared'[j] = prepared[j] /\ device'[j] = device[j]
                                   /\ ticking'[j] = ticking[j]
  BY <1>3 DEF ClockTypes
<1>7. ApartInv'
  BY <1>1, <1>2, <1>4, ApartKept DEF Balanced
<1>8. PlaceInv'
  BY <1>2, <1>4 DEF PlaceInv, Placed, Building, Exporting, Lonely, Busy, Idle
<1>9. BoundInv'
  <2>1. "bound" \in held
    BY <1>1 DEF Balanced, BoundInv
  <2> QED
    BY <1>3, <1>5, <1>6, <2>1 DEF Balanced, BoundInv
<1>10. BalanceInv'
  <2>1. prepared[i] = 1 /\ ticking[i] = IF flag[i] THEN 1 ELSE 0
    BY <1>2, <1>5 DEF Balanced, BalanceInv, Steps, Exporting
  <2>2. prepared'[i] = 0 /\ ticking'[i] = 0
    BY <1>6, <2>1
  <2> QED
    BY <1>3, <1>5, <1>6, <2>2 DEF Balanced, BalanceInv, Steps, Exporting
<1>11. FaultInv'
  <2>1. ~failed => i \notin exported
    BY <1>1, <1>2 DEF Balanced, PlaceInv, Placed
  <2> QED
    BY <1>3, <1>5, <1>6, <2>1 DEF Balanced, FaultInv, Steps, Exporting
<1> QED
  BY <1>7, <1>8, <1>9, <1>10, <1>11 DEF Balanced

-----------------------------------------------------------------------------
(* A clock is switched on or off.                                          *)
LEMMA EnableBegins ==
    ASSUME ClockTypes, Balanced, ~met', NEW w \in Writers, EnableStore(w)
    PROVE  Balanced'
<1>1. PICK i \in Fclks, on \in BOOLEAN :
        device[i] = "data" /\ on # flag[i] /\ Begin(w, "enable", {i}, on)
  BY DEF EnableStore
<1>2. /\ "enable" \in Steps \ {"idle"} /\ CallTypes
  BY DEF ClockTypes, Steps
<1>3. /\ call'[w].at = "enable" /\ call'[w].fclk = {i} /\ call'[w].on = on
      /\ \A v \in Writers : v # w => call'[v] = call[v]
  BY <1>1, <1>2, CallBegins DEF Begin
<1>4. /\ ApartInv' /\ call[w] = Idle
      /\ \A v \in Writers : v # w /\ Busy(v) => call[v].at \notin {"unbind", "find"}
  BY <1>1, <1>2, <1>3, ApartBegins DEF Balanced
<1>5. UNCHANGED <<held, exports, exported, device, prepared, ticking, flag, oops, failed>>
  BY DEF EnableStore
<1>6. \A v \in Writers, j \in Fclks, at \in Steps \ {"idle", "enable"} :
         Works(v, at, j)' <=> Works(v, at, j)
  BY <1>3, <1>4 DEF Works, Idle
<1>7. PlaceInv'
  <2>1. Placed(w, i)'
    BY <1>1, <1>3, <1>5 DEF Placed, Exporting
  <2>2. ASSUME NEW v \in Writers, NEW j \in Fclks, call'[v].fclk = {j} PROVE Placed(v, j)'
    <3>1. CASE v = w
      <4>1. i = j
        BY <1>3, <2>2, <3>1
      <4> QED
        BY <2>1, <3>1, <4>1
    <3>2. CASE v # w
      BY <1>3, <1>5, <2>2, <3>2 DEF Balanced, PlaceInv, Placed
    <3> QED
      BY <3>1, <3>2
  <2>3. \A u, v \in Writers :
           /\ u # v /\ call'[u].at \in Building /\ call'[v].at \in Building
           => call'[u].fclk # call'[v].fclk
    BY <1>3 DEF Balanced, PlaceInv, Building
  <2> QED
    BY <2>2, <2>3 DEF PlaceInv
<1>8. BoundInv'
  <2>1. i \in exported
    <3>1. \A v \in Writers : ~Works(v, "find", i)
      BY <1>4 DEF Works, Idle, Busy
    <3> QED
      BY <1>1, <3>1 DEF Balanced, BoundInv
  <2>2. "bound" \in held
    BY <2>1 DEF Balanced, BoundInv
  <2> QED
    BY <1>5, <1>6, <2>2 DEF Balanced, BoundInv, Steps
<1>9. BalanceInv'
  <2>1. \A v \in Writers, j \in Fclks : Works(v, "flag", j) => call'[v].on = call[v].on
    BY <1>3, <1>4 DEF Works, Idle
  <2> QED
    BY <1>5, <1>6, <2>1 DEF Balanced, BalanceInv, Steps, Exporting
<1>10. FaultInv'
  BY <1>5, <1>6 DEF Balanced, FaultInv, Steps, Exporting
<1> QED
  BY <1>4, <1>7, <1>8, <1>9, <1>10 DEF Balanced

(* What is common to the steps that follow.                                *)
LEMMA EnableGoesOn ==
    ASSUME ClockTypes, Balanced, NEW w \in Writers, NEW i \in Fclks,
           call[w].at \in {"enable", "flag"}, call[w].fclk = {i},
           \A v \in Writers : v # w => call'[v] = call[v],
           call'[w] = Idle \/ (call'[w].at = "flag" /\ call'[w].fclk = {i}),
           UNCHANGED <<held, exports, exported, device, prepared, oops, failed>>
    PROVE  /\ ApartInv' /\ BoundInv' /\ FaultInv'
           /\ \A v \in Writers, j \in Fclks, at \in Steps \ {"idle", "enable", "flag"} :
                 Works(v, at, j)' <=> Works(v, at, j)
           /\ \A v \in Writers : v # w /\ call[v] # Idle => call[v].fclk # {i}
           /\ device[i] = "data"
<1>1. Busy(w)
  BY DEF Busy, Idle
<1>2. ApartInv'
  BY <1>1, ApartKept DEF Balanced, ClockTypes
<1>3. \A v \in Writers, j \in Fclks, at \in Steps \ {"idle", "enable", "flag"} :
         Works(v, at, j)' <=> Works(v, at, j)
  BY DEF Works, Idle
<1>4. \A v \in Writers : v # w /\ call[v] # Idle => call[v].fclk # {i}
  BY <1>1 DEF Balanced, ApartInv, Busy
<1>5. BoundInv'
  <2>1. "bound" \in held
    BY <1>1 DEF Balanced, BoundInv
  <2> QED
    BY <1>3, <2>1 DEF Balanced, BoundInv, Steps
<1>6. FaultInv'
  BY <1>3 DEF Balanced, FaultInv, Steps, Exporting
<1>7. device[i] = "data"
  BY DEF Balanced, PlaceInv, Placed
<1> QED
  BY <1>2, <1>3, <1>4, <1>5, <1>6, <1>7

LEMMA SwitchClockBalances ==
    ASSUME ClockTypes, Balanced, NEW w \in Writers, SwitchClock(w)
    PROVE  Balanced'
<1>1. PICK i \in Fclks : call[w].fclk = {i} /\ The(w) = i
  BY CallAt DEF SwitchClock, At, ClockTypes
<1>2. /\ call[w].at = "enable" /\ CallTypes
      /\ UNCHANGED <<held, exports, exported, device, prepared, flag, oops, failed>>
  BY DEF SwitchClock, At, ClockTypes
<1>3. /\ \A v \in Writers : v # w => call'[v] = call[v]
      /\ \/ /\ call'[w].at = "flag" /\ call'[w].fclk = {i} /\ call'[w].on = call[w].on
            /\ ticking' = [ticking EXCEPT ![i] = IF call[w].on THEN @ + 1 ELSE @ - 1]
         \/ call'[w] = Idle /\ ticking' = ticking
  BY <1>1, <1>2, CallGoesOn, CallEnds DEF SwitchClock, Steps
<1>4. /\ ApartInv' /\ BoundInv' /\ FaultInv' /\ device[i] = "data"
      /\ \A v \in Writers, j \in Fclks : Works(v, "data", j)' <=> Works(v, "data", j)
      /\ \A v \in Writers : v # w /\ call[v] # Idle => call[v].fclk # {i}
  BY <1>1, <1>2, <1>3, EnableGoesOn DEF Steps, Exporting
<1>5. PlaceInv'
  <2>1. ASSUME NEW v \in Writers, NEW j \in Fclks, call'[v].fclk = {j} PROVE Placed(v, j)'
    <3>1. CASE v = w
      <4>1. call'[w].at = "flag" /\ i = j
        BY <1>3, <2>1, <3>1 DEF Idle
      <4> QED
        BY <1>2, <1>4, <3>1, <4>1 DEF Placed, Exporting
    <3>2. CASE v # w
      BY <1>2, <1>3, <2>1, <3>2 DEF Balanced, PlaceInv, Placed
    <3> QED
      BY <3>1, <3>2
  <2>2. \A u, v \in Writers :
           /\ u # v /\ call'[u].at \in Building /\ call'[v].at \in Building
           => call'[u].fclk # call'[v].fclk
    BY <1>3 DEF Balanced, PlaceInv, Building, Idle
  <2> QED
    BY <2>1, <2>2 DEF PlaceInv
<1>6. BalanceInv'
  <2>1. \A v \in Writers : ~Works(v, "flag", i)
    BY <1>1, <1>2, <1>4 DEF Works, Idle
  <2>2. ticking[i] = (IF flag[i] THEN 1 ELSE 0) /\ flag[i] # call[w].on
    BY <1>1, <1>2, <1>4, <2>1 DEF Balanced, BalanceInv, PlaceInv, Placed
  <2>3. ASSUME NEW j \in Fclks, j # i
        PROVE  /\ ticking'[j] = ticking[j]
               /\ \A v \in Writers : /\ Works(v, "flag", j)' <=> Works(v, "flag", j)
                                     /\ Works(v, "flag", j) => call'[v].on = call[v].on
    BY <1>1, <1>2, <1>3, <2>3 DEF ClockTypes, Works, Idle
  <2>4. CASE call'[w].at = "flag"
    <3>1. ticking' = [ticking EXCEPT ![i] = IF call[w].on THEN @ + 1 ELSE @ - 1]
          /\ call'[w].on = call[w].on /\ call'[w].fclk = {i}
      BY <1>3, <2>4 DEF Idle
    <3>2. ticking'[i] = IF call'[w].on THEN 1 ELSE 0
      BY <2>2, <3>1 DEF ClockTypes, CallTypes
    <3>3. \A v \in Writers : Works(v, "flag", i)' <=> v = w
      BY <1>3, <2>1, <2>4, <3>1 DEF Works
    <3> QED
      BY <1>2, <1>4, <2>3, <3>2, <3>3 DEF Balanced, BalanceInv
  <2>5. CASE call'[w] = Idle /\ ticking' = ticking
    <3>1. \A v \in Writers : ~Works(v, "flag", i)'
      BY <1>3, <2>1, <2>5 DEF Works, Idle
    <3> QED
      BY <1>2, <1>4, <2>1, <2>3, <2>5, <3>1 DEF Balanced, BalanceInv
  <2> QED
    BY <1>3, <2>4, <2>5
<1> QED
  BY <1>4, <1>5, <1>6 DEF Balanced

LEMMA SetFlagBalances ==
    ASSUME ClockTypes, Balanced, NEW w \in Writers, SetFlag(w)
    PROVE  Balanced'
<1>1. PICK i \in Fclks : call[w].fclk = {i} /\ The(w) = i
  BY CallAt DEF SetFlag, At, ClockTypes
<1>2. /\ call[w].at = "flag" /\ CallTypes /\ call[w].on \in BOOLEAN
      /\ UNCHANGED <<held, exports, exported, device, prepared, ticking, oops, failed>>
      /\ flag' = [flag EXCEPT ![i] = call[w].on]
  BY <1>1 DEF SetFlag, At, ClockTypes, CallTypes
<1>3. call'[w] = Idle /\ \A v \in Writers : v # w => call'[v] = call[v]
  BY <1>2, CallEnds DEF SetFlag
<1>4. /\ ApartInv' /\ BoundInv' /\ FaultInv' /\ device[i] = "data"
      /\ \A v \in Writers, j \in Fclks : Works(v, "data", j)' <=> Works(v, "data", j)
      /\ \A v \in Writers : v # w /\ call[v] # Idle => call[v].fclk # {i}
  BY <1>1, <1>2, <1>3, EnableGoesOn DEF Steps, Exporting
<1>5. flag'[i] = call[w].on /\ \A j \in Fclks : j # i => flag'[j] = flag[j]
  BY <1>2 DEF ClockTypes
<1>6. PlaceInv'
  <2>1. ASSUME NEW v \in Writers, NEW j \in Fclks, call'[v].fclk = {j} PROVE Placed(v, j)'
    <3>1. v # w
      BY <1>3, <2>1 DEF Idle
    <3>2. j # i
      BY <1>3, <1>4, <2>1, <3>1 DEF Idle
    <3> QED
      BY <1>2, <1>3, <1>5, <2>1, <3>1, <3>2 DEF Balanced, PlaceInv, Placed
  <2>2. \A u, v \in Writers :
           /\ u # v /\ call'[u].at \in Building /\ call'[v].at \in Building
           => call'[u].fclk # call'[v].fclk
    BY <1>3 DEF Balanced, PlaceInv, Building, Idle
  <2> QED
    BY <2>1, <2>2 DEF PlaceInv
<1>7. BalanceInv'
  <2>1. ticking[i] = IF call[w].on THEN 1 ELSE 0
    BY <1>1, <1>2 DEF Balanced, BalanceInv, Works
  <2>2. \A v \in Writers : ~Works(v, "flag", i)'
    BY <1>3, <1>4 DEF Works, Idle
  <2>3. ASSUME NEW j \in Fclks, j # i
        PROVE  \A v \in Writers : /\ Works(v, "flag", j)' <=> Works(v, "flag", j)
                                  /\ Works(v, "flag", j) => call'[v].on = call[v].on
    BY <1>1, <1>3, <2>3 DEF Works, Idle
  <2> QED
    BY <1>2, <1>4, <1>5, <2>1, <2>2, <2>3 DEF Balanced, BalanceInv
<1> QED
  BY <1>4, <1>6, <1>7 DEF Balanced

-----------------------------------------------------------------------------
LEMMA ClocksStart ==
    ClocksInit => ClocksInv
<1> SUFFICES ASSUME ClocksInit PROVE ClocksInv
  OBVIOUS
<1> USE DEF ClocksInit
<1>1. Idle \in [at : Steps, fclk : SUBSET Fclks, on : BOOLEAN] /\ Idle.at = "idle"
  BY DEF Idle, Steps
<1>2. \A w \in Writers : call[w] = Idle /\ ~Busy(w)
  BY DEF Busy
<1>3. ClockTypes
  <2>1. call \in [Writers -> [at : Steps, fclk : SUBSET Fclks, on : BOOLEAN]]
    BY <1>1
  <2>2. CallTypes
    BY <1>1, <1>2, <2>1 DEF CallTypes
  <2>3. /\ device \in [Fclks -> {"none", "bare", "data", "freed"}]
        /\ prepared \in [Fclks -> Int] /\ ticking \in [Fclks -> Int]
        /\ flag \in [Fclks -> BOOLEAN]
    OBVIOUS
  <2>4. /\ held \in SUBSET (Resources \cup {"bound"}) /\ exports \in BOOLEAN
        /\ exported \in SUBSET Fclks
        /\ oops \in BOOLEAN /\ met \in BOOLEAN /\ failed \in BOOLEAN
    OBVIOUS
  <2> QED
    BY <2>2, <2>3, <2>4 DEF ClockTypes
<1>4. ApartInv /\ PlaceInv
  BY <1>2 DEF ApartInv, PlaceInv, Placed, Building, Exporting, Idle
<1>5. \A w \in Writers, i \in Fclks, at \in Steps \ {"idle"} : ~Works(w, at, i)
  BY <1>2 DEF Works, Idle
<1>6. BoundInv /\ BalanceInv /\ FaultInv
  BY <1>2, <1>5 DEF BoundInv, BalanceInv, FaultInv, Steps, Exporting
<1> QED
  BY <1>3, <1>4, <1>6 DEF ClocksInv

LEMMA ClocksSteps ==
    ClocksInv /\ [ClocksNext]_clockVars => ClocksInv'
<1> SUFFICES ASSUME ClocksInv, [ClocksNext]_clockVars PROVE ClocksInv'
  OBVIOUS
<1>1. ClockTypes /\ ClockTypes'
  BY NextClockTypes DEF ClocksInv
<1>2. ASSUME ~met' PROVE Balanced'
  <2>1. ~met
    BY <1>2 DEF ClocksNext, Probe, ExportStep, ExportStore, Claim, CreateDevice,
                PrepareClock, SetData, CreateGroup, ExportFails, UnexportStep, UnexportStore,
                Unbind, UnbindNext, FindFails, FindDevice, EnableStep, EnableStore,
                SwitchClock, SetFlag, Begin, clockVars
  <2>2. Balanced
    BY <2>1 DEF ClocksInv, Balanced
  <2>3. CASE UNCHANGED clockVars
    <3>1. ApartInv' /\ PlaceInv'
      BY <2>2, <2>3 DEF Balanced, clockVars, ApartInv, PlaceInv, Placed, Busy
    <3>2. BoundInv'
      BY <2>2, <2>3 DEF Balanced, clockVars, BoundInv, Busy, Works
    <3>3. BalanceInv'
      BY <2>2, <2>3 DEF Balanced, clockVars, BalanceInv, Works
    <3>4. FaultInv'
      BY <2>2, <2>3 DEF Balanced, clockVars, FaultInv, Works
    <3> QED
      BY <3>1, <3>2, <3>3, <3>4 DEF Balanced
  <2>4. ASSUME NEW w \in Writers, ExportStep(w) PROVE Balanced'
    BY <1>1, <1>2, <2>2, <2>4, ExportBegins, ClaimBalances, CreateDeviceBalances,
       PrepareClockBalances, SetDataBalances, CreateGroupBalances, ExportFailsBalances
       DEF ExportStep
  <2>5. ASSUME NEW w \in Writers, UnexportStep(w) PROVE Balanced'
    BY <1>1, <1>2, <2>2, <2>5, UnexportBegins, UnbindBalances, UnbindNextBalances,
       FindFailsBalances, FindDeviceBalances DEF UnexportStep
  <2>6. ASSUME NEW w \in Writers, EnableStep(w) PROVE Balanced'
    BY <1>1, <1>2, <2>2, <2>6, EnableBegins, SwitchClockBalances, SetFlagBalances
       DEF EnableStep
  <2>7. CASE Probe
    BY <1>1, <2>2, <2>7, ProbeBalances
  <2> QED
    BY <2>3, <2>4, <2>5, <2>6, <2>7 DEF ClocksNext
<1> QED
  BY <1>1, <1>2 DEF ClocksInv, Balanced

LEMMA BalancedIsBalanced ==
    ClocksInv => ClocksBalanced /\ ClocksTypeOK
<1> SUFFICES ASSUME ClocksInv PROVE ClocksBalanced /\ ClocksTypeOK
  OBVIOUS
<1>1. ClockTypes
  BY DEF ClocksInv
<1>2. ClocksTypeOK
  BY <1>1 DEF ClockTypes, CallTypes, ClocksTypeOK
<1>3. ASSUME ~met
      PROVE  /\ (\A w \in Writers : call[w] = Idle) =>
                  \A i \in Fclks :
                    /\ prepared[i] = IF device[i] = "data" THEN 1 ELSE 0
                    /\ ticking[i] = IF device[i] = "data" /\ flag[i] THEN 1 ELSE 0
             /\ "bound" \notin held =>
                  held = {} /\ \A i \in Fclks : prepared[i] = 0 /\ ticking[i] = 0
             /\ oops => failed
  <2>1. BoundInv /\ BalanceInv /\ FaultInv
    BY <1>3 DEF ClocksInv
  <2>2. (\A w \in Writers : call[w] = Idle) =>
           \A w \in Writers, i \in Fclks, at \in Steps \ {"idle"} : ~Works(w, at, i)
    BY DEF Works, Idle
  <2>3. (\A w \in Writers : call[w] = Idle) =>
           \A i \in Fclks :
             /\ prepared[i] = IF device[i] = "data" THEN 1 ELSE 0
             /\ ticking[i] = IF device[i] = "data" /\ flag[i] THEN 1 ELSE 0
    BY <2>1, <2>2 DEF BalanceInv, Steps, Exporting
  <2>4. ASSUME "bound" \notin held
        PROVE  held = {} /\ \A i \in Fclks : prepared[i] = 0 /\ ticking[i] = 0
    <3>1. held = {} /\ exported = {} /\ \A w \in Writers : call[w] = Idle
      BY <2>1, <2>4 DEF BoundInv, Busy
    <3>2. \A i \in Fclks : device[i] # "data"
      BY <2>1, <2>2, <3>1 DEF BoundInv, Steps
    <3> QED
      BY <2>3, <3>1, <3>2
  <2> QED
    BY <2>1, <2>3, <2>4 DEF FaultInv
<1> QED
  BY <1>2, <1>3 DEF ClocksBalanced

-----------------------------------------------------------------------------
(* The exported clocks are changed only as FpgaClocks says.                *)
LEMMA BoardStepsOfClocks ==
    [BoardNext]_boardVars => [ClocksNext]_clockVars
  BY DEF BoardNext, boardVars, Boot, PowerCycle, Loads, Linux

(* While no two calls clash, the calls of clk_export, clk_unexport, and of *)
(* a clock's enable attribute are where ClocksInv says, and have done what *)
(* it says of the clocks.                                                  *)
THEOREM ClocksInvariant == BoardSpec => []ClocksInv
<1>1. BoardInit => ClocksInv
  BY ClocksStart DEF BoardInit
<1>2. ClocksInv /\ [BoardNext]_boardVars => ClocksInv'
  BY BoardStepsOfClocks, ClocksSteps
<1> QED
  BY <1>1, <1>2, PTL DEF BoardSpec

(* Every way out of the calls that export, enable and unexport the clocks  *)
(* of the PL, and out of bind and unbind, leaves the counts of             *)
(* clk_prepare() and clk_enable() right, as long as no two calls clash.    *)
THEOREM ClocksAreBalanced == BoardSpec => []ClocksBalanced
  BY ClocksInvariant, BalancedIsBalanced, PTL

-----------------------------------------------------------------------------
(* The boot loader's hook: 30 writes of registers of the chip.             *)
RegisterWrite == Registers \X (0..255)
Sent(w, n) == w \in Seq(RegisterWrite) /\ Len(w) = n

(* The bytes of a divider, and their writes after the first i of w.        *)
Bytes(p, q, r) ==
    << (r \div 256) % 256, r % 256,
       (p \div 65536) % 4, (p \div 256) % 256, p % 256,
       16 * ((r \div 65536) % 16) + ((q \div 65536) % 16),
       (q \div 256) % 256, q % 256 >>

Carries(w, i, base, B) == \A j \in 1..8 : w[i + j] = <<base + (j - 1), B[j]>>

Appended(u, w, e, n) ==
    /\ Sent(u, n + 1)
    /\ \A i \in 1..n : u[i] = w[i]
    /\ u[n + 1] = e

Prepended(u, e, w, n) ==
    /\ Sent(u, n + 1)
    /\ u[1] = e
    /\ \A i \in 2..(n + 1) : u[i] = w[i - 1]

(* A bulk write of a divider sends 8 registers' worth of bytes.            *)
LEMMA BulkWrites ==
    ASSUME NEW base \in {26, 42}, NEW p \in Int, NEW q \in Int, NEW r \in Int
    PROVE  /\ Sent(WriteBulk(base, p, q, r, 0, 0), 8)
           /\ Carries(WriteBulk(base, p, q, r, 0, 0), 0, base, Bytes(p, q, r))
<1>1. \A k \in 0..7 : base + k \in Registers
  BY SMT DEF Registers
<1>2. \A v \in Int : v % 256 \in 0..255 /\ v \div 256 \in Int /\ v \div 65536 \in Int
  BY SMT
<1>3. ((p \div 65536) % 4) + 4 * 0 + 16 * 0 \in 0..255
  BY SMT
<1>4. 16 * ((r \div 65536) % 16) + ((q \div 65536) % 16) \in 0..255
  BY SMT
<1>5. PICK b2 \in 0..255 : b2 = ((p \div 65536) % 4) + 4 * 0 + 16 * 0
  BY SMT, <1>3
<1>6. PICK b5 \in 0..255 : b5 = 16 * ((r \div 65536) % 16) + ((q \div 65536) % 16)
  BY SMT, <1>4
<1>7. \A v \in Int : (v \div 256) % 256 \in 0..255 /\ v % 256 \in 0..255
  BY SMT, <1>2
<1>8. PICK b0 \in 0..255 : b0 = (r \div 256) % 256
  BY SMT, <1>7
<1>9. PICK b1 \in 0..255 : b1 = r % 256
  BY SMT, <1>7
<1>10. PICK b3 \in 0..255 : b3 = (p \div 256) % 256
  BY SMT, <1>7
<1>11. PICK b4 \in 0..255 : b4 = p % 256
  BY SMT, <1>7
<1>12. PICK b6 \in 0..255 : b6 = (q \div 256) % 256
  BY SMT, <1>7
<1>13. PICK b7 \in 0..255 : b7 = q % 256
  BY SMT, <1>7
<1>14. PICK w : w = << <<base, b0>>, <<base + 1, b1>>, <<base + 2, b2>>, <<base + 3, b3>>,
           <<base + 4, b4>>, <<base + 5, b5>>, <<base + 6, b6>>, <<base + 7, b7>> >>
  OBVIOUS
<1>15. WriteBulk(base, p, q, r, 0, 0) = w
  BY SMT, <1>5, <1>6, <1>8, <1>9, <1>10, <1>11, <1>12, <1>13, <1>14 DEF WriteBulk
<1>16. base + 0 = base
  BY SMT
<1>17. /\ <<base, b0>> \in RegisterWrite /\ <<base + 1, b1>> \in RegisterWrite
       /\ <<base + 2, b2>> \in RegisterWrite /\ <<base + 3, b3>> \in RegisterWrite
       /\ <<base + 4, b4>> \in RegisterWrite /\ <<base + 5, b5>> \in RegisterWrite
       /\ <<base + 6, b6>> \in RegisterWrite /\ <<base + 7, b7>> \in RegisterWrite
  BY SMT, <1>1, <1>16 DEF RegisterWrite
<1>18. w \in Seq(RegisterWrite) /\ Len(w) = 8
  BY SMT, <1>14, <1>17
<1>19. PICK B : B = <<b0, b1, b2, b3, b4, b5, b6, b7>>
  OBVIOUS
<1>20. Bytes(p, q, r) = B
  <2>1. b2 = (p \div 65536) % 4
    BY SMT, <1>5
  <2> QED
    BY SMT, <1>6, <1>8, <1>9, <1>10, <1>11, <1>12, <1>13, <1>19, <2>1 DEF Bytes
<1>21. ASSUME NEW j \in 1..8 PROVE w[0 + j] = <<base + (j - 1), B[j]>>
  <2>1. w[j] = <<base + (j - 1), B[j]>>
    BY SMT, <1>14, <1>19
  <2> QED
    BY SMT, <2>1
<1>22. Carries(w, 0, base, B)
  BY Zenon, <1>21 DEF Carries
<1> QED
  BY Zenon, <1>15, <1>18, <1>20, <1>22 DEF Sent


(* The one quotient and remainder of a division.                           *)
LEMMA TheQuotient ==
    ASSUME NEW n \in Int, NEW d \in Int, d > 0, NEW q \in Int, NEW r \in Int,
           n = q * d + r, 0 <= r, r < d
    PROVE  n \div d = q /\ n % d = r
  BY SMT

(* A state of the long division of p * m by d.                             *)
Divided(s, p, m, d) ==
    \E q \in Int, r \in Int :
      /\ s = [quot |-> q, rem |-> r]
      /\ q * d + r = p * m /\ 0 <= r /\ r < d

LEMMA OneMoreDigit ==
    ASSUME NEW p \in Nat, NEW m \in Nat, NEW k \in Nat, NEW d \in Int, d > 0,
           NEW s, Divided(s, p, m, d)
    PROVE  Divided(NextDigit(s, p, k, d), p, 32 * m + k, d)
<1>1. PICK q \in Int, r \in Int :
        /\ s = [quot |-> q, rem |-> r]
        /\ q * d + r = p * m /\ 0 <= r /\ r < d
  BY Zenon DEF Divided
<1>2. PICK n \in Nat : n = 32 * r + p * k
  BY SMT, <1>1
<1>3. PICK a \in Int, b \in Int : a = n \div d /\ b = n % d /\ 0 <= b /\ b < d /\ n = a * d + b
  BY SMT
<1>4. NextDigit(s, p, k, d) = [quot |-> 32 * q + a, rem |-> b]
  BY SMT, <1>1, <1>2, <1>3 DEF NextDigit
<1>5. 32 * q + a \in Int
  BY SMT
<1>6. (32 * q + a) * d + b = p * (32 * m + k)
  <2>1. (32 * q + a) * d = 32 * (q * d) + a * d
    BY SMT
  <2>2. p * (32 * m + k) = 32 * (p * m) + p * k
    BY SMT
  <2>3. PICK qd \in Int, ad \in Int, pm \in Int, pk \in Int : qd = q * d /\ ad = a * d /\ pm = p * m /\ pk = p * k
    BY SMT
  <2> QED
    BY SMT, <2>1, <2>2, <2>3, <1>1, <1>2, <1>3
<1> QED
  BY SMT, <1>3, <1>4, <1>5, <1>6 DEF Divided

(* What MulDiv() returns is the quotient of p * q and d.                   *)
LEMMA MulDivIsRight ==
    ASSUME NEW p \in Nat, NEW q \in Nat, NEW d \in Int, d > 0
    PROVE  MulDiv(p, q, d) = (p * q) \div d
<1>1. PICK k1 \in Nat, k2 \in Nat, k3 \in Nat, k4 \in Nat :
        /\ k1 = q \div 32768 /\ k2 = (q \div 1024) % 32
        /\ k3 = (q \div 32) % 32 /\ k4 = q % 32
  BY SMT
<1>2. PICK m2 \in Nat, m3 \in Nat, m4 \in Nat :
        /\ m2 = 32 * k1 + k2 /\ m3 = 32 * m2 + k3 /\ m4 = 32 * m3 + k4
  BY SMT
<1>3. m2 = q \div 1024 /\ m3 = q \div 32 /\ m4 = q
  <2>1. m2 = q \div 1024
    BY SMT, <1>1, <1>2
  <2>2. m3 = q \div 32
    BY SMT, <1>1, <1>2, <2>1
  <2>3. m4 = q
    BY SMT, <1>1, <1>2, <2>2
  <2> QED
    BY <2>1, <2>2, <2>3
<1>0. PICK z \in Nat : z = 0
  BY SMT
<1>4. PICK s0 : s0 = [quot |-> 0, rem |-> 0]
  OBVIOUS
<1>5. PICK s1, s2, s3, s4 :
        /\ s1 = NextDigit(s0, p, k1, d) /\ s2 = NextDigit(s1, p, k2, d)
        /\ s3 = NextDigit(s2, p, k3, d) /\ s4 = NextDigit(s3, p, k4, d)
  OBVIOUS
<1>6. Divided(s0, p, z, d)
  BY SMT, <1>0, <1>4 DEF Divided
<1>7. Divided(s1, p, k1, d)
  <2>1. 32 * z + k1 = k1
    BY SMT, <1>0
  <2>2. Divided(NextDigit(s0, p, k1, d), p, 32 * z + k1, d)
    BY Zenon, <1>6, OneMoreDigit
  <2> QED
    BY Zenon, <1>5, <2>1, <2>2
<1>8. Divided(s2, p, m2, d)
  BY Zenon, <1>2, <1>5, <1>7, OneMoreDigit
<1>9. Divided(s3, p, m3, d)
  BY Zenon, <1>2, <1>5, <1>8, OneMoreDigit
<1>10. Divided(s4, p, m4, d)
  BY Zenon, <1>2, <1>5, <1>9, OneMoreDigit
<1>11. MulDiv(p, q, d) = s4.quot
  BY SMT, <1>1, <1>4, <1>5 DEF MulDiv
<1>12. PICK a \in Int, b \in Int :
        /\ s4 = [quot |-> a, rem |-> b]
        /\ a * d + b = p * m4 /\ 0 <= b /\ b < d
  BY Zenon, <1>10 DEF Divided
<1>13. PICK n \in Int : n = p * q
  BY SMT
<1>14. n = a * d + b
  BY SMT, <1>3, <1>12, <1>13
<1>15. n \div d = a
  BY Zenon, <1>12, <1>14, TheQuotient
<1> QED
  BY SMT, <1>11, <1>12, <1>13, <1>15

-----------------------------------------------------------------------------
(* The divisions of CalcHigh(): of the crystal x by t = x / 2^20 + 1, and  *)
(* of n, the divider times the frequency, by the crystal.                  *)
Divisions(x, n, t, a, b, c) ==
    /\ c > 0 /\ a >= 0 /\ b >= 0
    /\ \E u \in Int, r \in Int, v \in Int :
         /\ x = c * t + u /\ 0 <= u /\ u < t
         /\ n = a * x + r /\ 0 <= r /\ r < x
         /\ r = b * t + v /\ 0 <= v /\ v < t

(* What is left of a division of n by x fits in the crystal's c parts.     *)
LEMMA RemainderFits ==
    ASSUME NEW x \in Int, NEW n \in Int, NEW t \in Int, NEW a \in Int, NEW b \in Int,
           NEW c \in Int, Divisions(x, n, t, a, b, c)
    PROVE  b <= c
<1>1. PICK u \in Int, r \in Int, v \in Int :
        /\ x = c * t + u /\ 0 <= u /\ u < t
        /\ n = a * x + r /\ 0 <= r /\ r < x
        /\ r = b * t + v /\ 0 <= v /\ v < t
  BY Zenon DEF Divisions
<1> SUFFICES ASSUME b >= c + 1 PROVE FALSE
  BY SMT
<1>2. t > 0
  BY SMT, <1>1
<1>3. b * t >= (c + 1) * t
  BY SMT, <1>2
<1>4. (c + 1) * t = c * t + t
  BY SMT
<1>5. PICK ct \in Int, bt \in Int : ct = c * t /\ bt = b * t
  BY SMT
<1> QED
  BY SMT, <1>1, <1>3, <1>4, <1>5

(* m and q are P1 + 512 and P2 of the divider a + b / c.                   *)
Registered(m, q, a, b, c) ==
    /\ m = 128 * a + (128 * b) \div c
    /\ q = (128 * b) % c

Small(e) == e \in (-23)..23

(* The crystal x times what the registers stand for is n, up to 23 Hz: the *)
(* remainders that CalcHigh() drops are smaller than t.                    *)
LEMMA ErrorOfDivisions ==
    ASSUME NEW x \in Nat, NEW n \in Int, NEW t \in Int, t <= 24,
           NEW a \in Int, NEW b \in Int, NEW c \in Int, Divisions(x, n, t, a, b, c),
           NEW m \in Int, NEW q \in Int, Registered(m, q, a, b, c)
    PROVE  Small(Excess(x, m, q, c, n))
<1>0. x \in Int
  BY SMT
<1> a >= 0 /\ b >= 0 /\ c > 0
  BY Zenon DEF Divisions
<1> m = 128 * a + (128 * b) \div c
  BY SMT DEF Registered
<1> PICK y \in Int : y = ((m % 128) * c + ((128 * b) % c)) \div 128
  BY SMT
<1>1. PICK u \in Int, r \in Int, v \in Int :
        /\ x = c * t + u /\ 0 <= u /\ u < t
        /\ n = a * x + r /\ 0 <= r /\ r < x
        /\ r = b * t + v /\ 0 <= v /\ v < t
  BY Zenon DEF Divisions
<1>2. b <= c
  BY Zenon, <1>0, RemainderFits
<1>3. ASSUME b = c
      PROVE  Small(x * (m \div 128) + MulDiv(x, y, c) - n)
  <2>1. (128 * b) \div c = 128 /\ (128 * b) % c = 0
    <3>1. 128 * b = 128 * c + 0
      BY SMT, <1>3
    <3>2. PICK h \in Int, z \in Int, d \in Int : h = 128 /\ z = 0 /\ d = 128 * b
      BY SMT
    <3>3. d = h * c + z /\ 0 <= z /\ z < c
      BY SMT, <3>1, <3>2
    <3>4. d \div c = h /\ d % c = z
      BY Zenon, <1>0, <3>3, TheQuotient
    <3> QED
      BY SMT, <3>2, <3>4
  <2>2. m \div 128 = a + 1 /\ m % 128 = 0
    BY SMT, <2>1
  <2>3. y = 0
    <3>1. (m % 128) * c = 0
      BY SMT, <2>2
    <3> QED
      BY SMT, <2>1, <3>1
  <2>4. MulDiv(x, y, c) = 0
    <3>1. MulDiv(x, y, c) = (x * y) \div c
      <4>1. y \in Nat
        BY SMT, <2>3
      <4> QED
        BY SMT, <1>0, <4>1, MulDivIsRight
    <3>2. x * y = 0
      BY SMT, <2>3
    <3>3. PICK z \in Int : z = 0
      BY SMT
    <3>4. z = z * c + z /\ 0 <= z /\ z < c
      BY SMT, <3>3
    <3>5. z \div c = z
      BY Zenon, <1>0, <3>4, TheQuotient
    <3> QED
      BY SMT, <3>1, <3>2, <3>3, <3>5
  <2>5. x * (m \div 128) = a * x + x
    BY SMT, <2>2
  <2>6. PICK ax \in Int, ct \in Int : ax = a * x /\ ct = c * t
    BY SMT
  <2>7. r = ct + v /\ x = ct + u /\ n = ax + r
    BY SMT, <1>1, <1>3, <2>6
  <2>8. x * (m \div 128) + MulDiv(x, y, c) - n = u - v
    <3>1. PICK xm \in Int, md \in Int : xm = x * (m \div 128) /\ md = MulDiv(x, y, c)
      BY SMT, <2>2, <2>4
    <3>2. xm + md - n = u - v
      BY SMT, <1>1, <2>4, <2>5, <2>6, <2>7, <3>1
    <3> QED
      BY Zenon, <3>1, <3>2
  <2> QED
    BY SMT, <1>1, <2>3, <2>8 DEF Small
<1>4. ASSUME b < c
      PROVE  Small(x * (m \div 128) + MulDiv(x, y, c) - n)
  <2>1. PICK k \in Int, p \in Int :
          /\ k = (128 * b) \div c /\ p = (128 * b) % c
          /\ 128 * b = k * c + p /\ 0 <= p /\ p < c
    BY SMT
  <2>2. k \in 0..127
    <3>1. k >= 0
      <4> SUFFICES ASSUME k <= -1 PROVE FALSE
        BY SMT
      <4>1. k * c <= -c
        BY SMT
      <4>2. PICK kc \in Int : kc = k * c
        BY SMT
      <4> QED
        BY SMT, <2>1, <4>1, <4>2
    <3>2. k < 128
      <4> SUFFICES ASSUME k >= 128 PROVE FALSE
        BY SMT
      <4>1. k * c >= 128 * c
        BY SMT
      <4>2. PICK kc \in Int : kc = k * c
        BY SMT
      <4> QED
        BY SMT, <1>4, <2>1, <4>1, <4>2
    <3> QED
      BY SMT, <3>1, <3>2
  <2>3. m \div 128 = a /\ m % 128 = k
    BY SMT, <2>1, <2>2
  <2>4. y = b
    <3>1. PICK kc \in Int : kc = k * c
      BY SMT
    <3>2. (m % 128) * c + ((128 * b) % c) = kc + p
      BY SMT, <2>1, <2>3, <3>1
    <3>3. kc + p = 128 * b
      BY SMT, <2>1, <3>1
    <3> QED
      BY SMT, <3>2, <3>3
  <2>5. MulDiv(x, y, c) = (x * b) \div c
    <3>1. MulDiv(x, b, c) = (x * b) \div c
      BY SMT, <1>0, MulDivIsRight
    <3> QED
      BY Zenon, <2>4, <3>1
  <2>6. PICK ub \in Int, w \in Int, z \in Int :
          /\ ub = u * b /\ ub = w * c + z /\ 0 <= z /\ z < c
    <3>1. u * b \in Int
      BY SMT
    <3>2. PICK ub \in Int : ub = u * b
      BY SMT, <3>1
    <3>3. PICK w \in Int, z \in Int : w = ub \div c /\ z = ub % c /\ ub = w * c + z /\ 0 <= z /\ z < c
      BY SMT
    <3> QED
      BY Zenon, <3>2, <3>3
  <2>7. 0 <= w /\ w <= u
    <3>1. 0 <= ub /\ ub <= u * c
      BY SMT, <1>1, <1>2, <2>6
    <3>2. 0 <= w
      <4> SUFFICES ASSUME w <= -1 PROVE FALSE
        BY SMT
      <4>1. w * c <= -c
        BY SMT
      <4>2. PICK wc \in Int : wc = w * c
        BY SMT
      <4> QED
        BY SMT, <2>6, <3>1, <4>1, <4>2
    <3>3. w <= u
      <4> SUFFICES ASSUME w >= u + 1 PROVE FALSE
        BY SMT
      <4>1. w * c >= (u + 1) * c
        BY SMT
      <4>2. (u + 1) * c = u * c + c
        BY SMT
      <4>3. PICK wc \in Int, uc \in Int : wc = w * c /\ uc = u * c
        BY SMT
      <4> QED
        BY SMT, <2>6, <3>1, <4>1, <4>2, <4>3
    <3> QED
      BY <3>2, <3>3
  <2>8. (x * b) \div c = b * t + w
    <3>1. PICK d \in Int, h \in Int : d = x * b /\ h = b * t + w
      BY SMT
    <3>2. d = h * c + z
      <4>1. x * b = (c * t + u) * b
        BY SMT, <1>1
      <4>2. (c * t + u) * b = (b * t) * c + u * b
        BY SMT
      <4>3. (b * t + w) * c = (b * t) * c + w * c
        BY SMT
      <4>4. PICK btc \in Int, wc \in Int : btc = (b * t) * c /\ wc = w * c
        BY SMT
      <4> QED
        BY SMT, <2>6, <3>1, <4>1, <4>2, <4>3, <4>4
    <3>3. d \div c = h
      BY Zenon, <1>0, <2>6, <3>2, TheQuotient
    <3> QED
      BY Zenon, <3>1, <3>3
  <2>9. x * (m \div 128) = a * x
    BY SMT, <2>3
  <2>10. PICK ax \in Int, bt \in Int : ax = a * x /\ bt = b * t
    BY SMT
  <2>11. x * (m \div 128) + MulDiv(x, y, c) - n = w - v
    <3>1. PICK xm \in Int, md \in Int : xm = x * (m \div 128) /\ md = MulDiv(x, y, c)
      BY SMT, <2>5, <2>8, <2>9, <2>10
    <3>2. xm = ax /\ md = bt + w
      BY SMT, <2>5, <2>8, <2>9, <2>10, <3>1
    <3>3. n = ax + bt + v
      BY SMT, <1>1, <2>10
    <3>4. xm + md - n = w - v
      BY SMT, <3>2, <3>3
    <3> QED
      BY Zenon, <3>1, <3>4
  <2>12. w - v \in (-23)..23
    BY SMT, <1>1, <2>7
  <2> QED
    BY SMT, <2>4, <2>11, <2>12 DEF Small
<1>5. Small(x * (m \div 128) + MulDiv(x, y, c) - n)
  BY SMT, <1>2, <1>3, <1>4
<1>6. y = Numerator(m, q, c)
  BY SMT DEF Registered, Numerator
<1>7. Excess(x, m, q, c, n) = x * (m \div 128) + MulDiv(x, y, c) - n
  BY SMT, <1>6 DEF Excess
<1> QED
  BY SMT, <1>5, <1>7

(* A division with its remainder.                                          *)
LEMMA DivMod ==
    ASSUME NEW n \in Int, NEW d \in Int, d > 0
    PROVE  /\ n \div d \in Int /\ n % d \in Int
           /\ n = (n \div d) * d + (n % d) /\ 0 <= n % d /\ n % d < d
  BY SMT

LEMMA Quotients ==
    ASSUME NEW n \in Nat, NEW d \in Int, d > 0
    PROVE  \E q \in Int, r \in Int :
             /\ q = n \div d /\ r = n % d
             /\ n = q * d + r /\ 0 <= r /\ r < d /\ q >= 0
<1>1. PICK q \in Int, r \in Int :
        q = n \div d /\ r = n % d /\ n = q * d + r /\ 0 <= r /\ r < d
  BY SMT, DivMod
<1>2. q >= 0
  <2> SUFFICES ASSUME q <= -1 PROVE FALSE
    BY SMT
  <2>1. q * d <= -d
    BY SMT
  <2>2. PICK qd \in Int : qd = q * d
    BY SMT
  <2> QED
    BY SMT, <1>1, <2>1, <2>2
<1> QED
  BY Zenon, <1>1, <1>2

(* What CalcHigh() computes, with a denominator of at most 20 bits that is *)
(* not zero, for any frequency and crystal.                                *)
LEMMA CalcHighDivides ==
    ASSUME NEW f \in Nat, NEW x \in Nat, x >= 2
    PROVE  \E a \in Int, b \in Int, c \in Int :
             /\ Divisions(x, Divider(f) * f, x \div Mega + 1, a, b, c)
             /\ c < Mega
             /\ CalcHigh(f, x) = [a |-> a, b |-> b, c |-> c,
                                  x |-> Divider(f), y |-> 0, z |-> 1]
<1>1. PICK g \in Int, s \in Int : g = Mega /\ s = x \div Mega /\ g >= 2 /\ s >= 0 /\ x < (s + 1) * g /\ s < x
  BY SMT DEF Mega
<1>2. PICK t \in Int : t = s + 1 /\ t > 0 /\ t <= x
  BY SMT, <1>1
<1>3. PICK n \in Nat : n = Divider(f) * f
  BY SMT DEF Divider
<1>4. x \in Int /\ x > 0
  BY SMT
<1>5. PICK c \in Int, u \in Int :
        c = x \div t /\ u = x % t /\ x = c * t + u /\ 0 <= u /\ u < t /\ c >= 0
  BY Zenon, <1>2, Quotients
<1>6. PICK a \in Int, r \in Int :
        a = n \div x /\ r = n % x /\ n = a * x + r /\ 0 <= r /\ r < x /\ a >= 0
  BY Zenon, <1>4, Quotients
<1>7. r \in Nat
  BY SMT, <1>6
<1>8. PICK b \in Int, v \in Int :
        b = r \div t /\ v = r % t /\ r = b * t + v /\ 0 <= v /\ v < t /\ b >= 0
  BY Zenon, <1>2, <1>7, Quotients
<1>9. c > 0
  <2> SUFFICES ASSUME c = 0 PROVE FALSE
    BY SMT, <1>5
  <2>1. c * t = 0
    BY SMT
  <2>2. x = u
    BY SMT, <1>5, <2>1
  <2> QED
    BY SMT, <1>2, <1>5, <2>2
<1>10. c < g
  <2> SUFFICES ASSUME c >= g PROVE FALSE
    BY SMT
  <2>1. c * t >= g * t
    BY SMT, <1>2
  <2>2. PICK ct \in Int, gt \in Int : ct = c * t /\ gt = g * t
    BY SMT
  <2>3. x < gt
    BY SMT, <1>1, <1>2, <2>2
  <2> QED
    BY SMT, <1>5, <2>1, <2>2, <2>3
<1>11. Divisions(x, n, t, a, b, c)
  BY Zenon, <1>5, <1>6, <1>8, <1>9 DEF Divisions
<1>12. CalcHigh(f, x) = [a |-> a, b |-> b, c |-> c, x |-> Divider(f), y |-> 0, z |-> 1]
  BY Zenon, <1>1, <1>2, <1>3, <1>5, <1>6, <1>8 DEF CalcHigh
<1> QED
  BY Zenon, <1>1, <1>2, <1>3, <1>10, <1>11, <1>12

(* P1 + 512 and P2 of the multiplier of the PLL, and its bytes.            *)
PLLSteps(m) == 128 * m.a + (128 * m.b) \div m.c
PLLRest(m) == (128 * m.b) % m.c
PLLPart1(m) == PLLSteps(m) - 512
PLLBytes(m) == Bytes(PLLPart1(m), PLLRest(m), m.c)

LEMMA PLLRegisters ==
    ASSUME NEW a \in Int, NEW b \in Int, NEW c \in Int, c > 0, NEW m,
           m.a = a, m.b = b, m.c = c
    PROVE  /\ PLLSteps(m) \in Int /\ PLLRest(m) \in Int /\ PLLPart1(m) \in Int
           /\ Registered(PLLSteps(m), PLLRest(m), a, b, c)
<1>1. PICK d \in Int, q \in Int : d = (128 * b) \div c /\ q = (128 * b) % c
  BY SMT
<1>2. PICK n \in Int : n = 128 * a + d
  BY SMT
<1>3. PLLRest(m) = q
  BY SMT, <1>1 DEF PLLRest
<1>4. PLLSteps(m) = n
  BY SMT, <1>1, <1>2 DEF PLLSteps
<1>5. PLLPart1(m) = n - 512
  BY SMT, <1>4 DEF PLLPart1
<1>6. Registered(n, q, a, b, c)
  BY SMT, <1>1, <1>2 DEF Registered
<1>7. PLLPart1(m) \in Int
  BY SMT, <1>5
<1> QED
  BY Zenon, <1>3, <1>4, <1>6, <1>7

(* "For any Fclk ... abs(Ffound - Fclk) <= 6 Hz", the comment in           *)
(* si5351_Calc(), of the frequencies that CalcHigh() serves: what SetupPLL *)
(* makes of its result is within 6 Hz of f, for any crystal x.             *)
Within6Hz(f, x) ==
    LET m == CalcHigh(f, x)
        e == Excess(x, PLLSteps(m), PLLRest(m), m.c, m.x * f)
    IN  -6 * m.x < e /\ e < 6 * m.x

(* The error bound that the comment of si5351_Calc() states holds for      *)
(* every frequency and every crystal below 24 * 2^20 Hz.                   *)
THEOREM CalcIsWithin6Hz ==
    ASSUME NEW f \in Nat, NEW x \in Nat, x >= 2, x < 24 * Mega
    PROVE  Within6Hz(f, x)
<1>1. PICK t \in Int : t = x \div Mega + 1 /\ t <= 24
  <2>1. PICK s \in Int : s = x \div Mega
    BY SMT DEF Mega
  <2>2. s <= 23
    BY SMT, <2>1 DEF Mega
  <2> QED
    BY SMT, <2>1, <2>2
<1>2. PICK a \in Int, b \in Int, c \in Int :
        /\ Divisions(x, Divider(f) * f, t, a, b, c)
        /\ CalcHigh(f, x) = [a |-> a, b |-> b, c |-> c,
                             x |-> Divider(f), y |-> 0, z |-> 1]
  <2>1. PICK a \in Int, b \in Int, c \in Int :
          /\ Divisions(x, Divider(f) * f, x \div Mega + 1, a, b, c)
          /\ c < Mega
          /\ CalcHigh(f, x) = [a |-> a, b |-> b, c |-> c,
                               x |-> Divider(f), y |-> 0, z |-> 1]
    BY Zenon, CalcHighDivides
  <2> QED
    BY Zenon, <1>1, <2>1
<1>3. PICK k \in {4, 6, 8}, n \in Int : k = Divider(f) /\ n = k * f
  BY SMT DEF Divider
<1>4. Divisions(x, n, t, a, b, c) /\ c > 0
  <2>1. Divisions(x, n, t, a, b, c)
    BY Zenon, <1>2, <1>3
  <2> QED
    BY Zenon, <2>1 DEF Divisions
<1>5. PICK r : r = CalcHigh(f, x)
  OBVIOUS
<1>6. r.a = a /\ r.b = b /\ r.c = c /\ r.x = k
  BY SMT, <1>2, <1>3, <1>5
<1>7. /\ PLLSteps(r) \in Int /\ PLLRest(r) \in Int
      /\ Registered(PLLSteps(r), PLLRest(r), a, b, c)
  BY Zenon, <1>4, <1>6, PLLRegisters
<1>8. t <= 24
  BY Zenon, <1>1
<1>9. Small(Excess(x, PLLSteps(r), PLLRest(r), c, n))
  BY Zenon, <1>4, <1>7, <1>8, ErrorOfDivisions
<1>10. PICK e : e = Excess(x, PLLSteps(r), PLLRest(r), c, n)
  OBVIOUS
<1>11. -6 * k < e /\ e < 6 * k
  BY SMT, <1>9, <1>10 DEF Small
<1>12. e = Excess(x, PLLSteps(r), PLLRest(r), r.c, r.x * f)
  BY Zenon, <1>3, <1>6, <1>10
<1> QED
  BY Zenon, <1>5, <1>6, <1>11, <1>12 DEF Within6Hz

(* The crystals an EEPROM may name, and the one when it names none.        *)
CrystalRange(x) == x \in Nat /\ 20480000 <= x /\ x < 24 * Mega

LEMMA CrystalInRange ==
    ASSUME NEW x \in RefClocks \cup {XREF_FREQ}
    PROVE  CrystalRange(x)
<1>1. CASE x \in RefClocks
  BY SMT, <1>1, ClockChipAssumption DEF CrystalRange
<1>2. CrystalRange(XREF_FREQ)
  BY SMT DEF CrystalRange, XREF_FREQ, Mega
<1> QED
  BY Zenon, <1>1, <1>2

LEMMA CrystalIsFast ==
    ASSUME NEW x \in RefClocks \cup {XREF_FREQ}
    PROVE  /\ x \in Nat /\ x >= 2
           /\ x \div Mega + 1 \in Int /\ x \div Mega + 1 <= 24
<1>0. CrystalRange(x)
  BY Zenon, CrystalInRange
<1>1. x \in Nat /\ x >= 2 /\ x < 24 * Mega
  BY SMT, <1>0 DEF CrystalRange, Mega
<1>2. PICK t \in Int : t = x \div Mega
  BY SMT, <1>1 DEF Mega
<1>3. t <= 23
  BY SMT, <1>1, <1>2 DEF Mega
<1> QED
  BY SMT, <1>1, <1>2, <1>3

(* The dividers of the converter's clock, whose frequency is a constant.   *)
LEMMA DividersOfTheClock ==
    ASSUME NEW x \in RefClocks \cup {XREF_FREQ}
    PROVE  \E a \in Int, b \in Int, c \in Int :
             /\ Divisions(x, 6 * freq_set, x \div Mega + 1, a, b, c)
             /\ c < Mega
             /\ Calc(freq_set, x) = [conf |-> [a |-> a, b |-> b, c |-> c,
                                               x |-> 6, y |-> 0, z |-> 1],
                                     rdiv |-> 0]
<1>1. freq_set \in Nat /\ Divider(freq_set) = 6
  BY SMT DEF freq_set, Divider
<1>2. x \in Nat /\ x >= 2
  BY CrystalIsFast
<1>3. PICK a \in Int, b \in Int, c \in Int :
        /\ Divisions(x, Divider(freq_set) * freq_set, x \div Mega + 1, a, b, c)
        /\ c < Mega
        /\ CalcHigh(freq_set, x) = [a |-> a, b |-> b, c |-> c,
                                    x |-> Divider(freq_set), y |-> 0, z |-> 1]
  BY Zenon, <1>1, <1>2, CalcHighDivides
<1>4. Clamp(freq_set) = freq_set /\ ~(freq_set < 1000000) /\ ~(freq_set < 81000000)
  BY SMT DEF Clamp, freq_set
<1>5. Calc(freq_set, x) = [conf |-> CalcHigh(freq_set, x), rdiv |-> 0]
  <2> DEFINE slow == Clamp(freq_set) < 1000000
  <2>1. ~slow
    BY SMT DEF freq_set, Clamp
  <2>2. (IF slow THEN 64 * Clamp(freq_set) ELSE Clamp(freq_set)) = freq_set
    BY SMT, <1>4, <2>1
  <2>3. Calc(freq_set, x) =
          LET f == IF slow THEN 64 * Clamp(freq_set) ELSE Clamp(freq_set)
          IN  [conf |-> IF f < 81000000 THEN CalcLow(f) ELSE CalcHigh(f, x),
               rdiv |-> IF slow THEN 6 ELSE 0]
    BY SMT DEF Calc
  <2> QED
    BY SMT, <1>4, <2>1, <2>2, <2>3
<1> QED
  BY Zenon, <1>1, <1>3, <1>5

(* One more write at the end, and one at the start.                        *)
LEMMA OneMoreWrite ==
    ASSUME NEW n \in Nat, NEW w, Sent(w, n), NEW e \in RegisterWrite
    PROVE  Appended(w \o <<e>>, w, e, n) /\ Prepended(<<e>> \o w, e, w, n)
<1>1. PICK o : o = <<e>>
  OBVIOUS
<1>2. o \in Seq(RegisterWrite) /\ Len(o) = 1 /\ o[1] = e
  BY SMT, <1>1
<1>3. w \in Seq(RegisterWrite) /\ Len(w) = n
  BY DEF Sent
<1>4. PICK u, v : u = w \o o /\ v = o \o w
  OBVIOUS
<1>5. /\ u \in Seq(RegisterWrite) /\ Len(u) = n + 1
      /\ \A i \in 1..(n + 1) : u[i] = IF i <= n THEN w[i] ELSE o[i - n]
  <2>1. /\ w \o o \in Seq(RegisterWrite) /\ Len(w \o o) = Len(w) + Len(o)
        /\ \A i \in 1..Len(w) + Len(o) :
             (w \o o)[i] = IF i <= Len(w) THEN w[i] ELSE o[i - Len(w)]
    BY <1>2, <1>3, ConcatProperties
  <2> QED
    BY Zenon, <1>2, <1>3, <1>4, <2>1
<1>6. /\ v \in Seq(RegisterWrite) /\ Len(v) = n + 1
      /\ \A i \in 1..(n + 1) : v[i] = IF i <= 1 THEN o[i] ELSE w[i - 1]
  <2>1. /\ o \o w \in Seq(RegisterWrite) /\ Len(o \o w) = Len(o) + Len(w)
        /\ \A i \in 1..Len(o) + Len(w) :
             (o \o w)[i] = IF i <= Len(o) THEN o[i] ELSE w[i - Len(o)]
    BY <1>2, <1>3, ConcatProperties
  <2>2. /\ v \in Seq(RegisterWrite) /\ Len(v) = 1 + n
        /\ \A i \in 1..(1 + n) : v[i] = IF i <= 1 THEN o[i] ELSE w[i - 1]
    BY Zenon, <1>2, <1>3, <1>4, <2>1
  <2> QED
    BY SMT, <2>2
<1>7. /\ \A i \in 1..n : u[i] = w[i]
      /\ u[n + 1] = e
  BY <1>2, <1>5
<1>8. v[1] = e /\ \A i \in 2..(n + 1) : v[i] = w[i - 1]
  BY <1>2, <1>6
<1>9. Appended(u, w, e, n) /\ Prepended(v, e, w, n)
  BY Zenon, <1>5, <1>6, <1>7, <1>8 DEF Appended, Prepended, Sent
<1> QED
  BY Zenon, <1>1, <1>4, <1>9

(* SetupPLL(): the bytes of its divider go to the registers from 26 on.    *)
PLLWrites(u, B) == Sent(u, 9) /\ Carries(u, 0, 26, B) /\ u[9][1] = 177

LEMMA PLLIsProgrammed ==
    ASSUME NEW a \in Int, NEW b \in Int, NEW c \in Int, c > 0, NEW m,
           m = [a |-> a, b |-> b, c |-> c, x |-> 6, y |-> 0, z |-> 1]
    PROVE  PLLWrites(SetupPLL(m), PLLBytes(m))
<1>1. m.a = a /\ m.b = b /\ m.c = c
  BY SMT
<1>2. PICK p \in Int, q \in Int : p = PLLPart1(m) /\ q = PLLRest(m)
  BY Zenon, <1>1, PLLRegisters
<1>4. PICK base \in {26, 42} : base = 26
  BY SMT
<1>5. PICK w : w = WriteBulk(base, p, q, c, 0, 0)
  OBVIOUS
<1>6. Sent(w, 8) /\ Carries(w, 0, base, Bytes(p, q, c))
  BY Zenon, <1>5, BulkWrites
<1>7. PICK n \in Nat, e \in RegisterWrite : n = 8 /\ e = <<177, 160>>
  <2>1. <<177, 160>> \in RegisterWrite
    BY SMT DEF RegisterWrite, Registers
  <2> QED
    BY SMT, <2>1
<1>8. PICK u : u = w \o <<e>>
  OBVIOUS
<1>9. Appended(u, w, e, n)
  BY Zenon, <1>6, <1>7, <1>8, OneMoreWrite
<1>10. /\ Sent(u, 9) /\ u[9][1] = 177
       /\ \A i \in 1..8 : u[i] = w[i]
  BY SMT, <1>7, <1>9 DEF Appended, Sent
<1>11. Carries(u, 0, 26, Bytes(p, q, c))
  <2>1. PICK B : B = Bytes(p, q, c)
    OBVIOUS
  <2>2. ASSUME NEW j \in 1..8 PROVE u[0 + j] = <<26 + (j - 1), B[j]>>
    <3>1. w[0 + j] = <<base + (j - 1), B[j]>>
      BY Zenon, <1>6, <2>1 DEF Carries
    <3> QED
      BY SMT, <1>4, <1>10, <3>1
  <2> QED
    BY Zenon, <2>1, <2>2 DEF Carries
<1>12. PLLBytes(m) = Bytes(p, q, c)
  BY Zenon, <1>1, <1>2 DEF PLLBytes
<1>13. SetupPLL(m) = u
  <2>1. SetupPLL(m) =
          WriteBulk(base, PLLPart1(m), PLLRest(m), m.c, 0, 0) \o <<e>>
    BY SMT, <1>4, <1>7 DEF SetupPLL, PLLPart1, PLLSteps, PLLRest
  <2> QED
    BY Zenon, <1>1, <1>2, <1>5, <1>8, <2>1
<1> QED
  BY Zenon, <1>10, <1>11, <1>12, <1>13 DEF PLLWrites

(* SetupOutput(): output 0 is powered up, and its divider of 6 goes to the *)
(* registers from 42 on.                                                   *)
OutputBytes == Bytes(256, 0, 1)

OutputWrites(u) ==
    /\ Sent(u, 10)
    /\ u[1] = <<16, 79>> /\ u[10][1] = 165
    /\ Carries(u, 1, 42, OutputBytes)

LEMMA OutputIsProgrammed ==
    ASSUME NEW a \in Int, NEW b \in Int, NEW c \in Int, NEW m,
           m = [a |-> a, b |-> b, c |-> c, x |-> 6, y |-> 0, z |-> 1]
    PROVE  OutputWrites(SetupOutput(m, 0))
<1>1. PICK base \in {26, 42}, p \in Int, q \in Int, r \in Int :
        base = 42 /\ p = 256 /\ q = 0 /\ r = 1
  BY SMT
<1>2. PICK w : w = WriteBulk(base, p, q, r, 0, 0)
  OBVIOUS
<1>3. Sent(w, 8) /\ Carries(w, 0, base, Bytes(p, q, r))
  BY Zenon, <1>2, BulkWrites
<1>4. PICK n \in Nat, l \in Nat, d \in RegisterWrite, e \in RegisterWrite :
        n = 8 /\ l = 9 /\ d = <<16, 79>> /\ e = <<165, 0>>
  <2>1. <<16, 79>> \in RegisterWrite /\ <<165, 0>> \in RegisterWrite
    BY SMT DEF RegisterWrite, Registers
  <2> QED
    BY SMT, <2>1
<1>5. PICK v : v = <<d>> \o w
  OBVIOUS
<1>6. Prepended(v, d, w, n)
  BY Zenon, <1>3, <1>4, <1>5, OneMoreWrite
<1>7. Sent(v, l) /\ v[1] = d /\ \A i \in 2..9 : v[i] = w[i - 1]
  BY SMT, <1>4, <1>6 DEF Prepended, Sent
<1>8. PICK u : u = v \o <<e>>
  OBVIOUS
<1>9. Appended(u, v, e, l)
  BY Zenon, <1>4, <1>7, <1>8, OneMoreWrite
<1>10. /\ Sent(u, 10) /\ u[1] = d /\ u[10][1] = 165
       /\ \A i \in 2..9 : u[i] = w[i - 1]
  BY SMT, <1>4, <1>7, <1>9 DEF Appended, Sent
<1>11. Carries(u, 1, 42, OutputBytes)
  <2>1. PICK B : B = Bytes(p, q, r)
    OBVIOUS
  <2>2. ASSUME NEW j \in 1..8 PROVE u[1 + j] = <<42 + (j - 1), B[j]>>
    <3>1. w[0 + j] = <<base + (j - 1), B[j]>>
      BY Zenon, <1>3, <2>1 DEF Carries
    <3>2. u[1 + j] = w[0 + j]
      BY SMT, <1>10
    <3> QED
      BY SMT, <1>1, <3>1, <3>2
  <2>3. OutputBytes = B
    BY SMT, <1>1, <2>1 DEF OutputBytes
  <2> QED
    BY Zenon, <2>2, <2>3 DEF Carries
<1>12. /\ 128 * m.x + (128 * m.y) \div m.z - 512 = 256
       /\ (128 * m.y) % m.z = 0 /\ m.z = 1 /\ m.x # 4 /\ m.y = 0
  BY SMT
<1>13. SetupOutput(m, 0) = (<< <<16, 79>> >> \o WriteBulk(42, 256, 0, 1, 0, 0))
                             \o << <<165, 0>> >>
  BY SMT, <1>12 DEF SetupOutput
<1>14. SetupOutput(m, 0) = u
  BY Zenon, <1>1, <1>2, <1>4, <1>5, <1>8, <1>13
<1>15. OutputWrites(u)
  BY SMT, <1>4, <1>10, <1>11 DEF OutputWrites
<1> QED
  BY Zenon, <1>14, <1>15

Joined(u, v, w, m, n) ==
    /\ Sent(u, m + n)
    /\ \A i \in 1..m : u[i] = v[i]
    /\ \A i \in (m + 1)..(m + n) : u[i] = w[i - m]

(* One sequence of writes after another.                                   *)
LEMMA Joining ==
    ASSUME NEW m \in Nat, NEW n \in Nat, NEW v, NEW w, Sent(v, m), Sent(w, n)
    PROVE  Joined(v \o w, v, w, m, n)
<1>1. v \in Seq(RegisterWrite) /\ Len(v) = m /\ w \in Seq(RegisterWrite) /\ Len(w) = n
  BY DEF Sent
<1>2. /\ v \o w \in Seq(RegisterWrite) /\ Len(v \o w) = Len(v) + Len(w)
      /\ \A i \in 1..Len(v) + Len(w) :
           (v \o w)[i] = IF i <= Len(v) THEN v[i] ELSE w[i - Len(v)]
  BY <1>1, ConcatProperties
<1>3. PICK u : u = v \o w
  OBVIOUS
<1>4. /\ u \in Seq(RegisterWrite) /\ Len(u) = m + n
      /\ \A i \in 1..m + n : u[i] = IF i <= m THEN v[i] ELSE w[i - m]
  BY Zenon, <1>1, <1>2, <1>3
<1>5. /\ \A i \in 1..m : u[i] = v[i]
      /\ \A i \in (m + 1)..(m + n) : u[i] = w[i - m]
  BY SMT, <1>4
<1> QED
  BY Zenon, <1>3, <1>4, <1>5 DEF Joined, Sent

(* Si5351Init(): the outputs are switched off before anything else.        *)
InitWrites(u) ==
    /\ Sent(u, 10)
    /\ u[1] = <<3, 255>>
    /\ \A i \in 2..10 : u[i][1] \in 16..23 \cup {183}

LEMMA InitSwitchesOff == InitWrites(Si5351Init)
<1>1. PICK f : f = [i \in 1..8 |-> <<15 + i, 128>>]
  OBVIOUS
<1>2. ASSUME NEW i \in 1..8 PROVE <<15 + i, 128>> \in RegisterWrite
  BY SMT DEF RegisterWrite, Registers
<1>3. f \in Seq(RegisterWrite) /\ Len(f) = 8
  BY SMT, <1>1, <1>2
<1>4. Sent(f, 8) /\ \A i \in 1..8 : f[i][1] = 15 + i
  BY SMT, <1>1, <1>3 DEF Sent
<1>5. <<3, 255>> \in RegisterWrite /\ <<183, 192>> \in RegisterWrite
  BY SMT DEF RegisterWrite, Registers
<1>6. PICK n \in Nat, l \in Nat, d \in RegisterWrite, e \in RegisterWrite :
        n = 8 /\ l = 9 /\ d = <<3, 255>> /\ e = <<183, 192>>
  BY SMT, <1>5
<1>7. PICK v : v = <<d>> \o f
  OBVIOUS
<1>8. Prepended(v, d, f, n)
  <2>1. Sent(f, n)
    BY Zenon, <1>4, <1>6
  <2> QED
    BY Zenon, <1>7, <2>1, OneMoreWrite
<1>9. Sent(v, l) /\ v[1] = d /\ \A i \in 2..9 : v[i] = f[i - 1]
  BY SMT, <1>6, <1>8 DEF Prepended, Sent
<1>10. PICK u : u = v \o <<e>>
  OBVIOUS
<1>11. Appended(u, v, e, l)
  BY Zenon, <1>9, <1>10, OneMoreWrite
<1>12. /\ Sent(u, 10) /\ u[1] = d /\ u[10] = e
       /\ \A i \in 2..9 : u[i] = f[i - 1]
  BY SMT, <1>6, <1>9, <1>11 DEF Appended, Sent
<1>13. ASSUME NEW i \in 2..10 PROVE u[i][1] \in 16..23 \cup {183}
  <2>1. CASE i <= 9
    BY SMT, <1>4, <1>12, <2>1
  <2>2. CASE ~(i <= 9)
    BY SMT, <1>6, <1>12, <2>2
  <2> QED
    BY <2>1, <2>2
<1>14. Si5351Init = u
  BY Zenon, <1>1, <1>6, <1>7, <1>10 DEF Si5351Init
<1> QED
  <2>1. InitWrites(u)
    BY SMT, <1>6, <1>12, <1>13 DEF InitWrites
  <2> QED
    BY Zenon, <1>14, <2>1

(* The writes of a boot: the first switches the outputs off, the last      *)
(* switches output 0 on; in between are the bytes B of the PLL's divider   *)
(* and those of the output's, and the control of output 0.                 *)
BootWrites(w, B) ==
    /\ Sent(w, 30)
    /\ w[1] = <<3, 255>> /\ w[30] = <<3, 254>>
    /\ \A i \in 2..10 : w[i][1] \in 16..23 \cup {183}
    /\ Carries(w, 10, 26, B) /\ w[19][1] = 177
    /\ w[20] = <<16, 79>> /\ Carries(w, 20, 42, OutputBytes) /\ w[29][1] = 165

LEMMA WritesOfABoot ==
    ASSUME NEW x \in RefClocks \cup {XREF_FREQ}
    PROVE  BootWrites(Writes(x), PLLBytes(Calc(freq_set, x).conf))
<1>0. PICK a \in Int, b \in Int, c \in Int :
        /\ Divisions(x, 6 * freq_set, x \div Mega + 1, a, b, c)
        /\ Calc(freq_set, x) = [conf |-> [a |-> a, b |-> b, c |-> c,
                                          x |-> 6, y |-> 0, z |-> 1],
                                rdiv |-> 0]
  BY Zenon, DividersOfTheClock
<1>1. /\ c > 0
      /\ Calc(freq_set, x) = [conf |-> [a |-> a, b |-> b, c |-> c,
                                          x |-> 6, y |-> 0, z |-> 1],
                                rdiv |-> 0]
  BY Zenon, <1>0 DEF Divisions
<1> PICK m, k :
        /\ m = [a |-> a, b |-> b, c |-> c, x |-> 6, y |-> 0, z |-> 1]
        /\ k = [conf |-> m, rdiv |-> 0] /\ Calc(freq_set, x) = k
  BY <1>1
<1>2. k.conf = m /\ k.rdiv = 0
  BY SMT
<1> PICK B, p, o :
        B = PLLBytes(m) /\ p = SetupPLL(m) /\ o = SetupOutput(m, 0)
  OBVIOUS
<1>3. PLLWrites(p, B)
  BY Zenon, <1>1, PLLIsProgrammed
<1>4. OutputWrites(o)
  BY Zenon, <1>1, OutputIsProgrammed
<1>5. PICK n9 \in Nat, n10 \in Nat, n19 \in Nat, n29 \in Nat :
        n9 = 9 /\ n10 = 10 /\ n19 = 19 /\ n29 = 29
  BY SMT
<1>6. Sent(p, n9) /\ Sent(o, n10)
  BY Zenon, <1>3, <1>4, <1>5 DEF PLLWrites, OutputWrites
<1>7. PICK s : s = p \o o
  OBVIOUS
<1>8. Joined(s, p, o, n9, n10)
  BY Zenon, <1>6, <1>7, Joining
<1>9. /\ Sent(s, n19)
      /\ \A i \in 1..9 : s[i] = p[i]
      /\ \A i \in 10..19 : s[i] = o[i - 9]
  BY SMT, <1>5, <1>8 DEF Joined, Sent
<1>10. PICK q : q = Si5351Init
  OBVIOUS
<1>11. InitWrites(q)
  BY Zenon, <1>10, InitSwitchesOff
<1>12. Sent(q, n10)
  BY Zenon, <1>5, <1>11 DEF InitWrites
<1>13. PICK t : t = q \o s
  OBVIOUS
<1>14. Joined(t, q, s, n10, n19)
  BY Zenon, <1>9, <1>12, <1>13, Joining
<1>15. /\ Sent(t, n29)
       /\ \A i \in 1..10 : t[i] = q[i]
       /\ \A i \in 11..29 : t[i] = s[i - 10]
  BY SMT, <1>5, <1>14 DEF Joined, Sent
<1>16. PICK e \in RegisterWrite : e = <<3, 254>>
  <2>1. <<3, 254>> \in RegisterWrite
    BY SMT DEF RegisterWrite, Registers
  <2> QED
    BY SMT, <2>1
<1>17. PICK w : w = t \o <<e>>
  OBVIOUS
<1>18. Appended(w, t, e, n29)
  BY Zenon, <1>15, <1>16, <1>17, OneMoreWrite
<1>19. /\ Sent(w, 30) /\ w[30] = e
       /\ \A i \in 1..29 : w[i] = t[i]
  BY SMT, <1>5, <1>18 DEF Appended, Sent
<1>20. w[1] = <<3, 255>> /\ \A i \in 2..10 : w[i][1] \in 16..23 \cup {183}
  BY SMT, <1>11, <1>15, <1>19 DEF InitWrites
<1>21. \A i \in 1..9 : w[10 + i] = p[i]
  <2> TAKE i \in 1..9
  <2>1. 10 + i \in 1..29 /\ 10 + i \in 11..29 /\ (10 + i) - 10 = i
    BY SMT
  <2>2. w[10 + i] = t[10 + i]
    BY Zenon, <1>19, <2>1
  <2>3. t[10 + i] = s[i]
    BY Zenon, <1>15, <2>1
  <2>4. s[i] = p[i]
    BY Zenon, <1>9
  <2> QED
    BY Zenon, <2>2, <2>3, <2>4
<1>22. \A i \in 1..10 : w[19 + i] = o[i]
  <2> TAKE i \in 1..10
  <2>1. /\ 19 + i \in 1..29 /\ 19 + i \in 11..29 /\ (19 + i) - 10 = 9 + i
        /\ 9 + i \in 10..19 /\ (9 + i) - 9 = i
    BY SMT
  <2>2. w[19 + i] = t[19 + i]
    BY Zenon, <1>19, <2>1
  <2>3. t[19 + i] = s[9 + i]
    BY Zenon, <1>15, <2>1
  <2>4. s[9 + i] = o[i]
    BY Zenon, <1>9, <2>1
  <2> QED
    BY Zenon, <2>2, <2>3, <2>4
<1>23. Carries(w, 10, 26, B) /\ w[19][1] = 177
  <2>1. ASSUME NEW j \in 1..8 PROVE w[10 + j] = <<26 + (j - 1), B[j]>>
    <3>1. p[0 + j] = <<26 + (j - 1), B[j]>>
      BY Zenon, <1>3 DEF PLLWrites, Carries
    <3> QED
      BY SMT, <1>21, <3>1
  <2>2. w[19] = p[9]
    BY SMT, <1>21
  <2>3. p[9][1] = 177
    BY SMT, <1>3 DEF PLLWrites
  <2> QED
    BY SMT, <2>1, <2>2, <2>3 DEF Carries
<1>24. /\ w[20] = <<16, 79>> /\ w[29][1] = 165
       /\ Carries(w, 20, 42, OutputBytes)
  <2>0. PICK D : D = OutputBytes
    OBVIOUS
  <2>1. ASSUME NEW j \in 1..8 PROVE w[20 + j] = <<42 + (j - 1), D[j]>>
    <3>1. o[1 + j] = <<42 + (j - 1), D[j]>>
      BY Zenon, <1>4, <2>0 DEF OutputWrites, Carries
    <3>2. 1 + j \in 1..10 /\ 19 + (1 + j) = 20 + j
      BY SMT
    <3> QED
      BY Zenon, <1>22, <3>1, <3>2
  <2>2. w[20] = o[1] /\ w[29] = o[10]
    BY SMT, <1>22
  <2>3. o[1] = <<16, 79>> /\ o[10][1] = 165
    BY SMT, <1>4 DEF OutputWrites
  <2> QED
    BY SMT, <2>0, <2>1, <2>2, <2>3 DEF Carries
<1>25. BootWrites(w, B)
  BY SMT, <1>16, <1>19, <1>20, <1>23, <1>24 DEF BootWrites
<1>26. Writes(x) = w
  <2>1. SetupCLK0(freq_set, x) = s
    BY Zenon, <1>2, <1>7 DEF SetupCLK0
  <2> QED
    BY Zenon, <1>10, <1>13, <1>16, <1>17, <2>1 DEF Writes, EnableOutputs
<1> QED
  BY Zenon, <1>2, <1>25, <1>26

-----------------------------------------------------------------------------
(* What the chip makes of the bytes of a divider: the divider again.       *)
JoinedP(B) == 65536 * (B[3] % 4) + 256 * B[4] + B[5]
JoinedQ(B) == 65536 * (B[6] % 16) + 256 * B[7] + B[8]
JoinedR(B) == 65536 * (B[6] \div 16) + 256 * B[1] + B[2]
DivBy4(B) == B[3] \div 4

Fits18(v) == v \in Nat /\ v < 262144
Fits20(v) == v \in Nat /\ v < 1048576

LEMMA BytesJoin ==
    ASSUME NEW p, Fits18(p), NEW q, Fits20(q), NEW r, Fits20(r)
    PROVE  /\ JoinedP(Bytes(p, q, r)) = p /\ JoinedQ(Bytes(p, q, r)) = q
           /\ JoinedR(Bytes(p, q, r)) = r /\ DivBy4(Bytes(p, q, r)) = 0
<1>1. p \in Nat /\ p < 262144 /\ q \in Nat /\ q < 1048576 /\ r \in Nat /\ r < 1048576
  BY SMT DEF Fits18, Fits20
<1>2. PICK p1 \in Int, p2 \in Int, p3 \in Int :
        /\ p1 = (p \div 65536) % 4 /\ p2 = (p \div 256) % 256 /\ p3 = p % 256
  BY SMT, <1>1
<1>3. 65536 * p1 + 256 * p2 + p3 = p /\ p1 \in 0..3
  BY SMT, <1>1, <1>2
<1>4. PICK q1 \in Int, q2 \in Int, q3 \in Int :
        /\ q1 = (q \div 65536) % 16 /\ q2 = (q \div 256) % 256 /\ q3 = q % 256
  BY SMT, <1>1
<1>5. 65536 * q1 + 256 * q2 + q3 = q /\ q1 \in 0..15
  BY SMT, <1>1, <1>4
<1>6. PICK r1 \in Int, r2 \in Int, r3 \in Int :
        /\ r1 = (r \div 65536) % 16 /\ r2 = (r \div 256) % 256 /\ r3 = r % 256
  BY SMT, <1>1
<1>7. 65536 * r1 + 256 * r2 + r3 = r /\ r1 \in 0..15
  BY SMT, <1>1, <1>6
<1>8. PICK B : B = <<r2, r3, p1, p2, p3, 16 * r1 + q1, q2, q3>>
  OBVIOUS
<1>9. Bytes(p, q, r) = B
  BY SMT, <1>2, <1>4, <1>6, <1>8 DEF Bytes
<1>10. p1 % 4 = p1 /\ p1 \div 4 = 0 /\ (16 * r1 + q1) % 16 = q1 /\ (16 * r1 + q1) \div 16 = r1
  BY SMT, <1>3, <1>5, <1>7
<1>11. /\ B[1] = r2 /\ B[2] = r3 /\ B[3] = p1 /\ B[4] = p2 /\ B[5] = p3
       /\ B[6] = 16 * r1 + q1 /\ B[7] = q2 /\ B[8] = q3
  BY SMT, <1>8
<1>12. JoinedP(B) = p /\ DivBy4(B) = 0
  BY SMT, <1>3, <1>10, <1>11 DEF JoinedP, DivBy4
<1>13. JoinedQ(B) = q
  BY SMT, <1>5, <1>10, <1>11 DEF JoinedQ
<1>14. JoinedR(B) = r
  BY SMT, <1>7, <1>10, <1>11 DEF JoinedR
<1> QED
  BY Zenon, <1>9, <1>12, <1>13, <1>14

(* Where the hook is, and what it has left in the chip: B[j] is in its     *)
(* register when its write is among the first n - 1.                       *)
CrystalBytes == PLLBytes(Calc(freq_set, Crystal).conf)

Loaded(g, B, n) ==
    /\ \A j \in 1..8 : 10 + j < n => g[26 + (j - 1)] = B[j]
    /\ \A j \in 1..8 : 20 + j < n => g[42 + (j - 1)] = OutputBytes[j]

HookTypes ==
    /\ refclock \in RefClocks \cup {NoRefclock}
    /\ bpc \in {"eeprom", "gpio", "chip", "up", "failed"}
    /\ xref \in RefClocks \cup {XREF_FREQ}
    /\ clkref \in BOOLEAN
    /\ next \in 1..31
    /\ regs \in [Registers -> 0..255]
    /\ boots \in 1..MaxBoots

HookPlace ==
    /\ bpc \in {"eeprom", "gpio"} => next = 1
    /\ bpc = "chip" => next <= 30 /\ clkref
    /\ bpc = "up" => next = 31 /\ clkref

ChipFollows ==
    /\ next \in 2..30 => regs[3] = 255
    /\ next = 31 => regs[3] = 254
    /\ next \in 21..31 => regs[16] = 79

CrystalFollows ==
    /\ bpc \in {"gpio", "chip", "up"} => xref = Crystal
    /\ bpc = "eeprom" => xref = XREF_FREQ

(* A chip whose output is on when a boot begins was set up by one before.  *)
DividersFollow ==
    /\ Loaded(regs, CrystalBytes, next)
    /\ next = 1 /\ regs[3] % 2 = 0 =>
         regs[16] = 79 /\ Loaded(regs, CrystalBytes, 31)

HookInv == HookTypes /\ HookPlace /\ ChipFollows /\ CrystalFollows /\ DividersFollow

LEMMA CrystalIsKnown ==
    ASSUME HookTypes
    PROVE  Crystal \in RefClocks \cup {XREF_FREQ}
  BY Zenon DEF HookTypes, Crystal

(* Nothing is loaded before the first write.                               *)
LEMMA NothingLoaded ==
    ASSUME NEW g, NEW B
    PROVE  Loaded(g, B, 1)
<1>1. PICK C : C = OutputBytes
  OBVIOUS
<1>2. \A j \in 1..8 : ~(10 + j < 1) /\ ~(20 + j < 1)
  BY SMT
<1> QED
  BY Zenon, <1>2 DEF Loaded

(* A boot starts with HookInv, and each of its steps keeps it: the numbers *)
(* of the writes say what the registers hold.                              *)
LEMMA HookStarts == BootInit => HookInv
<1> SUFFICES ASSUME BootInit PROVE HookInv
  OBVIOUS
<1>1. Blank \in [Registers -> 0..255] /\ Blank[3] = 255
  BY SMT DEF Blank, Registers
<1>2. 1 \in 1..MaxBoots
  BY SMT, ClockChipAssumption
<1>3. HookTypes
  <2>1. xref \in RefClocks \cup {XREF_FREQ} /\ regs \in [Registers -> 0..255]
    BY Zenon, <1>1 DEF BootInit
  <2>2. next \in 1..31 /\ boots \in 1..MaxBoots
    BY SMT, <1>2 DEF BootInit
  <2> QED
    BY Zenon, <2>1, <2>2 DEF BootInit, HookTypes
<1>4. HookPlace /\ ChipFollows
  BY SMT DEF BootInit, HookPlace, ChipFollows
<1>5. CrystalFollows
  BY Zenon DEF BootInit, CrystalFollows
<1>6. DividersFollow
  <2>1. Loaded(regs, CrystalBytes, next)
    BY Zenon, NothingLoaded DEF BootInit
  <2>2. ~(regs[3] % 2 = 0)
    BY SMT, <1>1 DEF BootInit
  <2> QED
    BY Zenon, <2>1, <2>2 DEF DividersFollow
<1> QED
  BY <1>3, <1>4, <1>5, <1>6 DEF HookInv

(* The registers of the dividers' bytes.                                   *)
LEMMA DividerRegisters ==
    ASSUME NEW j \in 1..8
    PROVE  26 + (j - 1) \in Registers /\ 42 + (j - 1) \in Registers
<1>1. 26 + (j - 1) \in 26..33
  BY SMT
<1>2. 42 + (j - 1) \in 42..49
  BY SMT
<1> QED
  BY SMT, <1>1, <1>2 DEF Registers

(* Where the dividers' bytes are among the writes of a boot.               *)
LEMMA BootCarries ==
    ASSUME NEW w, NEW B, BootWrites(w, B)
    PROVE  Carries(w, 10, 26, B) /\ Carries(w, 20, 42, OutputBytes)
<1> DEFINE C == Carries(w, 10, 26, B) /\ Carries(w, 20, 42, OutputBytes)
<1>1. BootWrites(w, B) => C
  BY SMT DEF BootWrites
<1> QED
  BY Zenon, <1>1

(* No other write of a boot is to a register of a divider's byte, or to    *)
(* register 3 or 16 once they are set.                                     *)
LEMMA OneRegisterEach ==
    ASSUME NEW w, NEW B, BootWrites(w, B), NEW n \in 1..30
    PROVE  /\ \A j \in 1..8 : n # 10 + j => w[n][1] # 26 + (j - 1)
           /\ \A j \in 1..8 : n # 20 + j => w[n][1] # 42 + (j - 1)
           /\ n \in 2..29 => w[n][1] # 3
           /\ n \in 21..30 => w[n][1] # 16
<1>1. CASE n = 1 \/ n = 30
  BY SMT, <1>1 DEF BootWrites
<1>2. CASE n \in 2..10
  BY SMT, <1>2 DEF BootWrites
<1>3. CASE n \in 11..18
  <2>1. PICK i \in 1..8 : n = 10 + i
    BY SMT, <1>3
  <2>2. w[10 + i] = <<26 + (i - 1), B[i]>>
    BY Zenon, BootCarries DEF Carries
  <2>3. w[n][1] = 26 + (i - 1)
    BY SMT, <2>1, <2>2
  <2> QED
    BY SMT, <2>1, <2>3
<1>4. CASE n \in {19, 20, 29}
  BY SMT, <1>4 DEF BootWrites
<1>5. CASE n \in 21..28
  <2>1. PICK i \in 1..8 : n = 20 + i
    BY SMT, <1>5
  <2>2. PICK C : C = OutputBytes
    OBVIOUS
  <2>3. w[20 + i] = <<42 + (i - 1), C[i]>>
    BY Zenon, <2>2, BootCarries DEF Carries
  <2>4. w[n][1] = 42 + (i - 1)
    BY SMT, <2>1, <2>3
  <2> QED
    BY SMT, <2>1, <2>4
<1> QED
  BY SMT, <1>1, <1>2, <1>3, <1>4, <1>5

(* One write takes the registers one byte further.                         *)
LEMMA WriteLoads ==
    ASSUME NEW w, NEW B, BootWrites(w, B), NEW n \in 1..30,
           NEW g \in [Registers -> 0..255], Loaded(g, B, n),
           NEW r \in Registers, NEW v \in 0..255, w[n] = <<r, v>>,
           NEW h, h = [g EXCEPT ![r] = v]
    PROVE  Loaded(h, B, n + 1)
<1>1. \A j \in 1..8 : 26 + (j - 1) \in Registers /\ 42 + (j - 1) \in Registers
  BY Zenon, DividerRegisters
<1>2. PICK C : C = OutputBytes
  OBVIOUS
<1>3. w[n][1] = r
  BY SMT
<1>4. ASSUME NEW j \in 1..8, 10 + j < n + 1
      PROVE  h[26 + (j - 1)] = B[j]
  <2>1. CASE n = 10 + j
    <3>1. w[10 + j] = <<26 + (j - 1), B[j]>>
      BY Zenon, BootCarries DEF Carries
    <3>2. <<r, v>> = <<26 + (j - 1), B[j]>>
      BY Zenon, <2>1, <3>1
    <3>3. r = 26 + (j - 1) /\ v = B[j]
      BY Zenon, <3>2
    <3> QED
      BY Zenon, <3>3
  <2>2. CASE n # 10 + j
    <3>1. r # 26 + (j - 1)
      BY Zenon, <1>3, <2>2, OneRegisterEach
    <3>2. 10 + j < n
      BY SMT, <1>4, <2>2
    <3>3. g[26 + (j - 1)] = B[j]
      BY Zenon, <3>2 DEF Loaded
    <3> QED
      BY Zenon, <1>1, <3>1, <3>3
  <2> QED
    BY <2>1, <2>2
<1>5. ASSUME NEW j \in 1..8, 20 + j < n + 1
      PROVE  h[42 + (j - 1)] = C[j]
  <2>1. CASE n = 20 + j
    <3>1. w[20 + j] = <<42 + (j - 1), C[j]>>
      BY Zenon, <1>2, BootCarries DEF Carries
    <3>2. <<r, v>> = <<42 + (j - 1), C[j]>>
      BY Zenon, <2>1, <3>1
    <3>3. r = 42 + (j - 1) /\ v = C[j]
      BY Zenon, <3>2
    <3> QED
      BY Zenon, <3>3
  <2>2. CASE n # 20 + j
    <3>1. r # 42 + (j - 1)
      BY Zenon, <1>3, <2>2, OneRegisterEach
    <3>2. 20 + j < n
      BY SMT, <1>5, <2>2
    <3>3. g[42 + (j - 1)] = C[j]
      BY Zenon, <1>2, <3>2 DEF Loaded
    <3> QED
      BY Zenon, <1>1, <3>1, <3>3
  <2> QED
    BY <2>1, <2>2
<1> QED
  BY Zenon, <1>2, <1>4, <1>5 DEF Loaded

LEMMA OneWrite ==
    ASSUME NEW e \in RegisterWrite
    PROVE  \E r \in Registers, v \in 0..255 : e = <<r, v>>
<1>1. PICK V : V = 0..255
  OBVIOUS
<1>2. e \in Registers \X V
  BY Zenon, <1>1 DEF RegisterWrite
<1>3. \E r \in Registers, v \in V : e = <<r, v>>
  BY SMT, <1>2
<1> QED
  BY SMT, <1>1, <1>3

LEMMA WriteKeepsHook ==
    ASSUME HookInv, WriteRegister
    PROVE  HookInv'
<1>1. PICK w, B : w = Writes(xref) /\ B = CrystalBytes
  OBVIOUS
<1>2. /\ bpc = "chip" /\ next \in 1..30 /\ clkref /\ xref = Crystal
      /\ UNCHANGED <<refclock, xref, clkref, boots>>
  <2>1. xref = Crystal
    BY Zenon DEF HookInv, CrystalFollows, WriteRegister
  <2> QED
    BY SMT, <2>1 DEF HookInv, HookTypes, HookPlace, WriteRegister
<1>3. BootWrites(w, B)
  <2>1. BootWrites(Writes(xref), PLLBytes(Calc(freq_set, xref).conf))
    BY Zenon, WritesOfABoot DEF HookInv, HookTypes
  <2> QED
    BY Zenon, <1>1, <1>2, <2>1 DEF CrystalBytes
<1>4. Crystal' = Crystal /\ CrystalBytes' = B
  BY Zenon, <1>1, <1>2 DEF Crystal, CrystalBytes
<1>5. CASE bpc' = "failed" /\ UNCHANGED <<regs, next>>
  <2>1. HookTypes' /\ HookPlace' /\ ChipFollows'
    BY SMT, <1>2, <1>5 DEF HookInv, HookTypes, HookPlace, ChipFollows
  <2>2. CrystalFollows'
    BY Zenon, <1>5 DEF CrystalFollows
  <2>3. DividersFollow'
    BY Zenon, <1>1, <1>4, <1>5 DEF HookInv, DividersFollow
  <2> QED
    BY <2>1, <2>2, <2>3 DEF HookInv
<1>6. CASE /\ regs' = [regs EXCEPT ![w[next][1]] = w[next][2]]
           /\ next' = next + 1
           /\ bpc' = IF next = Len(w) THEN "up" ELSE "chip"
  <2>0. next' = next + 1 /\ bpc' = IF next = Len(w) THEN "up" ELSE "chip"
    BY Zenon, <1>6
  <2>1. Len(w) = 30 /\ w[next] \in RegisterWrite
    <3>1. w \in Seq(RegisterWrite) /\ Len(w) = 30
      BY Zenon, <1>3 DEF Sent, BootWrites
    <3> QED
      BY Zenon, <1>2, <3>1, ElementOfSeq
  <2>2. PICK r \in Registers, v \in 0..255 : w[next] = <<r, v>>
    BY Zenon, <2>1, OneWrite
  <2>3. regs' = [regs EXCEPT ![r] = v] /\ regs \in [Registers -> 0..255]
    BY SMT, <1>6, <2>2 DEF HookInv, HookTypes
  <2>4. HookTypes'
    <3>1. regs' \in [Registers -> 0..255]
      BY SMT, <2>3
    <3>2. next' \in 1..31
      <4>1. next \in 1..30
        BY Zenon, <1>2
      <4> QED
        BY SMT, <2>0, <4>1
    <3>3. bpc' = "up" \/ bpc' = "chip"
      BY Zenon, <1>6
    <3> QED
      BY Zenon, <1>2, <3>1, <3>2, <3>3 DEF HookInv, HookTypes
  <2>5. HookPlace'
    BY SMT, <1>2, <2>0, <2>1 DEF HookPlace
  <2>6. 3 \in Registers /\ 16 \in Registers
    BY SMT DEF Registers
  <2>7. /\ next = 1 => r = 3 /\ v = 255
        /\ next = 30 => r = 3 /\ v = 254
        /\ next = 20 => r = 16 /\ v = 79
    BY SMT, <1>3, <2>2 DEF BootWrites
  <2>8. w[next][1] = r
    BY SMT, <2>2
  <2>9. /\ next \in 2..29 => r # 3
        /\ next \in 21..30 => r # 16
    BY Zenon, <1>2, <1>3, <2>8, OneRegisterEach
  <2>10. ChipFollows'
    BY SMT, <1>2, <2>0, <2>3, <2>6, <2>7, <2>9 DEF HookInv, ChipFollows
  <2>11. CrystalFollows'
    BY Zenon, <1>2, <1>4, <2>5, <1>6 DEF CrystalFollows, HookInv
  <2>12. DividersFollow'
    <3>1. Loaded(regs, B, next)
      BY Zenon, <1>1 DEF HookInv, DividersFollow
    <3>2. PICK h : h = regs'
      OBVIOUS
    <3>3. h = [regs EXCEPT ![r] = v] /\ regs \in [Registers -> 0..255]
      BY Zenon, <2>3, <3>2
    <3>4. next \in 1..30
      BY Zenon, <1>2
    <3>5. Loaded(h, B, next + 1)
      BY Zenon, <1>3, <2>2, <3>1, <3>3, <3>4, WriteLoads
    <3>6. next' # 1
      BY SMT, <2>0, <3>4
    <3> QED
      BY Zenon, <1>4, <2>0, <3>2, <3>5, <3>6 DEF DividersFollow
  <2> QED
    BY <2>4, <2>5, <2>10, <2>11, <2>12 DEF HookInv
<1> QED
  BY Zenon, <1>1, <1>5, <1>6 DEF WriteRegister

(* The next boot finds what this one has left.                             *)
LEMMA RebootKeepsHook ==
    ASSUME HookInv, Reboot
    PROVE  HookInv'
<1>1. boots' \in 1..MaxBoots
  BY SMT, ClockChipAssumption DEF Reboot, HookInv, HookTypes
<1>2. /\ next' = 1 /\ bpc' = "eeprom" /\ xref' = XREF_FREQ /\ clkref' = FALSE
      /\ regs' = regs /\ refclock' = refclock
  BY Zenon DEF Reboot
<1>3. 1 \in 1..31
  BY SMT
<1>4. HookTypes'
  BY Zenon, <1>1, <1>2, <1>3 DEF HookInv, HookTypes
<1>5. HookPlace' /\ ChipFollows'
  BY SMT, <1>2 DEF HookPlace, ChipFollows
<1>6. CrystalFollows'
  BY Zenon, <1>2 DEF CrystalFollows
<1>7. CrystalBytes' = CrystalBytes
  BY Zenon, <1>2 DEF CrystalBytes, Crystal
<1>8. regs[3] % 2 = 0 => regs[16] = 79 /\ Loaded(regs, CrystalBytes, 31)
  <2>1. CASE next = 1
    BY Zenon, <2>1 DEF HookInv, DividersFollow
  <2>2. CASE next \in 2..30
    BY SMT, <2>2 DEF HookInv, ChipFollows
  <2>3. CASE next = 31
    <3>1. regs[16] = 79
      BY SMT, <2>3 DEF HookInv, ChipFollows
    <3> QED
      BY Zenon, <2>3, <3>1 DEF HookInv, DividersFollow
  <2> QED
    BY SMT, <2>1, <2>2, <2>3 DEF HookInv, HookTypes
<1>9. DividersFollow'
  <2>1. Loaded(regs, CrystalBytes, 1)
    BY Zenon, NothingLoaded
  <2>2. Loaded(regs', CrystalBytes', next')
    BY Zenon, <1>2, <1>7, <2>1
  <2>3. regs'[3] % 2 = 0 => regs'[16] = 79 /\ Loaded(regs', CrystalBytes', 31)
    BY Zenon, <1>2, <1>7, <1>8
  <2> QED
    BY Zenon, <2>2, <2>3 DEF DividersFollow
<1> QED
  BY <1>4, <1>5, <1>6, <1>9 DEF HookInv

LEMMA HookSteps == HookInv /\ [BootNext]_chipVars => HookInv'
<1> SUFFICES ASSUME HookInv, [BootNext]_chipVars PROVE HookInv'
  OBVIOUS
<1>0. ASSUME UNCHANGED <<refclock, next, regs>> PROVE DividersFollow'
  <2>1. CrystalBytes' = CrystalBytes
    BY Zenon, <1>0 DEF CrystalBytes, Crystal
  <2> QED
    BY Zenon, <1>0, <2>1 DEF HookInv, DividersFollow
<1>1. CASE ReadEeprom
  <2>1. HookTypes' /\ HookPlace' /\ ChipFollows'
    BY SMT, <1>1 DEF ReadEeprom, HookInv, HookTypes, HookPlace, ChipFollows, NoRefclock
  <2>2. CrystalFollows'
    BY Zenon, <1>1 DEF ReadEeprom, HookInv, CrystalFollows, Crystal
  <2> QED
    BY Zenon, <1>0, <1>1, <2>1, <2>2 DEF ReadEeprom, HookInv
<1>2. CASE EnableCrystal
  <2>1. HookTypes'
    BY Zenon, <1>2 DEF EnableCrystal, HookInv, HookTypes
  <2>2. HookPlace' /\ ChipFollows'
    BY SMT, <1>2 DEF EnableCrystal, HookInv, HookTypes, HookPlace, ChipFollows
  <2>3. CrystalFollows'
    BY Zenon, <1>2 DEF EnableCrystal, HookInv, CrystalFollows, Crystal
  <2> QED
    BY Zenon, <1>0, <1>2, <2>1, <2>2, <2>3 DEF EnableCrystal, HookInv
<1>3. CASE WriteRegister
  BY <1>3, WriteKeepsHook
<1>4. CASE Reboot
  BY <1>4, RebootKeepsHook
<1>5. CASE UNCHANGED chipVars
  <2>1. HookTypes' /\ HookPlace' /\ ChipFollows'
    BY SMT, <1>5 DEF chipVars, HookInv, HookTypes, HookPlace, ChipFollows
  <2>2. CrystalFollows'
    BY Zenon, <1>5 DEF chipVars, HookInv, CrystalFollows, Crystal
  <2> QED
    BY Zenon, <1>0, <1>5, <2>1, <2>2 DEF chipVars, HookInv
<1> QED
  BY <1>1, <1>2, <1>3, <1>4, <1>5 DEF BootNext

-----------------------------------------------------------------------------
(* Once the dividers of the clock are in the chip, the chip is in tune.    *)

(* The multiplier of the PLL is between 4 and 36.                          *)
LEMMA MultiplierFits ==
    ASSUME NEW x \in Int, CrystalRange(x), NEW t \in Int, NEW a \in Int, NEW b \in Int,
           NEW c \in Int, Divisions(x, 6 * freq_set, t, a, b, c)
    PROVE  a \in 4..36
<1>1. PICK n \in Int, lo \in Int, hi \in Int :
        /\ n = 6 * freq_set /\ lo = 20480000 /\ hi = 25165824
        /\ lo > 0 /\ n < 37 * lo /\ n >= 4 * hi
  BY SMT DEF freq_set
<1>2. PICK r \in Int : n = a * x + r /\ 0 <= r /\ r < x
  <2>1. n = 6 * freq_set
    BY SMT, <1>1
  <2> QED
    BY Zenon, <2>1 DEF Divisions
<1>3. lo <= x /\ x < hi
  BY SMT, <1>1 DEF CrystalRange, Mega
<1>4. a <= 36
  <2> SUFFICES ASSUME a >= 37 PROVE FALSE
    BY SMT
  <2>1. a * x >= 37 * x
    BY SMT, <1>1, <1>3
  <2>2. PICK ax \in Int : ax = a * x
    BY SMT
  <2> QED
    BY SMT, <1>1, <1>2, <1>3, <2>1, <2>2
<1>5. a >= 4
  <2> SUFFICES ASSUME a <= 3 PROVE FALSE
    BY SMT
  <2>1. a * x <= 3 * x
    BY SMT, <1>1, <1>3
  <2>2. PICK ax \in Int : ax = a * x
    BY SMT
  <2> QED
    BY SMT, <1>1, <1>2, <1>3, <2>1, <2>2
<1> QED
  BY SMT, <1>4, <1>5

(* The numbers that the chip finds in its registers.                       *)
LEMMA RegistersJoin ==
    ASSUME NEW B, Loaded(regs, B, 31)
    PROVE  /\ P1(26) = JoinedP(B) /\ P2(26) = JoinedQ(B) /\ P3(26) = JoinedR(B)
           /\ P1(42) = JoinedP(OutputBytes) /\ P2(42) = JoinedQ(OutputBytes)
           /\ regs[44] \div 4 = DivBy4(OutputBytes)
<1>1. PICK C : C = OutputBytes
  OBVIOUS
<1>2. \A j \in 1..8 : 10 + j < 31 /\ 20 + j < 31
  BY SMT
<1>3. \A j \in 1..8 : regs[26 + (j - 1)] = B[j] /\ regs[42 + (j - 1)] = C[j]
  BY Zenon, <1>1, <1>2 DEF Loaded
<1>4. /\ regs[26] = B[1] /\ regs[27] = B[2] /\ regs[28] = B[3] /\ regs[29] = B[4]
      /\ regs[30] = B[5] /\ regs[31] = B[6] /\ regs[32] = B[7] /\ regs[33] = B[8]
  BY SMT, <1>3
<1>5. /\ regs[42] = C[1] /\ regs[43] = C[2] /\ regs[44] = C[3] /\ regs[45] = C[4]
      /\ regs[46] = C[5] /\ regs[47] = C[6] /\ regs[48] = C[7] /\ regs[49] = C[8]
  BY SMT, <1>3
<1>6. /\ 26 + 1 = 27 /\ 26 + 2 = 28 /\ 26 + 3 = 29 /\ 26 + 4 = 30
      /\ 26 + 5 = 31 /\ 26 + 6 = 32 /\ 26 + 7 = 33
      /\ 42 + 2 = 44 /\ 42 + 3 = 45 /\ 42 + 4 = 46
      /\ 42 + 5 = 47 /\ 42 + 6 = 48 /\ 42 + 7 = 49
  BY SMT
<1>7. P1(26) = JoinedP(B) /\ P1(42) = JoinedP(C)
  BY SMT, <1>4, <1>5 DEF P1, JoinedP
<1>8. P2(26) = JoinedQ(B) /\ P2(42) = JoinedQ(C)
  BY SMT, <1>4, <1>5 DEF P2, JoinedQ
<1>9. P3(26) = JoinedR(B)
  BY SMT, <1>4 DEF P3, JoinedR
<1>10. regs[44] \div 4 = DivBy4(C)
  BY SMT, <1>5 DEF DivBy4
<1> QED
  BY Zenon, <1>1, <1>7, <1>8, <1>9, <1>10

LEMMA LoadedIsInTune ==
    ASSUME HookTypes, Loaded(regs, CrystalBytes, 31)
    PROVE  InTune
<1>1. PICK x : x = Crystal
  OBVIOUS
<1>2. x \in RefClocks \cup {XREF_FREQ}
  BY Zenon, <1>1, CrystalIsKnown
<1>3. /\ x \in Nat /\ x \in Int
      /\ x \div Mega + 1 \in Int /\ x \div Mega + 1 <= 24
  BY SMT, <1>2, CrystalIsFast
<1>4. PICK t \in Int : t = x \div Mega + 1 /\ t <= 24
  BY Zenon, <1>3
<1>5. PICK a \in Int, b \in Int, c \in Int :
        /\ Divisions(x, 6 * freq_set, t, a, b, c)
        /\ c < Mega
        /\ Calc(freq_set, x) = [conf |-> [a |-> a, b |-> b, c |-> c,
                                          x |-> 6, y |-> 0, z |-> 1],
                                rdiv |-> 0]
  BY Zenon, <1>2, <1>4, DividersOfTheClock
<1>6. c > 0 /\ a >= 0 /\ b >= 0
  BY Zenon, <1>5 DEF Divisions
<1>7. a \in 4..36 /\ b <= c
  <2>1. CrystalRange(x)
    BY Zenon, <1>2, CrystalInRange
  <2>2. a \in 4..36
    BY Zenon, <1>3, <1>5, <2>1, MultiplierFits
  <2>3. 6 * freq_set \in Int
    BY SMT DEF freq_set
  <2>4. b <= c
    BY Zenon, <1>3, <1>5, <2>3, RemainderFits
  <2> QED
    BY <2>2, <2>4
<1>8. PICK d \in Int, q \in Int : d = (128 * b) \div c /\ q = (128 * b) % c
  BY SMT, <1>6
<1>9. 128 * b = d * c + q /\ 0 <= q /\ q < c
  BY SMT, <1>6, <1>8, DivMod
<1>10. d \in 0..128
  <2>1. d >= 0
    <3> SUFFICES ASSUME d <= -1 PROVE FALSE
      BY SMT
    <3>1. d * c <= -c
      BY SMT, <1>6
    <3>2. PICK dc \in Int : dc = d * c
      BY SMT
    <3> QED
      BY SMT, <1>6, <1>9, <3>1, <3>2
  <2>2. d <= 128
    <3> SUFFICES ASSUME d >= 129 PROVE FALSE
      BY SMT
    <3>1. d * c >= 129 * c
      BY SMT, <1>6
    <3>2. PICK dc \in Int : dc = d * c
      BY SMT
    <3> QED
      BY SMT, <1>6, <1>7, <1>9, <3>1, <3>2
  <2> QED
    BY SMT, <2>1, <2>2
<1>11. PICK m \in Int, p \in Int : m = 128 * a + d /\ p = m - 512
  BY SMT
<1>12. Fits18(p) /\ Fits20(q) /\ Fits20(c)
  <2>1. p \in 0..4224
    <3>1. 4 <= a /\ a <= 36
      BY SMT, <1>7
    <3>2. 0 <= d /\ d <= 128
      BY SMT, <1>10
    <3>3. p = 128 * a + d - 512
      BY SMT, <1>11
    <3>4. 0 <= p /\ p <= 4224
      BY SMT, <3>1, <3>2, <3>3
    <3> QED
      BY SMT, <3>4
  <2>2. c < 1048576 /\ c \in Nat /\ q \in Nat
    BY SMT, <1>5, <1>6, <1>9 DEF Mega
  <2> QED
    BY SMT, <1>9, <2>1, <2>2 DEF Fits18, Fits20
<1>13. CrystalBytes = Bytes(p, q, c)
  <2>1. PICK k : k = [a |-> a, b |-> b, c |-> c, x |-> 6, y |-> 0, z |-> 1]
    OBVIOUS
  <2>2. Calc(freq_set, x).conf = k
    BY SMT, <1>5, <2>1
  <2>3. k.a = a /\ k.b = b /\ k.c = c
    BY SMT, <2>1
  <2>4. PLLRest(k) = q
    BY SMT, <1>8, <2>3 DEF PLLRest
  <2>5. PLLPart1(k) = p
    BY SMT, <1>8, <1>11, <2>3 DEF PLLPart1, PLLSteps
  <2>6. PLLBytes(k) = Bytes(p, q, c)
    BY Zenon, <2>3, <2>4, <2>5 DEF PLLBytes
  <2> QED
    BY Zenon, <1>1, <2>2, <2>6 DEF CrystalBytes
<1>14. P1(26) = p /\ P2(26) = q /\ P3(26) = c
  <2> PICK B : B = CrystalBytes
    OBVIOUS
  <2>1. P1(26) = JoinedP(B) /\ P2(26) = JoinedQ(B) /\ P3(26) = JoinedR(B)
    BY Zenon, RegistersJoin
  <2>2. /\ JoinedP(Bytes(p, q, c)) = p /\ JoinedQ(Bytes(p, q, c)) = q
        /\ JoinedR(Bytes(p, q, c)) = c
    BY Zenon, <1>12, BytesJoin
  <2>3. B = Bytes(p, q, c)
    BY Zenon, <1>13
  <2> QED
    BY Zenon, <2>1, <2>2, <2>3
<1>15. IntegerOutput /\ OutputDivider = 6
  <2>1. PICK p0, q0, r0 : p0 = 256 /\ q0 = 0 /\ r0 = 1
    OBVIOUS
  <2>2. Fits18(p0) /\ Fits20(q0) /\ Fits20(r0)
    BY SMT, <2>1 DEF Fits18, Fits20
  <2>3. OutputBytes = Bytes(p0, q0, r0)
    BY SMT, <2>1 DEF OutputBytes
  <2> PICK C : C = OutputBytes
    OBVIOUS
  <2>4. /\ P1(42) = JoinedP(C) /\ P2(42) = JoinedQ(C)
        /\ regs[44] \div 4 = DivBy4(C)
    BY Zenon, RegistersJoin
  <2>5. JoinedP(C) = p0 /\ JoinedQ(C) = q0 /\ DivBy4(C) = 0
    BY Zenon, <2>2, <2>3, BytesJoin
  <2>6. P1(42) = p0 /\ P2(42) = q0 /\ regs[44] \div 4 = 0
    BY Zenon, <2>4, <2>5
  <2> QED
    BY SMT, <2>1, <2>6 DEF IntegerOutput, OutputDivider
<1>16. Multiplier = m
  BY SMT, <1>11, <1>14 DEF Multiplier
<1>17. PICK n \in Int : n = 6 * freq_set
  BY SMT DEF freq_set
<1>18. Small(Excess(x, m, q, c, n))
  <2>1. Divisions(x, n, t, a, b, c)
    BY Zenon, <1>5, <1>17
  <2>2. Registered(m, q, a, b, c)
    BY SMT, <1>8, <1>11 DEF Registered
  <2> QED
    BY Zenon, <1>3, <1>4, <2>1, <2>2, ErrorOfDivisions
<1>19. ClockError = Excess(x, m, q, c, n)
  BY Zenon, <1>1, <1>14, <1>15, <1>16, <1>17 DEF ClockError
<1>20. -6 * 6 <= ClockError /\ ClockError < 6 * 6
  BY SMT, <1>18, <1>19 DEF Small
<1> QED
  BY Zenon, <1>15, <1>20 DEF InTune

LEMMA HookIsRight == HookInv => BootTypeOK /\ RightClock
<1> SUFFICES ASSUME HookInv PROVE BootTypeOK /\ RightClock
  OBVIOUS
<1>1. Len(Writes(xref)) = 30
  <2>1. BootWrites(Writes(xref), PLLBytes(Calc(freq_set, xref).conf))
    BY Zenon, WritesOfABoot DEF HookInv, HookTypes
  <2> QED
    BY SMT, <2>1 DEF BootWrites, Sent
<1>2. BootTypeOK
  BY SMT, <1>1 DEF HookInv, HookTypes, BootTypeOK
<1>3. SilentUntilSetUp
  BY SMT, <1>1 DEF HookInv, HookTypes, ChipFollows, SilentUntilSetUp, Output0On
<1>4. bpc = "up" => Output0On /\ clkref
  BY SMT DEF HookInv, HookPlace, ChipFollows, Output0On
<1>5. ASSUME Output0On PROVE InTune
  <2>1. next = 1 \/ next = 31
    BY SMT, <1>5 DEF HookInv, HookTypes, ChipFollows, Output0On
  <2>2. regs[3] % 2 = 0
    BY Zenon, <1>5 DEF Output0On
  <2>3. Loaded(regs, CrystalBytes, 31)
    BY Zenon, <2>1, <2>2 DEF HookInv, DividersFollow
  <2> QED
    BY Zenon, <2>3, LoadedIsInTune DEF HookInv
<1> QED
  BY Zenon, <1>2, <1>3, <1>4, <1>5 DEF RightClock

(* The chip and the hook are changed only as ClockChip says.               *)
LEMMA BoardStepsOfHook ==
    [BoardNext]_boardVars => [BootNext]_chipVars
  BY DEF BoardNext, boardVars, Boot, PowerCycle, Loads, Linux, BootNext

(* Through failed I2C transfers and boots that find the chip half          *)
(* programmed, SetMacAddress() and the Si5351 driver of                    *)
(* patches/red_pitaya_fsbl_hooks.c are where HookPlace says, and every     *)
(* register that matters holds what the writes so far have put there, or,  *)
(* when the output is on as a boot begins, what an earlier boot has.       *)
THEOREM HookInvariant == BoardSpec => []HookInv
<1>1. BoardInit => HookInv
  BY HookStarts DEF BoardInit
<1>2. HookInv /\ [BoardNext]_boardVars => HookInv'
  BY BoardStepsOfHook, HookSteps
<1> QED
  BY <1>1, <1>2, PTL DEF BoardSpec

(* The output of the clock chip is silent from the first write of a boot   *)
(* to the last, within 6 Hz of freq_set whenever it is on, and Linux runs  *)
(* only with the output and the crystal on.                                *)
THEOREM ClockIsRight == BoardSpec => []RightClock
<1>1. HookInv => RightClock
  BY HookIsRight
<1> QED
  BY <1>1, HookInvariant, PTL

(* Every variable of the board has its type.                               *)
THEOREM BoardTypes == BoardSpec => []BoardTypeOK
<1>1. HookInv /\ DevcfgInv /\ ClocksInv => BoardTypeOK
  BY HookIsRight, StoredStaysStored, BalancedIsBalanced DEF BoardTypeOK
<1> QED
  BY <1>1, HookInvariant, DevcfgInvariant, ClocksInvariant, PTL

=============================================================================
