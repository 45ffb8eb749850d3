-------------------------------- MODULE Board --------------------------------
(***************************************************************************)
(* The board from the first stage boot loader to the applications: once    *)
(* the loader has set up the clock of the converters it starts Linux,      *)
(* whose driver loads the design of the application that a page of the     *)
(* web server has asked for.  A reset may come at any time; it is a kind   *)
(* of trouble like the others.                                             *)
(***************************************************************************)
EXTENDS ClockChip, DevcfgSettings, FpgaClocks

boardVars == <<chipVars, devcfgVars, clockVars>>

(* Crystals other than the default one are looked at with resets only.     *)
BoardInit ==
    /\ BootInit /\ DevcfgInit /\ ClocksInit
    /\ refclock # NoRefclock => trouble = "reboot"

Boot ==
    /\ ReadEeprom \/ EnableCrystal \/ WriteRegister
    /\ UNCHANGED <<devcfgVars, clockVars>>

(* The processor's state is lost, and the design with it.                  *)
PowerCycle ==
    /\ trouble = "reboot"
    /\ Reboot
    /\ DevReset
    /\ UNCHANGED <<settingVars, clockVars>>

Linux(A) == bpc = "up" /\ A /\ UNCHANGED chipVars

Loads(A) == Linux(A) /\ UNCHANGED clockVars

BoardNext ==
    \/ Boot
    \/ PowerCycle
    \/ Loads(DevcfgNext)
    \/ trouble = "clocks" /\ Linux(ClocksNext) /\ UNCHANGED devcfgVars

(* A call that has the mutex goes on, and so does the hardware.            *)
HolderGoesOn == \E p \in Procs : sem = p /\ Process(p)

BoardFairness ==
    /\ WF_boardVars(Loads(HolderGoesOn /\ UNCHANGED settingVars))
    /\ WF_boardVars(Loads(Irq /\ UNCHANGED settingVars))
    /\ WF_boardVars(Loads(DmaRuns /\ UNCHANGED settingVars))
    /\ WF_boardVars(Loads(InitFollows /\ UNCHANGED settingVars))

BoardSpec == BoardInit /\ [][BoardNext]_boardVars
BoardLiveSpec == BoardSpec /\ BoardFairness

BoardTypeOK == BootTypeOK /\ DevcfgTypeOK /\ ClocksTypeOK
=============================================================================
