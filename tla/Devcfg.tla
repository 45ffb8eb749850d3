-------------------------------- MODULE Devcfg --------------------------------
(***************************************************************************)
(* The driver of the Zynq's device configuration port, which loads a bit   *)
(* stream into the programmable logic (PL): patches/xilinx_devcfg.c, the   *)
(* calls of /dev/xdevcfg and the interrupt handler, with the hardware that *)
(* they drive, and the start.sh of the applications, which is              *)
(*                                                                         *)
(*     stop all servers; cat app.bit > /dev/xdevcfg; app-server &          *)
(*                                                                         *)
(* A byte of a bit stream is its offset in the file.  A file begins with a *)
(* header that is no part of the design, then comes the sync word.         *)
(*                                                                         *)
(* Each behaviour has at most one kind of trouble, chosen at the start:    *)
(* slow DMA transfers, errors, a change of is_partial_bitstream, or of     *)
(* another setting; with "stores" there are settings only, no loads.  The  *)
(* module Board adds resets of the board, and with "clocks" the attributes *)
(* of the PL's clocks instead of loads.                                    *)
(***************************************************************************)
EXTENDS Integers, Sequences, FiniteSets

CONSTANTS
    Apps,         \* the applications
    Readers,      \* processes that read the configuration back
    Swapped,      \* applications whose bit stream has the swapped sync word
    HeaderLen,    \* offset of the sync word in a file
    FileLen,      \* bytes of a file
    Block,        \* Block[p]: bytes that p's cat writes at a time
    Nobody,       \* a model value
    MaxQueue,     \* bound: a call gives up on at most so many commands
    Troubles      \* kinds of trouble there may be

Procs == Apps \cup Readers

(* Files are longer than a block, the first of which has the whole header. *)
ASSUME DevcfgAssumption ==
    /\ Swapped \subseteq Apps /\ Apps \cap Readers = {} /\ Nobody \notin Procs
    /\ HeaderLen \in Nat /\ FileLen \in Nat /\ Block \in [Procs -> Nat]
    /\ \A p \in Procs : HeaderLen + 4 < Block[p] /\ Block[p] <= FileLen
    /\ (FileLen - HeaderLen) % 4 = 0
    /\ MaxQueue \in Nat
    /\ Troubles \subseteq {"none", "slow", "errors", "partial", "settings",
                            "stores", "reboot", "clocks"}

VARIABLES
    isOpen, sem, clk,        \* is_open; who holds the mutex; clk_enable() count
    partial, swap,           \* is_partial_bitstream, endian_swap
    residue,                 \* residue_buf: whose bytes, and residue_len
    dmaDone, errorStatus,
    ctrl,                    \* the bits set in the control register
    sts, enabled, handling,  \* interrupt flags; not masked; seen by the handler
    dma,                     \* commands queued in the DMA engine
    initb,                   \* PCFG_INIT
    pl,                      \* the design loaded, and how far
    rst, lvl,                \* SLCR: PL resets asserted, level shifters
    pc, pos, snap,           \* a process: its place, *ppos, a register it read
    running,                 \* the servers that run
    trouble,                 \* what may go wrong; no step changes it
    clean,                   \* history: nothing did, since the last full reset
    stale,                   \* history: a register was written from an old reading
    alone,                   \* history: no other start.sh met this one
    seen                     \* history: the handler saw an error flag

driver   == <<isOpen, sem, clk, partial, swap, residue, dmaDone, errorStatus>>
hardware == <<ctrl, sts, enabled, handling, dma, initb, pl, rst, lvl>>
history  == <<trouble, clean, stale, alone, seen>>
devVars  == <<driver, hardware, pc, pos, snap, running, history>>

Empty == [of |-> Nobody, got |-> 0]
Junk  == [of |-> Nobody, got |-> 1]
Whole(p) == [of |-> p, got |-> FileLen]

DevInit ==
    /\ isOpen = FALSE /\ sem = Nobody /\ clk = 0
    /\ partial = FALSE /\ swap = FALSE /\ residue = [of |-> Nobody, len |-> 0]
    /\ dmaDone = FALSE /\ errorStatus = FALSE
    /\ ctrl = {"PROG_B", "MODE"} /\ sts = {} /\ enabled = FALSE /\ handling = {}
    /\ dma = <<>> /\ initb = TRUE /\ pl = Empty /\ rst = TRUE /\ lvl = "off"
    /\ pc = [p \in Procs |-> "idle"] /\ pos = [p \in Procs |-> 0]
    /\ snap = [p \in Procs |-> {}] /\ running = {}
    /\ trouble \in Troubles
    /\ clean = TRUE /\ stale = FALSE
    /\ alone = [p \in Procs |-> TRUE] /\ seen = FALSE

(* The processor is reset: the driver starts afresh, on a PL that is empty. *)
DevReset ==
    /\ isOpen' = FALSE /\ sem' = Nobody /\ clk' = 0
    /\ partial' = FALSE /\ swap' = FALSE /\ residue' = [of |-> Nobody, len |-> 0]
    /\ dmaDone' = FALSE /\ errorStatus' = FALSE
    /\ ctrl' = {"PROG_B", "MODE"} /\ sts' = {} /\ enabled' = FALSE /\ handling' = {}
    /\ dma' = <<>> /\ initb' = TRUE /\ pl' = Empty /\ rst' = TRUE /\ lvl' = "off"
    /\ pc' = [p \in Procs |-> "idle"] /\ pos' = [p \in Procs |-> 0]
    /\ snap' = [p \in Procs |-> {}] /\ running' = {}
    /\ clean' = TRUE /\ stale' = FALSE
    /\ alone' = [p \in Procs |-> TRUE] /\ seen' = FALSE
    /\ UNCHANGED trouble

Goto(p, from, to) == pc[p] = from /\ pc' = [pc EXCEPT ![p] = to]

(* A system call ends: mutex and clock are given back.                     *)
Return_KeepsClock == sem' = Nobody /\ UNCHANGED clk
Return == sem' = Nobody /\ clk' = clk - 1

-----------------------------------------------------------------------------
(* start.sh begins: stop.sh ends all servers, and cat opens the device.    *)
Start(p) ==
    /\ Goto(p, "idle", "openSem")
    /\ trouble \notin {"stores", "clocks"}
    /\ clk' = clk + 1
    /\ running' = {}
    /\ LET others == {q \in Procs \ {p} : pc[q] # "idle"}
       IN  alone' = [q \in Procs |-> IF q = p THEN others = {}
                                     ELSE q \notin others /\ alone[q]]
    /\ UNCHANGED <<isOpen, sem, partial, swap, residue, dmaDone, errorStatus>>
    /\ UNCHANGED <<hardware, pos, snap, trouble, clean, stale, seen>>

(* A signal ends the wait for the mutex, and cat.                          *)
Interrupted(p) ==
    /\ sem # Nobody
    /\ \/ Goto(p, "openSem", "run")
       \/ Goto(p, "sem", "release")
    /\ clk' = clk - 1
    /\ clean' = (clean /\ pc[p] = "openSem")
    /\ UNCHANGED <<isOpen, sem, partial, swap, residue, dmaDone, errorStatus>>
    /\ UNCHANGED <<hardware, pos, snap, running, trouble, stale, alone, seen>>

(* xdevcfg_open(): the device is in use.                                   *)
OpenBusy(p) ==
    /\ Goto(p, "openSem", "run")
    /\ sem = Nobody /\ isOpen
    /\ clk' = clk - 1
    /\ UNCHANGED <<isOpen, sem, partial, swap, residue, dmaDone, errorStatus>>
    /\ UNCHANGED <<hardware, pos, snap, running, history>>

(* No interrupt and no DMA command of an earlier load is under way.        *)
Quiet == dma = <<>> /\ handling = {} /\ (sts = {} \/ ~enabled)

NoResidue_Kept == residue
NoResidue == [of |-> Nobody, len |-> 0]

Open(p) ==
    /\ Goto(p, "openSem", IF partial THEN "prRead" ELSE "preload")
    /\ sem = Nobody /\ ~isOpen
    /\ sem' = p /\ isOpen' = TRUE
    /\ swap' = FALSE /\ residue' = NoResidue
    /\ clean' = (Quiet /\ ~partial)
    /\ UNCHANGED <<clk, partial, dmaDone, errorStatus>>
    /\ UNCHANGED <<hardware, pos, snap, running, trouble, stale, alone, seen>>

(* zynq_slcr_init_preload_fpga(), and the second look at the flag.         *)
Preload(p) ==
    /\ \/ Goto(p, "preload", "shiftersOff") /\ rst' = TRUE /\ UNCHANGED lvl
       \/ Goto(p, "shiftersOff", "shiftersOut") /\ lvl' = "off" /\ UNCHANGED rst
       \/ /\ Goto(p, "shiftersOut", IF partial THEN "opened" ELSE "lowRead")
          /\ lvl' = "out" /\ UNCHANGED rst
    /\ UNCHANGED <<ctrl, sts, enabled, handling, dma, initb, pl>>
    /\ UNCHANGED <<driver, pos, snap, running, history>>

(* A control register is read, and written later.                          *)
ReadCtrl(p, from, to) ==
    /\ Goto(p, from, to)
    /\ snap' = [snap EXCEPT ![p] = ctrl]

WriteCtrl(p, from, to, bits) ==
    /\ Goto(p, from, to)
    /\ ctrl' = bits
    /\ snap' = [snap EXCEPT ![p] = {}]
    /\ stale' = (stale \/ snap[p] # ctrl)
    /\ clean' = (clean /\ snap[p] = ctrl)
    /\ UNCHANGED <<sts, enabled, handling, dma, initb, pl, rst, lvl>>
    /\ UNCHANGED <<driver, pos, running, trouble, alone, seen>>

(* xdevcfg_enable_partial().                                               *)
EnablePartial(p) ==
    \/ ReadCtrl(p, "prRead", "prWrite")
       /\ UNCHANGED <<driver, hardware, pos, running, history>>
    \/ WriteCtrl(p, "prWrite", IF partial THEN "opened" ELSE "lowRead",
                 snap[p] \cup {"PR"})

(* xdevcfg_reset_pl(): a falling and a rising edge of PCFG_INIT, which     *)
(* follows PCFG_PROG_B.                                                    *)
Low(bits) == bits \ {"PROG_B"}
High_Forgets(bits) == {"PROG_B", "MODE"}
High_StaysLow(bits) == Low(bits)
High(bits) == bits \cup {"PROG_B"}

ResetPL(p) ==
    \/ /\ \/ ReadCtrl(p, "lowRead", "lowWrite")
          \/ ReadCtrl(p, "highRead", "highWrite")
       /\ UNCHANGED <<driver, hardware, pos, running, history>>
    \/ WriteCtrl(p, "lowWrite", "lowWait", Low(snap[p]))
    \/ WriteCtrl(p, "highWrite", "highWait", High(snap[p]))
    \/ /\ \/ Goto(p, "lowWait", "highRead") /\ ~initb
          \/ Goto(p, "highWait", "opened") /\ initb
       /\ UNCHANGED <<driver, hardware, pos, snap, running, history>>

Opened(p) ==
    /\ Goto(p, "opened", "call")
    /\ Return
    /\ UNCHANGED <<isOpen, partial, swap, residue, dmaDone, errorStatus>>
    /\ UNCHANGED <<hardware, pos, snap, running, history>>

-----------------------------------------------------------------------------
(* cat writes the next block, or reads; at the end it closes the device.   *)
More(p) == pos[p] < IF p \in Readers THEN 1 ELSE FileLen

Call(p) ==
    /\ \/ Goto(p, "call", "sem") /\ More(p) /\ clk' = clk + 1
       \/ Goto(p, "call", "release") /\ ~More(p) /\ UNCHANGED clk
    /\ UNCHANGED <<isOpen, sem, partial, swap, residue, dmaDone, errorStatus>>
    /\ UNCHANGED <<hardware, pos, snap, running, history>>

Lock(p) ==
    /\ Goto(p, "sem", IF p \in Readers THEN "forget" ELSE "unmask")
    /\ sem = Nobody /\ sem' = p
    /\ UNCHANGED <<isOpen, clk, partial, swap, residue, dmaDone, errorStatus>>
    /\ UNCHANGED <<hardware, pos, snap, running, history>>

(* No memory for the buffer, or the user's buffer is not there.            *)
Refuse(p) ==
    /\ trouble = "errors"
    /\ Goto(p, IF p \in Readers THEN "forget" ELSE "unmask", "release")
    /\ Return
    /\ clean' = FALSE
    /\ UNCHANGED <<isOpen, partial, swap, residue, dmaDone, errorStatus>>
    /\ UNCHANGED <<hardware, pos, snap, running, trouble, stale, alone, seen>>

(* dma_done = 0 and error_status = 0.                                      *)
Forget_KeepsDone == errorStatus' = FALSE /\ UNCHANGED dmaDone
Forget == dmaDone' = FALSE /\ errorStatus' = FALSE

(* The interrupts are cleared and enabled.                                 *)
Unmask(p) ==
    /\ Goto(p, "unmask", IF p \in Readers THEN "readback" ELSE "transfer")
    /\ sts' = {} /\ enabled' = TRUE
    /\ UNCHANGED <<ctrl, handling, dma, initb, pl, rst, lvl>>
    /\ UNCHANGED <<driver, pos, snap, running, history>>

-----------------------------------------------------------------------------
(* xdevcfg_write(): the bytes to send, from the first that is not header.  *)
Count(p) == IF Block[p] <= FileLen - pos[p] THEN Block[p] ELSE FileLen - pos[p]

(* The search for the sync word ends four bytes before the end.            *)
HasHeader(p) ==
    LET count == Count(p) + residue.len
    IN  pos[p] = 0 /\ count > 4 /\ HeaderLen < count - 4

First(p) == IF HasHeader(p) THEN HeaderLen ELSE pos[p] - residue.len

(* Whole words are sent; up to three bytes wait for the next call.         *)
Stragglers(p) == (pos[p] + Count(p) - First(p)) % 4

(* Under the mutex, the buffer is made up, and then the DMA is started.    *)
Transfer(p) ==
    /\ Goto(p, "transfer", "wait")
    /\ Forget
    /\ swap' = IF HasHeader(p) THEN p \in Swapped ELSE swap
    /\ residue' = [of |-> p, len |-> Stragglers(p)]
    /\ dma' = Append(dma, [of |-> p, live |-> TRUE, from |-> First(p),
                           to |-> pos[p] + Count(p) - Stragglers(p),
                           fits |-> /\ swap' = (p \in Swapped)
                                    /\ residue.len > 0 => residue.of = p])
    /\ seen' = FALSE
    /\ UNCHANGED <<isOpen, sem, clk, partial>>
    /\ UNCHANGED <<ctrl, sts, enabled, handling, initb, pl, rst, lvl>>
    /\ UNCHANGED <<pos, snap, running, trouble, clean, stale, alone>>

(* xdevcfg_read() resets its flags first, then enables the interrupts.     *)
ForgetFirst(p) ==
    /\ Goto(p, "forget", "unmask")
    /\ Forget
    /\ seen' = FALSE
    /\ UNCHANGED <<isOpen, sem, clk, partial, swap, residue>>
    /\ UNCHANGED <<hardware, pos, snap, running, trouble, clean, stale, alone>>

Readback(p) ==
    /\ Goto(p, "readback", "wait")
    /\ dma' = Append(dma, [of |-> p, live |-> TRUE, from |-> 0, to |-> 0,
                           fits |-> TRUE])
    /\ UNCHANGED <<ctrl, sts, enabled, handling, initb, pl, rst, lvl>>
    /\ UNCHANGED <<driver, pos, snap, running, history>>

(* dma_free_coherent(): what is still queued has lost its memory.          *)
Freed(p) == [i \in DOMAIN dma |-> IF dma[i].of = p THEN [dma[i] EXCEPT !.live = FALSE]
                                  ELSE dma[i]]

(* A second has passed.  The interrupts stay enabled.                      *)
Timeout(p) ==
    /\ Goto(p, "wait", "release")
    /\ ~dmaDone
    /\ (trouble = "slow" /\ Len(dma) <= MaxQueue) \/ (dma = <<>> /\ sts = {} /\ handling = {})
    /\ dma' = Freed(p)
    /\ Return
    /\ clean' = FALSE
    /\ UNCHANGED <<isOpen, partial, swap, residue, dmaDone, errorStatus>>
    /\ UNCHANGED <<ctrl, sts, enabled, handling, initb, pl, rst, lvl>>
    /\ UNCHANGED <<pos, snap, running, trouble, stale, alone, seen>>

Waited(p) ==
    /\ Goto(p, "wait", "finish")
    /\ dmaDone
    /\ UNCHANGED <<driver, hardware, pos, snap, running, history>>

(* *ppos moves by what the user gave, not by what was sent.                *)
Advance_WithStragglers(p) ==
    IF p \in Readers THEN 1 ELSE pos[p] + Count(p) + residue.len
Advance(p) == IF p \in Readers THEN 1 ELSE pos[p] + Count(p)

Finish(p) ==
    /\ Goto(p, "finish", IF errorStatus THEN "release" ELSE "call")
    /\ pos' = IF errorStatus THEN pos ELSE [pos EXCEPT ![p] = Advance(p)]
    /\ enabled' = FALSE
    /\ dma' = Freed(p)
    /\ Return
    /\ UNCHANGED <<isOpen, partial, swap, residue, dmaDone, errorStatus>>
    /\ UNCHANGED <<ctrl, sts, handling, initb, pl, rst, lvl>>
    /\ UNCHANGED <<snap, running, history>>

-----------------------------------------------------------------------------
(* xdevcfg_release(), without the mutex: the flag decides once more, and   *)
(* zynq_slcr_init_postload_fpga() opens the link.                          *)
PostloadLevel_AsPreload == "out"
PostloadLevel == "all"
Release(p) ==
    \/ /\ Goto(p, "release", IF partial THEN "prOff" ELSE "resetsOff")
       /\ IF partial THEN snap' = [snap EXCEPT ![p] = ctrl] /\ UNCHANGED lvl
                     ELSE lvl' = PostloadLevel /\ UNCHANGED snap
       /\ UNCHANGED <<ctrl, sts, enabled, handling, dma, initb, pl, rst>>
       /\ UNCHANGED <<driver, pos, running, history>>
    \/ WriteCtrl(p, "prOff", "close", snap[p] \ {"PR"})
    \/ /\ Goto(p, "resetsOff", "close")
       /\ rst' = FALSE
       /\ UNCHANGED <<ctrl, sts, enabled, handling, dma, initb, pl, lvl>>
       /\ UNCHANGED <<driver, pos, snap, running, history>>

Close(p) ==
    /\ Goto(p, "close", "run")
    /\ isOpen' = FALSE
    /\ UNCHANGED <<sem, clk, partial, swap, residue, dmaDone, errorStatus>>
    /\ UNCHANGED <<hardware, pos, snap, running, history>>

(* start.sh starts the server, whatever became of cat.                     *)
Run(p) ==
    /\ Goto(p, "run", "idle")
    /\ pos' = [pos EXCEPT ![p] = 0]
    /\ running' = running \cup ({p} \cap Apps)
    /\ UNCHANGED <<driver, hardware, snap, history>>

-----------------------------------------------------------------------------
(* xdevcfg_irq(): the flags are read and cleared, then acted upon.         *)
IrqEnter ==
    /\ enabled /\ sts # {} /\ handling = {}
    /\ handling' = sts /\ sts' = {}
    /\ seen' = (seen \/ sts \cap {"some", "all"} # {})
    /\ UNCHANGED <<ctrl, enabled, dma, initb, pl, rst, lvl>>
    /\ UNCHANGED <<driver, pc, pos, snap, running, trouble, clean, stale, alone>>

(* Only if all error flags are up is it an error.                          *)
IrqLeave ==
    /\ handling # {} /\ handling' = {}
    /\ dmaDone' = (dmaDone \/ "done" \in handling)
    /\ errorStatus' = (errorStatus \/ "all" \in handling)
    /\ UNCHANGED <<isOpen, sem, clk, partial, swap, residue>>
    /\ UNCHANGED <<ctrl, sts, enabled, dma, initb, pl, rst, lvl>>
    /\ UNCHANGED <<pc, pos, snap, running, history>>

(* The design grows by what comes next of it and nothing else; while       *)
(* PCFG_INIT is low nothing is taken.                                      *)
Grown(d) ==
    IF d.of \in Readers \/ ~initb THEN pl
    ELSE IF d.live /\ d.fits
            /\ ((pl = Empty /\ d.from = HeaderLen) \/ pl = [of |-> d.of, got |-> d.from])
         THEN [of |-> d.of, got |-> d.to]
         ELSE Junk

(* The DMA engine completes a command, or fails with some or all of the    *)
(* error flags, with or without the flag that says it is done.             *)
DmaRuns ==
    /\ dma # <<>> /\ dma' = Tail(dma)
    /\ \/ /\ sts' = sts \cup {"done"}
          /\ pl' = Grown(Head(dma))
          /\ UNCHANGED clean
       \/ /\ trouble = "errors"
          /\ \E flags \in {{"some"}, {"all"}, {"some", "done"}, {"all", "done"}} :
                sts' = sts \cup flags
          /\ pl' = IF Head(dma).of \in Readers \/ ~initb THEN pl ELSE Junk
          /\ clean' = FALSE
    /\ UNCHANGED <<ctrl, enabled, handling, initb, rst, lvl>>
    /\ UNCHANGED <<driver, pc, pos, snap, running, trouble, stale, alone, seen>>

(* PCFG_INIT follows PCFG_PROG_B; what was loaded is gone.                 *)
InitFollows ==
    /\ initb # ("PROG_B" \in ctrl)
    /\ initb' = ~initb
    /\ pl' = IF initb THEN Empty ELSE pl
    /\ UNCHANGED <<ctrl, sts, enabled, handling, dma, rst, lvl>>
    /\ UNCHANGED <<driver, pc, pos, snap, running, history>>

-----------------------------------------------------------------------------
InOpen(p) ==
    \/ Interrupted(p) \/ OpenBusy(p) \/ Open(p) \/ Preload(p)
    \/ EnablePartial(p) \/ ResetPL(p) \/ Opened(p)
InTransfer(p) ==
    \/ Call(p) \/ Lock(p) \/ Refuse(p) \/ ForgetFirst(p) \/ Unmask(p)
    \/ Transfer(p) \/ Readback(p) \/ Timeout(p) \/ Waited(p) \/ Finish(p)
InRelease(p) == Release(p) \/ Close(p) \/ Run(p)

Process(p) == InOpen(p) \/ InTransfer(p) \/ InRelease(p)
Irq == IrqEnter \/ IrqLeave
Hardware == DmaRuns \/ InitFollows
DevNext == (\E p \in Procs : Start(p) \/ Process(p)) \/ Irq \/ Hardware
=============================================================================
