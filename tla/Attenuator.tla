------------------------------ MODULE Attenuator ------------------------------
(***************************************************************************)
(* The input attenuator and who sets it.  set_att_value() of peri.c shifts *)
(* a value bit by bit into a chip through three GPIO pins.  Two servers    *)
(* have a copy of peri.c:                                                  *)
(*                                                                         *)
(*   "hfdl"   hfdl-receiver.c: the loop raises the attenuation when the    *)
(*            ADC overflows and lowers it when it has not for a while;     *)
(*            its copy turns off the buffers of the pins' files            *)
(*   "hpsdr"  sdr-receiver-hpsdr.c: a client sets the attenuation; its     *)
(*            copy writes through buffered files, which stdio writes when  *)
(*            a buffer is full and when the process exits                  *)
(*                                                                         *)
(* The process may die at any moment and is started again; the pins and    *)
(* the chip keep their state then.                                         *)
(***************************************************************************)
EXTENDS Integers, Sequences

CONSTANTS
    BufSize,     \* bytes that stdio collects before it writes them
    Bits,        \* width of the chip's register, 6
    MaxAtt,      \* the highest attenuation, 63
    FirstAtt,    \* what the HFDL server starts with, 32
    OvfWait,     \* seconds from a change to a raise, 2
    CalmWait,    \* seconds from a change to a reduction, 5
    ClockSteps,  \* by how much chrony steps the clock of time()
    NoValue      \* nothing reported yet

ASSUME AttenuatorAssumption ==
    /\ BufSize \in Nat \ {0} /\ Bits \in Nat \ {0}
    /\ MaxAtt \in Nat /\ FirstAtt \in 0..MaxAtt /\ MaxAtt < 2^Bits
    /\ OvfWait \in Nat /\ CalmWait \in Nat /\ OvfWait <= CalmWait
    /\ ClockSteps \subseteq Int
    /\ NoValue \notin Nat

Pins == {"data", "clk", "le"}
Values == 0..MaxAtt
Registers == [0..(Bits - 1) -> {0, 1}]

VARIABLES
    server,    \* which of the two it is; no step changes it
    pins,      \* levels of the pins
    buffered,  \* bytes that wait in a pin's FILE
    shift,     \* the chip's shift register, its lowest bit first
    latch,     \* the register that is in effect
    pc,        \* "start", "writing", "idle" or "exiting"
    step,      \* the next write of set_att_value()
    att,       \* att of the loop; att_prev of process_ep2()
    age,       \* time(0) - lastatt
    ovf,       \* the overflow bit of wr_cntr
    reported   \* "Set attenuator to" this value, until another is being set

chip  == <<pins, shift, latch>>
vars  == <<server, chip, buffered, pc, step, att, age, ovf, reported>>

-----------------------------------------------------------------------------
Lower(a, b) == IF a < b THEN a ELSE b

(* Ages beyond the longest wait are all the same, and so are clocks that   *)
(* were set back further than AgeBound.                                    *)
AgeBound == 2
Older(d) == Lower(age + d, CalmWait + 1)

Bit(v, i) == IF (v \div 2^i) % 2 = 1 THEN 1 ELSE 0

(* The register that means a value.                                        *)
Register(v) == [i \in 0..(Bits - 1) |-> Bit(v, i)]

Shifted(reg, b) == [i \in 0..(Bits - 1) |-> IF i = 0 THEN b ELSE reg[i - 1]]

(* A level on a pin: the chip shifts on a rising clock, and passes its     *)
(* register on while the latch is enabled.                                 *)
SetPin(p, x) ==
    /\ pins' = [pins EXCEPT ![p] = x]
    /\ shift' = IF p = "clk" /\ x = 1 /\ pins.clk = 0
                THEN Shifted(shift, pins.data) ELSE shift
    /\ latch' = IF pins'.le = 1 THEN shift' ELSE latch

(* What set_att_value() writes, in order: three writes a bit, the highest  *)
(* bit first.                                                              *)
ShiftOut(b) == << <<"data", b>>, <<"clk", 1>>, <<"clk", 0>> >>

ShiftWrites_LowestFirst(v) ==
    [n \in 1..(3 * Bits) |-> ShiftOut(Bit(v, (n - 1) \div 3))[1 + ((n - 1) % 3)]]

ShiftWrites(v) ==
    [n \in 1..(3 * Bits) |->
        ShiftOut(Bit(v, Bits - 1 - ((n - 1) \div 3)))[1 + ((n - 1) % 3)]]

Writes_LatchOpen(v) ==
    << <<"clk", 0>> >> \o ShiftWrites(v) \o << <<"le", 1>> >>

Writes(v) ==
    << <<"clk", 0>>, <<"le", 0>> >> \o ShiftWrites(v) \o << <<"le", 1>> >>

Init ==
    /\ server \in {"hfdl", "hpsdr"}
    /\ pins \in [Pins -> {0, 1}]
    /\ buffered = [p \in Pins |-> 0]
    /\ shift \in Registers /\ latch \in Registers
    /\ pins.le = 1 => latch = shift
    /\ pc = "start" /\ step = 1 /\ att = 0
    /\ age = 0 /\ ovf \in BOOLEAN /\ (server = "hpsdr" => ~ovf)
    /\ reported = NoValue

-----------------------------------------------------------------------------
(* att_initial() makes the pins outputs, which pulls them low.  Then the   *)
(* HFDL server sets half the range; the HPSDR server believes in 0.        *)
Boot ==
    /\ pc = "start"
    /\ pins' = [p \in Pins |-> 0]
    /\ att' = IF server = "hfdl" THEN FirstAtt ELSE 0
    /\ pc' = IF server = "hfdl" THEN "writing" ELSE "idle"
    /\ age' = 0
    /\ UNCHANGED <<server, shift, latch, buffered, step, ovf, reported>>

SetAtt(v) ==
    /\ att' = v
    /\ pc' = "writing"
    /\ reported' = NoValue

(* stdio hands the bytes of a pin to the GPIO driver, in one or two        *)
(* writes.  What the driver makes of several bytes is not in this          *)
(* repository: it may refuse them, or take any level from them.            *)
Flush(p) ==
    /\ \E x \in {0, 1} : pins' = [pins EXCEPT ![p] = x]
    /\ shift' \in IF p = "clk" THEN {shift, Shifted(shift, pins.data)} ELSE {shift}
    /\ latch' \in IF p = "le" \/ pins.le = 1 THEN {latch, shift'} ELSE {latch}
    /\ pins'.le = 1 => latch' = shift'

(* digitalWrite(): the level is on the pin, or it is in the buffer; the    *)
(* byte that finds the buffer full goes out with it or starts the next.    *)
Buffer(p) ==
    \/ /\ buffered[p] < BufSize
       /\ buffered' = [buffered EXCEPT ![p] = @ + 1]
       /\ UNCHANGED chip
    \/ /\ buffered[p] = BufSize
       /\ Flush(p)
       /\ \E n \in {0, 1} : buffered' = [buffered EXCEPT ![p] = n]

DigitalWrite(p, x) ==
    IF server = "hfdl" THEN SetPin(p, x) /\ UNCHANGED buffered ELSE Buffer(p)

Write ==
    /\ pc = "writing"
    /\ LET w == Writes(att)
           last == step = Len(w)
       IN  /\ DigitalWrite(w[step][1], w[step][2])
           /\ step' = IF last THEN 1 ELSE step + 1
           /\ pc' = IF last THEN "idle" ELSE "writing"
           /\ reported' = IF last THEN att ELSE reported
    /\ UNCHANGED <<server, att, age, ovf>>

(* The loop of the HFDL server looks at the overflow bit.                  *)
MayRaise_Unbounded == ovf /\ age > OvfWait
MayRaise == ovf /\ age > OvfWait /\ att < MaxAtt
MayLower_WhileOverflowing == age > CalmWait /\ att > 0
MayLower == ~ovf /\ age > CalmWait /\ att > 0

Adjust ==
    /\ server = "hfdl" /\ pc = "idle"
    /\ \/ MayRaise /\ SetAtt(att + 1)
       \/ MayLower /\ SetAtt(att - 1)
    /\ age' = 0
    /\ UNCHANGED <<server, chip, buffered, step, ovf>>

(* process_ep2() of the HPSDR server, when the value is a new one.         *)
ClientSets ==
    /\ server = "hpsdr" /\ pc = "idle"
    /\ \E v \in Values \ {att} : SetAtt(v)
    /\ UNCHANGED <<server, chip, buffered, step, age, ovf>>

(* recvfrom() fails and main() returns: stdio writes what it still has.    *)
Exit ==
    /\ server = "hpsdr" /\ pc = "idle"
    /\ pc' = "exiting"
    /\ UNCHANGED <<server, chip, buffered, step, att, age, ovf, reported>>

FlushAtExit ==
    /\ pc = "exiting"
    /\ \E p \in Pins :
          /\ buffered[p] > 0
          /\ Flush(p)
          /\ buffered' = [buffered EXCEPT ![p] = 0]
    /\ UNCHANGED <<server, pc, step, att, age, ovf, reported>>

(* The process is gone, after an exit or killed at any moment, and with it *)
(* what is still in its buffers.                                           *)
Crash ==
    /\ pc # "start"
    /\ pc' = "start" /\ step' = 1
    /\ buffered' = [p \in Pins |-> 0]
    /\ reported' = NoValue
    /\ UNCHANGED <<server, chip, att, age, ovf>>

-----------------------------------------------------------------------------
(* The input and the clock, which only the HFDL server looks at.           *)
Signal == server = "hfdl" /\ ovf' = ~ovf /\ UNCHANGED <<server, chip, buffered, pc, step, att, age, reported>>

Pass(d) ==
    /\ server = "hfdl"
    /\ age + d >= -AgeBound
    /\ age' = Older(d)
    /\ UNCHANGED <<server, chip, buffered, pc, step, att, ovf, reported>>

Program == Boot \/ Write \/ Adjust

Next ==
    \/ Program \/ ClientSets \/ Exit \/ FlushAtExit \/ Crash \/ Signal
    \/ Pass(1) \/ \E d \in ClockSteps : Pass(d)

Spec == Init /\ [][Next]_vars

(* The loop runs and time goes on; crashes and steps of the clock end.     *)
LiveSpec ==
    /\ Spec
    /\ WF_vars(Program) /\ WF_vars(Pass(1))
    /\ <>[][~Crash /\ \A d \in ClockSteps : ~Pass(d)]_vars

-----------------------------------------------------------------------------
TypeOK ==
    /\ server \in {"hfdl", "hpsdr"}
    /\ pins \in [Pins -> {0, 1}]
    /\ buffered \in [Pins -> 0..BufSize]
    /\ shift \in Registers /\ latch \in Registers
    /\ pc \in {"start", "writing", "idle", "exiting"}
    /\ step \in 1..(3 * Bits + 3)
    /\ att \in Values
    /\ age \in -AgeBound..(CalmWait + 1)
    /\ ovf \in BOOLEAN
    /\ reported \in Values \cup {NoValue}

(* "Set attenuator to" is true when it is printed and stays true: what the *)
(* chip has is what was reported, whatever a crash in the middle of an     *)
(* earlier transfer has left in its register.                              *)
ReportIsTrue == pc = "idle" /\ reported # NoValue => latch = Register(reported)

(* The same of the copy of peri.c in the HFDL receiver.                    *)
HfdlReportIsTrue == server = "hfdl" => ReportIsTrue

(* In the HFDL receiver nothing but the value being set ever comes into    *)
(* effect: the half shifted register never shows, not even across a crash. *)
(* (Of the buffered copy this is not so: a flush may bring in anything.)   *)
NoPartialValue ==
    [][ server = "hfdl" /\ latch' # latch => latch' = Register(att) ]_vars

(* The control of the HFDL receiver settles: with an input that overflows  *)
(* for good it ends at the most attenuation, with one that never does at   *)
(* none.                                                                   *)
AgcSettles ==
    /\ server = "hfdl" /\ <>[]ovf => <>[](latch = Register(MaxAtt))
    /\ server = "hfdl" /\ <>[]~ovf => <>[](latch = Register(0))
=============================================================================
