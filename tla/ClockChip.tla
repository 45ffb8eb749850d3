------------------------------ MODULE ClockChip ------------------------------
(***************************************************************************)
(* The hook of the first stage boot loader, SetMacAddress() and the Si5351 *)
(* driver in patches/red_pitaya_fsbl_hooks.c: it reads the frequency of    *)
(* the crystal from the EEPROM, computes the dividers of the converter's   *)
(* clock, and programs the chip register by register over I2C.             *)
(*                                                                         *)
(* Any I2C transfer may fail, and then the hook gives up and Linux is not  *)
(* started.  A reset of the processor does not reset the chip, so the next *)
(* boot finds its registers as this one left them.                         *)
(***************************************************************************)
EXTENDS Integers, Sequences

CONSTANTS
    RefClocks,   \* crystal frequencies an EEPROM may name
    MaxBoots     \* bound on the boots of the board

Mega == 1048576
XREF_FREQ == 24576000     \* the crystal when the EEPROM names none

(* Crystals below 24 * 2^20 Hz, for which the error bound stated in the    *)
(* comment of si5351_Calc() can hold.                                      *)
ASSUME ClockChipAssumption ==
    /\ \A x \in RefClocks : x \in Nat /\ 20480000 <= x /\ x < 24 * Mega
    /\ MaxBoots \in Nat \ {0}

NoRefclock == 0   \* no "refclock=" in the EEPROM
freq_set == 122880000

VARIABLES
    refclock,    \* what the EEPROM says of the crystal, or NoRefclock
    bpc,         \* the hook: "eeprom", "gpio", "chip", "up", "failed"
    xref,        \* XREF_FREQ, the variable
    clkref,      \* GPIO_CLK_REF is driven: the crystal's clock is enabled
    next,        \* the number of the next register write
    regs,        \* the chip's registers
    boots        \* boots so far

chipVars == <<refclock, bpc, xref, clkref, next, regs, boots>>

-----------------------------------------------------------------------------
(* si5351_Calc(), with correction 0: N = a + b/c is the multiplier of the  *)
(* PLL, M = x + y/z the divider of the output.                             *)
Clamp(f) == IF f < 8000 THEN 8000 ELSE IF f > 160000000 THEN 160000000 ELSE f

CalcLow(f) ==
    LET t == f \div Mega + 1
    IN  [a |-> 36, b |-> 0, c |-> 1, x |-> 900000000 \div f,
         y |-> (900000000 % f) \div t, z |-> f \div t]

Divider(f) == IF f >= 150000000 THEN 4 ELSE IF f >= 100000000 THEN 6 ELSE 8

CalcHigh(f, fxtal) ==
    LET t == fxtal \div Mega + 1
        numerator == Divider(f) * f
    IN  [a |-> numerator \div fxtal, b |-> (numerator % fxtal) \div t,
         c |-> fxtal \div t, x |-> Divider(f), y |-> 0, z |-> 1]

Calc(Fclk, fxtal) ==
    LET slow == Clamp(Fclk) < 1000000
        f == IF slow THEN 64 * Clamp(Fclk) ELSE Clamp(Fclk)
    IN  [conf |-> IF f < 81000000 THEN CalcLow(f) ELSE CalcHigh(f, fxtal),
         rdiv |-> IF slow THEN 6 ELSE 0]

-----------------------------------------------------------------------------
(* The register writes of the driver's functions, in order.                *)
WriteBulk(base, P1, P2, P3, divBy4, rdiv) ==
    << <<base, (P3 \div 256) % 256>>,
       <<base + 1, P3 % 256>>,
       <<base + 2, ((P1 \div 65536) % 4) + 4 * divBy4 + 16 * rdiv>>,
       <<base + 3, (P1 \div 256) % 256>>,
       <<base + 4, P1 % 256>>,
       <<base + 5, 16 * ((P3 \div 65536) % 16) + ((P2 \div 65536) % 16)>>,
       <<base + 6, (P2 \div 256) % 256>>,
       <<base + 7, P2 % 256>> >>

Si5351Init_OutputsOn ==
    [i \in 1..8 |-> <<15 + i, 128>>] \o << <<183, 192>> >>
Si5351Init ==
    << <<3, 255>> >> \o [i \in 1..8 |-> <<15 + i, 128>>] \o << <<183, 192>> >>

SetupPLL(m) ==
    WriteBulk(26, 128 * m.a + (128 * m.b) \div m.c - 512,
              (128 * m.b) % m.c, m.c, 0, 0)
    \o << <<177, 160>> >>

(* Control 16: powered up, 8 mA, PLL A, integer mode if it divides evenly. *)
SetupOutput(m, rdiv) ==
    << <<16, IF m.y = 0 \/ m.x = 4 THEN 79 ELSE 15>> >>
    \o (IF m.x = 4
        THEN WriteBulk(42, 0, 0, 1, 3, rdiv)
        ELSE WriteBulk(42, 128 * m.x + (128 * m.y) \div m.z - 512,
                       (128 * m.y) % m.z, m.z, 0, rdiv))
    \o << <<165, 0>> >>

SetupCLK0(f, fxtal) ==
    SetupPLL(Calc(f, fxtal).conf)
    \o SetupOutput(Calc(f, fxtal).conf, Calc(f, fxtal).rdiv)

EnableOutputs == << <<3, 254>> >>

Writes(fxtal) == Si5351Init \o SetupCLK0(freq_set, fxtal) \o EnableOutputs

Registers == {3} \cup 16..23 \cup 26..33 \cup 42..49 \cup {165, 177, 183}

-----------------------------------------------------------------------------
(* A blank chip, its outputs off.                                          *)
Blank == [r \in Registers |-> IF r = 3 THEN 255 ELSE 0]

BootInit ==
    /\ refclock \in RefClocks \cup {NoRefclock}
    /\ bpc = "eeprom" /\ xref = XREF_FREQ /\ clkref = FALSE
    /\ next = 1 /\ regs = Blank /\ boots = 1

(* The I2C controller, the EEPROM, the MAC address and the crystal.        *)
ReadEeprom ==
    /\ bpc = "eeprom"
    /\ \/ /\ bpc' = "gpio"
          /\ xref' = IF refclock = NoRefclock THEN xref ELSE refclock
       \/ bpc' = "failed" /\ UNCHANGED xref
    /\ UNCHANGED <<refclock, clkref, next, regs, boots>>

EnableCrystal ==
    /\ bpc = "gpio"
    /\ \/ bpc' = "chip" /\ clkref' = TRUE
       \/ bpc' = "failed" /\ UNCHANGED clkref
    /\ UNCHANGED <<refclock, xref, next, regs, boots>>

(* si5351_write() of the next register.                                    *)
WriteRegister ==
    /\ bpc = "chip"
    /\ LET w == Writes(xref)[next]
       IN  \/ /\ regs' = [regs EXCEPT ![w[1]] = w[2]]
              /\ next' = next + 1
              /\ bpc' = IF next = Len(Writes(xref)) THEN "up" ELSE "chip"
           \/ bpc' = "failed" /\ UNCHANGED <<regs, next>>
    /\ UNCHANGED <<refclock, xref, clkref, boots>>

(* The processor is reset; the loader starts again with its variables.     *)
Reboot ==
    /\ boots < MaxBoots
    /\ bpc' = "eeprom" /\ xref' = XREF_FREQ /\ clkref' = FALSE
    /\ next' = 1 /\ boots' = boots + 1
    /\ UNCHANGED <<refclock, regs>>

BootNext == ReadEeprom \/ EnableCrystal \/ WriteRegister \/ Reboot

BootSpec == BootInit /\ [][BootNext]_chipVars

-----------------------------------------------------------------------------
BootTypeOK ==
    /\ refclock \in RefClocks \cup {NoRefclock}
    /\ bpc \in {"eeprom", "gpio", "chip", "up", "failed"}
    /\ xref \in RefClocks \cup {XREF_FREQ}
    /\ clkref \in BOOLEAN
    /\ next \in 1..(Len(Writes(xref)) + 1)
    /\ regs \in [Registers -> 0..255]
    /\ boots \in 1..MaxBoots

-----------------------------------------------------------------------------
(* What the chip makes of its registers: the reference the driver must     *)
(* meet.  A divider of P1, P2, P3 is (P1 + 512 + P2/P3) / 128.             *)
P1(base) == 65536 * (regs[base + 2] % 4) + 256 * regs[base + 3] + regs[base + 4]
P2(base) == 65536 * (regs[base + 5] % 16) + 256 * regs[base + 6] + regs[base + 7]
P3(base) == 65536 * (regs[base + 5] \div 16) + 256 * regs[base] + regs[base + 1]

Output0On == regs[3] % 2 = 0 /\ regs[16] < 128

(* floor(p * q / d) for q < 2^20, a digit of q in base 32 at a time,       *)
(* within 32 bits.                                                         *)
NextDigit(s, p, k, d) ==
    [quot |-> 32 * s.quot + (32 * s.rem + p * k) \div d,
     rem |-> (32 * s.rem + p * k) % d]

MulDiv(p, q, d) ==
    LET s1 == NextDigit([quot |-> 0, rem |-> 0], p, q \div 32768, d)
        s2 == NextDigit(s1, p, (q \div 1024) % 32, d)
        s3 == NextDigit(s2, p, (q \div 32) % 32, d)
        s4 == NextDigit(s3, p, q % 32, d)
    IN  s4.quot

Crystal == IF refclock = NoRefclock THEN XREF_FREQ ELSE refclock

(* What the PLL's P1 and P2 stand for is v / 128 whole parts and y / p3,   *)
(* the numerator; Excess is x times that, rounded down, less n.            *)
Numerator(v, p2, p3) == ((v % 128) * p3 + p2) \div 128
Excess(x, v, p2, p3, n) ==
    x * (v \div 128) + MulDiv(x, Numerator(v, p2, p3), p3) - n

Multiplier == P1(26) + 512
OutputDivider == (P1(42) + 512) \div 128
IntegerOutput == P1(42) % 128 = 0 /\ P2(42) = 0 /\ regs[44] \div 4 = 0

ClockError ==
    Excess(Crystal, Multiplier, P2(26), P3(26), OutputDivider * freq_set)

(* The output's frequency is within 6 Hz of what was asked for, with an    *)
(* integer divider x: |crystal * (a + b/c) - x * freq_set| <= 6 * x.       *)
InTune ==
    /\ IntegerOutput
    /\ -6 * OutputDivider <= ClockError /\ ClockError < 6 * OutputDivider

(* The output is silent from the first write of a boot to the last.        *)
SilentUntilSetUp == Output0On => next = 1 \/ next > Len(Writes(xref))

(* The converters get a clock only from a chip that is completely set up,  *)
(* and then it is the right one: through failed I2C transfers and boots    *)
(* that find the chip half programmed by the boot before.  Linux starts    *)
(* only with it (SetMacAddress(), and the comment of si5351_Calc()).       *)
RightClock ==
    /\ SilentUntilSetUp
    /\ Output0On => InTune
    /\ bpc = "up" => Output0On /\ clkref
=============================================================================
