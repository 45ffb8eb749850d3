--------------------------- MODULE AttenuatorProofs ---------------------------
(***************************************************************************)
(* The theorems of the attenuator, for a register of any width, buffers of *)
(* any size, any waits of the control and any steps of the clock.          *)
(*                                                                         *)
(* The provers know nothing of powers of two; they need none: the bits of  *)
(* a value stay opaque, and what is followed through a transfer is which   *)
(* of them has come how far in the chip's register.                        *)
(***************************************************************************)
EXTENDS Attenuator, SequenceTheorems, TLAPS

(* The bits that writes 1 to step - 1 of a transfer have shifted in.       *)
ShiftedBits(n) == IF n = 1 THEN 0 ELSE (n - 2) \div 3

(* Outside a transfer the next one starts at its first write; the HFDL     *)
(* copy leaves no byte in a buffer.                                        *)
AtRest ==
    /\ pc # "writing" => step = 1
    /\ server = "hfdl" => buffered = [p \in Pins |-> 0] /\ pc # "exiting"

(* The chip in the middle of a transfer: after the first two writes its    *)
(* latch is closed, the data pin has the bit that comes next before every  *)
(* rising clock, and the bits shifted in are in their order, however the   *)
(* register has started.                                                   *)
TransferInv ==
    server = "hfdl" /\ pc = "writing" =>
      /\ step > 1 /\ step % 3 # 2 => pins.clk = 0
      /\ step = 2 => pins.clk = 0
      /\ step > 2 => pins.le = 0
      /\ step > 3 /\ step % 3 = 1 =>
           pins.data = Bit(att, Bits - 1 - ShiftedBits(step))
      /\ \A i \in 0..(Bits - 1) :
           i < ShiftedBits(step) =>
             shift[i] = Bit(att, Bits - ShiftedBits(step) + i)

AttInv ==
    /\ TypeOK
    /\ AtRest
    /\ pins.le = 1 => latch = shift
    /\ TransferInv
    /\ HfdlReportIsTrue

-----------------------------------------------------------------------------
(* The n-th write of a transfer.                                           *)
LEMMA TheWrites ==
    ASSUME NEW v \in Values
    PROVE  /\ Len(Writes(v)) = 3 * Bits + 3
           /\ Writes(v)[1] = <<"clk", 0>>
           /\ Writes(v)[2] = <<"le", 0>>
           /\ Writes(v)[3 * Bits + 3] = <<"le", 1>>
           /\ \A k \in 0..(Bits - 1) :
                /\ Writes(v)[3 * k + 3] = <<"data", Bit(v, Bits - 1 - k)>>
                /\ Writes(v)[3 * k + 4] = <<"clk", 1>>
                /\ Writes(v)[3 * k + 5] = <<"clk", 0>>
<1>a. Bits \in Nat \ {0}
  BY AttenuatorAssumption
<1> DEFINE B == ShiftWrites(v)
           A == << <<"clk", 0>>, <<"le", 0>> >>
           E == << <<"le", 1>> >>
           W == (Pins \X {0, 1})
<1>b. \A i \in Int : Bit(v, i) \in {0, 1}
  BY DEF Bit
<1>1. \A k \in 0..(Bits - 1) :
        /\ B[3 * k + 1] = <<"data", Bit(v, Bits - 1 - k)>>
        /\ B[3 * k + 2] = <<"clk", 1>>
        /\ B[3 * k + 3] = <<"clk", 0>>
  <2> TAKE k \in 0..(Bits - 1)
  <2>0. 3 * k + 1 \in 1..(3 * Bits) /\ 3 * k + 2 \in 1..(3 * Bits) /\ 3 * k + 3 \in 1..(3 * Bits)
    BY <1>a
  <2>1. /\ ((3 * k + 1) - 1) \div 3 = k /\ ((3 * k + 1) - 1) % 3 = 0
        /\ ((3 * k + 2) - 1) \div 3 = k /\ ((3 * k + 2) - 1) % 3 = 1
        /\ ((3 * k + 3) - 1) \div 3 = k /\ ((3 * k + 3) - 1) % 3 = 2
    BY <1>a
  <2>2. B[3 * k + 1] = ShiftOut(Bit(v, Bits - 1 - k))[1]
    BY <2>0, <2>1 DEF ShiftWrites
  <2>3. B[3 * k + 2] = ShiftOut(Bit(v, Bits - 1 - k))[2]
    BY <2>0, <2>1 DEF ShiftWrites
  <2>4. B[3 * k + 3] = ShiftOut(Bit(v, Bits - 1 - k))[3]
    BY <2>0, <2>1 DEF ShiftWrites
  <2> QED
    BY <2>2, <2>3, <2>4 DEF ShiftOut
<1>2. B \in Seq(W) /\ Len(B) = 3 * Bits
  <2>1. \A n \in 1..(3 * Bits) : B[n] \in W
    <3> TAKE n \in 1..(3 * Bits)
    <3>1. PICK k \in 0..(Bits - 1) : n = 3 * k + 1 \/ n = 3 * k + 2 \/ n = 3 * k + 3
      <4>1. (n - 1) \div 3 \in 0..(Bits - 1)
        BY <1>a
      <4> QED
        BY <4>1, <1>a
    <3>2. Bits - 1 - k \in Int
      BY <1>a
    <3>3. Bit(v, Bits - 1 - k) \in {0, 1}
      BY <3>2, <1>b
    <3> HIDE DEF B
    <3>4. B[n] \in { <<"data", Bit(v, Bits - 1 - k)>>, <<"clk", 1>>, <<"clk", 0>> }
      BY <3>1, <1>1
    <3> QED
      BY <3>3, <3>4 DEF Pins
  <2>2. B = [n \in 1..(3 * Bits) |-> B[n]]
    BY DEF ShiftWrites
  <2> QED
    BY <2>1, <2>2, <1>a
<1>3. A \in Seq(W) /\ Len(A) = 2 /\ A[1] = <<"clk", 0>> /\ A[2] = <<"le", 0>>
  BY DEF Pins
<1>4. E \in Seq(W) /\ Len(E) = 1 /\ E[1] = <<"le", 1>>
  BY DEF Pins
<1>5. Writes(v) = (A \o B) \o E
  BY DEF Writes
<1> HIDE DEF A, B, E, W
<1>6. /\ A \o B \in Seq(W) /\ Len(A \o B) = 3 * Bits + 2
      /\ \A i \in 1..2 : (A \o B)[i] = A[i]
      /\ \A i \in 1..(3 * Bits) : (A \o B)[i + 2] = B[i]
  <2>1. /\ A \o B \in Seq(W) /\ Len(A \o B) = Len(A) + Len(B)
        /\ \A i \in 1..(Len(A) + Len(B)) : (A \o B)[i] =
             IF i <= Len(A) THEN A[i] ELSE B[i - Len(A)]
    BY <1>2, <1>3, ConcatProperties
  <2>2. \A i \in 1..(3 * Bits) : i + 2 \in 1..(2 + 3 * Bits) /\ ~(i + 2 <= 2) /\ (i + 2) - 2 = i
    BY <1>a
  <2> QED
    BY <2>1, <2>2, <1>2, <1>3, <1>a
<1>7. /\ Len(Writes(v)) = 3 * Bits + 3
      /\ \A i \in 1..(3 * Bits + 2) : Writes(v)[i] = (A \o B)[i]
      /\ Writes(v)[3 * Bits + 3] = E[1]
  <2> DEFINE C == A \o B
  <2>0. C \in Seq(W) /\ Len(C) = 3 * Bits + 2
    BY <1>6
  <2>1. Writes(v) = C \o E
    BY <1>5
  <2> HIDE DEF C
  <2>2. /\ Len(Writes(v)) = Len(C) + Len(E)
        /\ \A i \in 1..(Len(C) + Len(E)) : Writes(v)[i] =
             IF i <= Len(C) THEN C[i] ELSE E[i - Len(C)]
    <3>1. /\ Len(C \o E) = Len(C) + Len(E)
          /\ \A i \in 1..(Len(C) + Len(E)) : (C \o E)[i] =
               IF i <= Len(C) THEN C[i] ELSE E[i - Len(C)]
      BY <2>0, <1>4, ConcatProperties
    <3> QED
      BY <2>1, <3>1
  <2>3. /\ Len(Writes(v)) = 3 * Bits + 3
        /\ \A i \in 1..(3 * Bits + 2) : Writes(v)[i] = C[i]
        /\ Writes(v)[3 * Bits + 3] = E[1]
    BY <2>0, <2>2, <1>4, <1>a
  <2> QED
    BY <2>3 DEF C
<1>8. \A i \in 1..(3 * Bits) : Writes(v)[i + 2] = B[i]
  <2> TAKE i \in 1..(3 * Bits)
  <2>1. i + 2 \in 1..(3 * Bits + 2)
    BY <1>a
  <2> QED
    BY <2>1, <1>6, <1>7
<1>9. ASSUME NEW k \in 0..(Bits - 1)
      PROVE  /\ Writes(v)[3 * k + 3] = <<"data", Bit(v, Bits - 1 - k)>>
             /\ Writes(v)[3 * k + 4] = <<"clk", 1>>
             /\ Writes(v)[3 * k + 5] = <<"clk", 0>>
  <2>1. 3 * k + 1 \in 1..(3 * Bits) /\ 3 * k + 2 \in 1..(3 * Bits) /\ 3 * k + 3 \in 1..(3 * Bits)
    BY <1>a
  <2>2. /\ Writes(v)[(3 * k + 1) + 2] = B[3 * k + 1]
        /\ Writes(v)[(3 * k + 2) + 2] = B[3 * k + 2]
        /\ Writes(v)[(3 * k + 3) + 2] = B[3 * k + 3]
    BY <2>1, <1>8
  <2>3. (3 * k + 1) + 2 = 3 * k + 3 /\ (3 * k + 2) + 2 = 3 * k + 4 /\ (3 * k + 3) + 2 = 3 * k + 5
    OBVIOUS
  <2> QED
    BY <2>2, <2>3, <1>1
<1>10. Writes(v)[3 * Bits + 3] = <<"le", 1>>
  BY Zenon, <1>4, <1>7
<1>11. 1 \in 1..2 /\ 2 \in 1..2 /\ 1 \in 1..(3 * Bits + 2) /\ 2 \in 1..(3 * Bits + 2)
  BY <1>a
<1>12. Writes(v)[1] = <<"clk", 0>> /\ Writes(v)[2] = <<"le", 0>>
  <2>1. /\ Writes(v)[1] = (A \o B)[1] /\ (A \o B)[1] = A[1]
        /\ Writes(v)[2] = (A \o B)[2] /\ (A \o B)[2] = A[2]
    BY Zenon, <1>6, <1>7, <1>11
  <2> QED
    BY Zenon, <1>3, <2>1
<1> QED
  BY Zenon, <1>7, <1>9, <1>10, <1>12

(* Where in a transfer a step is.                                          *)
LEMMA Places ==
    ASSUME NEW n \in 1..(3 * Bits + 3)
    PROVE  \/ n = 1 \/ n = 2 \/ n = 3 * Bits + 3
           \/ \E k \in 0..(Bits - 1) : n = 3 * k + 3 \/ n = 3 * k + 4 \/ n = 3 * k + 5
<1>1. CASE n >= 3 /\ n < 3 * Bits + 3
  <2> DEFINE k == (n - 3) \div 3
  <2>1. k \in 0..(Bits - 1)
    BY <1>1, AttenuatorAssumption
  <2>2. n = 3 * k + 3 \/ n = 3 * k + 4 \/ n = 3 * k + 5
    BY <1>1, AttenuatorAssumption
  <2> QED
    BY <2>1, <2>2
<1> QED
  BY <1>1, AttenuatorAssumption

(* What has been shifted there.                                            *)
LEMMA Counts ==
    /\ ShiftedBits(1) = 0 /\ ShiftedBits(2) = 0 /\ ShiftedBits(3 * Bits + 3) = Bits
    /\ \A k \in 0..Bits :
         /\ ShiftedBits(3 * k + 3) = k
         /\ ShiftedBits(3 * k + 4) = k
         /\ ShiftedBits(3 * k + 5) = k + 1
<1>1. Bits \in Nat \ {0}
  BY AttenuatorAssumption
<1>2. \A k \in 0..Bits :
        /\ ShiftedBits(3 * k + 3) = k
        /\ ShiftedBits(3 * k + 4) = k
        /\ ShiftedBits(3 * k + 5) = k + 1
  BY <1>1 DEF ShiftedBits
<1>3. ShiftedBits(1) = 0 /\ ShiftedBits(2) = 0 /\ ShiftedBits(3 * Bits + 3) = Bits
  BY <1>1, <1>2 DEF ShiftedBits
<1> QED
  BY <1>2, <1>3

-----------------------------------------------------------------------------
LEMMA AttStarts == Init => AttInv
<1> SUFFICES ASSUME Init PROVE AttInv
  OBVIOUS
<1> USE AttenuatorAssumption DEF Init
<1>1. TypeOK
  BY DEF TypeOK, Values, AgeBound, Pins
<1>2. AtRest
  BY DEF AtRest
<1>3. TransferInv /\ HfdlReportIsTrue
  BY DEF TransferInv, HfdlReportIsTrue, ReportIsTrue
<1> QED
  BY <1>1, <1>2, <1>3 DEF AttInv

LEMMA BootKeeps == AttInv /\ Boot => AttInv'
<1> SUFFICES ASSUME AttInv, Boot PROVE AttInv'
  OBVIOUS
<1> USE AttenuatorAssumption DEF Boot, AttInv
<1>1. TypeOK'
  BY DEF TypeOK, Values, AgeBound, Pins
<1>2. AtRest'
  BY DEF AtRest
<1>3. pins'.le = 1 => latch' = shift'
  BY DEF Pins
<1>4. TransferInv'
  BY Counts DEF TransferInv, AtRest, Pins
<1>5. HfdlReportIsTrue'
  BY DEF HfdlReportIsTrue, ReportIsTrue
<1> QED
  BY <1>1, <1>2, <1>3, <1>4, <1>5

(* A level on a pin keeps the types of the chip, and what its latch is.    *)
LEMMA PinTypes ==
    ASSUME pins \in [Pins -> {0, 1}], shift \in Registers, latch \in Registers,
           pins.le = 1 => latch = shift,
           NEW p \in Pins, NEW x \in {0, 1}, SetPin(p, x)
    PROVE  /\ pins' \in [Pins -> {0, 1}]
           /\ shift' \in Registers /\ latch' \in Registers
           /\ pins'.le = 1 => latch' = shift'
<1>1. Shifted(shift, pins.data) \in Registers
  BY AttenuatorAssumption DEF Shifted, Registers, Pins
<1> QED
  BY <1>1 DEF SetPin, Pins

(* A step of a transfer by the HFDL server.                                *)
LEMMA HfdlWriteKeeps == AttInv /\ Write /\ server = "hfdl" => AttInv' /\ (latch' # latch => latch' = Register(att))
<1> SUFFICES ASSUME AttInv, Write, server = "hfdl"
             PROVE  AttInv' /\ (latch' # latch => latch' = Register(att))
  OBVIOUS
<1>0. Bits \in Nat \ {0} /\ Bits \in Int
  BY AttenuatorAssumption
<1>1. /\ pc = "writing" /\ att \in Values /\ step \in 1..(3 * Bits + 3)
      /\ server' = server /\ att' = att /\ age' = age /\ ovf' = ovf
      /\ buffered' = buffered /\ step \in Int
  BY <1>0 DEF Write, AttInv, TypeOK, DigitalWrite
<1>2. /\ pins \in [Pins -> {0, 1}] /\ shift \in Registers /\ latch \in Registers
      /\ pins.le = 1 => latch = shift
  BY DEF AttInv, TypeOK
<1>3. /\ SetPin(Writes(att)[step][1], Writes(att)[step][2])
      /\ step = 3 * Bits + 3 =>
           step' = 1 /\ pc' = "idle" /\ reported' = att
      /\ step # 3 * Bits + 3 =>
           step' = step + 1 /\ pc' = "writing" /\ reported' = reported
  <2>1. Len(Writes(att)) = 3 * Bits + 3
    BY <1>1, TheWrites
  <2> QED
    BY <2>1 DEF Write, DigitalWrite
<1>4. /\ step > 1 /\ step % 3 # 2 => pins.clk = 0
      /\ step = 2 => pins.clk = 0
      /\ step > 2 => pins.le = 0
      /\ step > 3 /\ step % 3 = 1 => pins.data = Bit(att, Bits - 1 - ShiftedBits(step))
      /\ \A i \in 0..(Bits - 1) :
           i < ShiftedBits(step) => shift[i] = Bit(att, Bits - ShiftedBits(step) + i)
  BY <1>1 DEF AttInv, TransferInv
<1>5. AtRest'
  BY <1>1, <1>3 DEF AttInv, AtRest
<1>6. /\ age' \in -AgeBound..(CalmWait + 1) /\ ovf' \in BOOLEAN
      /\ buffered' \in [Pins -> 0..BufSize]
      /\ reported' \in Values \cup {NoValue} /\ server' \in {"hfdl", "hpsdr"}
      /\ pc' \in {"start", "writing", "idle", "exiting"} /\ step' \in 1..(3 * Bits + 3)
  BY <1>0, <1>1, <1>3 DEF AttInv, TypeOK
<1> DEFINE Good == /\ pins' \in [Pins -> {0, 1}]
                   /\ shift' \in Registers /\ latch' \in Registers
                   /\ pins'.le = 1 => latch' = shift'
                   /\ TransferInv'
                   /\ pc' = "idle" => latch' = Register(att)
                   /\ latch' # latch => latch' = Register(att)
<1>7. Good => AttInv' /\ (latch' # latch => latch' = Register(att))
  BY <1>1, <1>3, <1>5, <1>6 DEF AttInv, TypeOK, HfdlReportIsTrue, ReportIsTrue
<1>8. CASE step = 1
  <2>1. SetPin("clk", 0) /\ step' = 2 /\ pc' = "writing"
    BY <1>0, <1>1, <1>3, <1>8, TheWrites
  <2>2. /\ pins' = [pins EXCEPT !["clk"] = 0] /\ shift' = shift
        /\ latch' = IF pins'.le = 1 THEN shift' ELSE latch
    BY <2>1 DEF SetPin
  <2>3. TransferInv'
    BY <1>2, <2>1, <2>2, Counts DEF TransferInv, Pins
  <2> QED
    BY <1>2, <1>7, <2>1, <2>2, <2>3 DEF Pins
<1>9. CASE step = 2
  <2>1. SetPin("le", 0) /\ step' = 3 /\ pc' = "writing"
    BY <1>0, <1>1, <1>3, <1>9, TheWrites
  <2>2. /\ pins' = [pins EXCEPT !["le"] = 0] /\ shift' = shift /\ latch' = latch
    BY <1>2, <2>1 DEF SetPin, Pins
  <2>3. ShiftedBits(3) = 0
    BY DEF ShiftedBits
  <2>4. TransferInv'
    BY <1>0, <1>2, <1>4, <1>9, <2>1, <2>2, <2>3 DEF TransferInv, Pins
  <2> QED
    BY <1>2, <1>7, <2>1, <2>2, <2>4 DEF Pins
<1>10. CASE step = 3 * Bits + 3
  <2>1. SetPin("le", 1) /\ pc' = "idle"
    BY <1>1, <1>3, <1>10, TheWrites
  <2>2. /\ pins' = [pins EXCEPT !["le"] = 1] /\ shift' = shift /\ latch' = shift
    BY <1>2, <2>1 DEF SetPin, Pins
  <2>3. \A i \in 0..(Bits - 1) : shift[i] = Bit(att, i)
    <3> TAKE i \in 0..(Bits - 1)
    <3>1. ShiftedBits(step) = Bits
      BY <1>10, Counts
    <3>2. Bits - ShiftedBits(step) + i = i /\ i < ShiftedBits(step)
      BY <1>0, <3>1
    <3> QED
      BY <1>4, <3>2
  <2>4. shift = Register(att)
    BY <1>2, <2>3 DEF Register, Registers
  <2>5. TransferInv'
    BY <2>1 DEF TransferInv
  <2> QED
    BY <1>2, <1>7, <2>1, <2>2, <2>4, <2>5 DEF Pins

<1>11. ASSUME NEW k \in 0..(Bits - 1), step = 3 * k + 3 \/ step = 3 * k + 4 \/ step = 3 * k + 5
       PROVE  AttInv' /\ (latch' # latch => latch' = Register(att))
  <2>0. /\ k \in Int /\ k \in 0..Bits /\ k + 1 \in 0..Bits /\ step' = step + 1 /\ pc' = "writing"
        /\ pins.le = 0
    BY <1>0, <1>1, <1>3, <1>4, <1>11
  <2>1. CASE step = 3 * k + 3
    <3>1. SetPin("data", Bit(att, Bits - 1 - k)) /\ step' = 3 * k + 4
      BY <1>3, <2>0, <2>1, <1>1, TheWrites
    <3>2. Bit(att, Bits - 1 - k) \in {0, 1}
      BY DEF Bit
    <3>3. /\ pins' = [pins EXCEPT !["data"] = Bit(att, Bits - 1 - k)]
          /\ shift' = shift /\ latch' = latch
      BY <1>2, <2>0, <3>1 DEF SetPin, Pins
    <3>4. ShiftedBits(step) = k /\ ShiftedBits(step') = k
      BY <2>0, <2>1, <3>1, Counts
    <3>5. step % 3 = 0 /\ step > 1 /\ step' % 3 = 1
      BY <2>0, <2>1, <3>1
    <3>6. TransferInv'
      BY <1>1, <1>2, <1>4, <2>0, <3>1, <3>2, <3>3, <3>4, <3>5 DEF TransferInv, Pins
    <3> QED
      BY <1>2, <1>7, <2>0, <3>2, <3>3, <3>6 DEF Pins
  <2>2. CASE step = 3 * k + 4
    <3>1. SetPin("clk", 1) /\ step' = 3 * k + 5
      BY <1>3, <2>0, <2>2, <1>1, TheWrites
    <3>2. ShiftedBits(step) = k /\ ShiftedBits(step') = k + 1
      BY <2>0, <2>2, <3>1, Counts
    <3>3. step % 3 = 1 /\ step > 3 /\ step' % 3 = 2 /\ step' > 3
      BY <2>0, <2>2, <3>1
    <3>4. pins.clk = 0 /\ pins.data = Bit(att, Bits - 1 - k)
      BY <1>1, <1>4, <3>2, <3>3
    <3>5. /\ pins' = [pins EXCEPT !["clk"] = 1]
          /\ shift' = Shifted(shift, pins.data) /\ latch' = latch
      BY <1>2, <2>0, <3>1, <3>4 DEF SetPin, Pins
    <3>6. shift' \in Registers
      BY <1>0, <1>2, <3>5 DEF Shifted, Registers, Pins
    <3>7. \A i \in 0..(Bits - 1) :
            i < k + 1 => shift'[i] = Bit(att, Bits - (k + 1) + i)
      <4> SUFFICES ASSUME NEW i \in 0..(Bits - 1), i < k + 1
                   PROVE  shift'[i] = Bit(att, Bits - (k + 1) + i)
        OBVIOUS
      <4>1. shift'[i] = IF i = 0 THEN pins.data ELSE shift[i - 1]
        BY <3>5 DEF Shifted
      <4>2. CASE i = 0
        <5>1. Bits - (k + 1) + i = Bits - 1 - k
          BY <1>0, <2>0, <4>2
        <5> QED
          BY <3>4, <4>1, <4>2, <5>1
      <4>3. CASE i > 0
        <5>1. i - 1 \in 0..(Bits - 1) /\ i - 1 < k /\ i # 0
          BY <1>0, <2>0, <4>3
        <5>2. shift[i - 1] = Bit(att, Bits - k + (i - 1))
          BY <1>4, <3>2, <5>1
        <5>3. Bits - k + (i - 1) = Bits - (k + 1) + i
          BY <1>0, <2>0
        <5> QED
          BY <4>1, <5>1, <5>2, <5>3
      <4> QED
        BY <4>2, <4>3
    <3>8. TransferInv'
      BY <1>1, <1>2, <2>0, <3>2, <3>3, <3>5, <3>7 DEF TransferInv, Pins
    <3> QED
      BY <1>2, <1>7, <2>0, <3>5, <3>6, <3>8 DEF Pins
  <2>3. CASE step = 3 * k + 5
    <3>1. SetPin("clk", 0) /\ step' = 3 * (k + 1) + 3
      <4>1. step + 1 = 3 * (k + 1) + 3 /\ step # 3 * Bits + 3
        BY <1>0, <2>0, <2>3
      <4> QED
        BY <1>3, <2>0, <2>3, <1>1, <4>1, TheWrites
    <3>2. ShiftedBits(step) = k + 1 /\ ShiftedBits(step') = k + 1
      BY <2>0, <2>3, <3>1, Counts
    <3>3. step' % 3 = 0 /\ step' > 3
      BY <2>0, <2>3, <3>1
    <3>4. /\ pins' = [pins EXCEPT !["clk"] = 0] /\ shift' = shift /\ latch' = latch
      BY <1>2, <2>0, <3>1 DEF SetPin, Pins
    <3>5. TransferInv'
      BY <1>1, <1>2, <1>4, <2>0, <3>2, <3>3, <3>4 DEF TransferInv, Pins
    <3> QED
      BY <1>2, <1>7, <2>0, <3>4, <3>5 DEF Pins
  <2> QED
    BY <1>11, <2>1, <2>2, <2>3
<1> QED
  BY <1>1, <1>8, <1>9, <1>10, <1>11, Places

(* What stdio hands to the GPIO driver keeps the types of the chip, and    *)
(* what its latch is, whatever the driver makes of it.                     *)
LEMMA FlushTypes ==
    ASSUME pins \in [Pins -> {0, 1}], shift \in Registers, latch \in Registers,
           pins.le = 1 => latch = shift,
           NEW p \in Pins, Flush(p)
    PROVE  /\ pins' \in [Pins -> {0, 1}]
           /\ shift' \in Registers /\ latch' \in Registers
           /\ pins'.le = 1 => latch' = shift'
<1>1. Shifted(shift, pins.data) \in Registers
  BY AttenuatorAssumption DEF Shifted, Registers, Pins
<1>2. shift' \in {shift, Shifted(shift, pins.data)} /\ latch' \in {latch, shift'}
  BY DEF Flush
<1>3. pins' \in [Pins -> {0, 1}] /\ (pins'.le = 1 => latch' = shift')
  BY DEF Flush
<1> QED
  BY <1>1, <1>2, <1>3

LEMMA BufferTypes ==
    ASSUME TypeOK, pins.le = 1 => latch = shift, NEW p \in Pins, Buffer(p)
    PROVE  /\ buffered' \in [Pins -> 0..BufSize]
           /\ pins' \in [Pins -> {0, 1}]
           /\ shift' \in Registers /\ latch' \in Registers
           /\ pins'.le = 1 => latch' = shift'
<1>0. BufSize \in Nat \ {0} /\ buffered \in [Pins -> 0..BufSize]
  BY AttenuatorAssumption DEF TypeOK
<1>1. CASE buffered[p] < BufSize /\ buffered' = [buffered EXCEPT ![p] = @ + 1] /\ UNCHANGED chip
  <2>1. buffered[p] + 1 \in 0..BufSize
    BY <1>0, <1>1
  <2>2. buffered' \in [Pins -> 0..BufSize]
    BY <1>0, <1>1, <2>1
  <2> QED
    BY <1>1, <2>2 DEF TypeOK, chip
<1>2. CASE Flush(p) /\ \E n \in {0, 1} : buffered' = [buffered EXCEPT ![p] = n]
  <2>1. 0 \in 0..BufSize /\ 1 \in 0..BufSize
    BY <1>0
  <2>2. buffered' \in [Pins -> 0..BufSize]
    BY <1>0, <1>2, <2>1
  <2> QED
    BY <1>2, <2>2, FlushTypes DEF TypeOK
<1> QED
  BY <1>1, <1>2 DEF Buffer

(* A step of a transfer by the HPSDR server.                               *)
LEMMA HpsdrWriteKeeps == AttInv /\ Write /\ server = "hpsdr" => AttInv'
<1> SUFFICES ASSUME AttInv, Write, server = "hpsdr" PROVE AttInv'
  OBVIOUS
<1>0. Bits \in Nat \ {0} /\ Bits \in Int
  BY AttenuatorAssumption
<1>1. /\ att \in Values /\ step \in 1..(3 * Bits + 3)
      /\ server' = server /\ att' = att /\ age' = age /\ ovf' = ovf
  BY DEF Write, AttInv, TypeOK
<1> DEFINE p == Writes(att)[step][1]
<1>2. /\ Buffer(p)
      /\ step = 3 * Bits + 3 => step' = 1 /\ pc' = "idle" /\ reported' = att
      /\ step # 3 * Bits + 3 =>
           step' = step + 1 /\ pc' = "writing" /\ reported' = reported
  <2>1. Len(Writes(att)) = 3 * Bits + 3
    BY <1>1, TheWrites
  <2> QED
    BY <2>1 DEF Write, DigitalWrite
<1>3. p \in Pins
  <2>1. CASE step \in {1, 2, 3 * Bits + 3}
    BY <1>1, <2>1, TheWrites DEF Pins
  <2>2. ASSUME NEW k \in 0..(Bits - 1),
               step = 3 * k + 3 \/ step = 3 * k + 4 \/ step = 3 * k + 5
        PROVE  p \in Pins
    BY <1>1, <2>2, TheWrites DEF Pins
  <2> QED
    BY <1>1, <2>1, <2>2, Places
<1> HIDE DEF p
<1>4. /\ buffered' \in [Pins -> 0..BufSize]
      /\ pins' \in [Pins -> {0, 1}]
      /\ shift' \in Registers /\ latch' \in Registers
      /\ pins'.le = 1 => latch' = shift'
  BY <1>2, <1>3, BufferTypes DEF AttInv
<1>5. /\ step' \in 1..(3 * Bits + 3) /\ pc' \in {"writing", "idle"}
      /\ pc' # "writing" => step' = 1
      /\ reported' \in Values \cup {NoValue}
  BY <1>0, <1>1, <1>2 DEF AttInv, TypeOK
<1>6. TypeOK'
  BY <1>1, <1>4, <1>5 DEF AttInv, TypeOK
<1> QED
  BY <1>1, <1>4, <1>5, <1>6 DEF AttInv, AtRest, TransferInv, HfdlReportIsTrue

LEMMA AdjustKeeps == AttInv /\ Adjust => AttInv'
<1> SUFFICES ASSUME AttInv, Adjust PROVE AttInv'
  OBVIOUS
<1>1. /\ server = "hfdl" /\ pc = "idle" /\ pc' = "writing" /\ step = 1 /\ step' = 1
      /\ att' \in Values /\ age' = 0 /\ reported' = NoValue
      /\ UNCHANGED <<server, pins, shift, latch, buffered, ovf>>
  BY AttenuatorAssumption
  DEF Adjust, AttInv, AtRest, TypeOK, SetAtt, MayRaise, MayLower, Values, chip
<1>2. TypeOK'
  BY <1>1, AttenuatorAssumption DEF AttInv, TypeOK, AgeBound
<1>3. AtRest'
  BY <1>1 DEF AttInv, AtRest
<1>4. TransferInv'
  BY <1>1, Counts DEF TransferInv
<1> QED
  BY <1>1, <1>2, <1>3, <1>4 DEF AttInv, HfdlReportIsTrue, ReportIsTrue

LEMMA ClientSetsKeeps == AttInv /\ ClientSets => AttInv'
<1> SUFFICES ASSUME AttInv, ClientSets PROVE AttInv'
  OBVIOUS
<1>1. /\ server = "hpsdr" /\ pc = "idle" /\ pc' = "writing" /\ step = 1 /\ step' = 1
      /\ att' \in Values /\ reported' = NoValue
      /\ UNCHANGED <<server, pins, shift, latch, buffered, age, ovf>>
  BY DEF ClientSets, AttInv, AtRest, SetAtt, chip
<1>2. TypeOK'
  BY <1>1 DEF AttInv, TypeOK
<1> QED
  BY <1>1, <1>2 DEF AttInv, AtRest, TransferInv, HfdlReportIsTrue

(* The end of the HPSDR server's program, and what stdio writes then.      *)
LEMMA ExitKeeps == AttInv /\ (Exit \/ (FlushAtExit /\ server = "hpsdr")) => AttInv'
<1> SUFFICES ASSUME AttInv, Exit \/ (FlushAtExit /\ server = "hpsdr") PROVE AttInv'
  OBVIOUS
<1>1. CASE Exit
  <2>1. /\ server = "hpsdr" /\ pc' = "exiting" /\ step = 1
        /\ UNCHANGED <<server, pins, shift, latch, buffered, step, att, age, ovf, reported>>
    BY <1>1 DEF Exit, AttInv, AtRest, chip
  <2>2. TypeOK'
    BY <2>1 DEF AttInv, TypeOK
  <2> QED
    BY <2>1, <2>2 DEF AttInv, AtRest, TransferInv, HfdlReportIsTrue
<1>2. CASE FlushAtExit /\ server = "hpsdr"
  <2>1. PICK p \in Pins : Flush(p) /\ buffered' = [buffered EXCEPT ![p] = 0]
    BY <1>2 DEF FlushAtExit
  <2>2. UNCHANGED <<server, pc, step, att, age, ovf, reported>>
    BY <1>2 DEF FlushAtExit
  <2>3. /\ pins' \in [Pins -> {0, 1}]
        /\ shift' \in Registers /\ latch' \in Registers
        /\ pins'.le = 1 => latch' = shift'
    BY <2>1, FlushTypes DEF AttInv, TypeOK
  <2>4. buffered' \in [Pins -> 0..BufSize]
    BY <2>1, AttenuatorAssumption DEF AttInv, TypeOK
  <2>5. TypeOK'
    BY <2>2, <2>3, <2>4 DEF AttInv, TypeOK
  <2> QED
    BY <1>2, <2>2, <2>3, <2>5 DEF AttInv, AtRest, TransferInv, HfdlReportIsTrue
<1> QED
  BY <1>1, <1>2

LEMMA CrashKeeps == AttInv /\ Crash => AttInv'
<1> SUFFICES ASSUME AttInv, Crash PROVE AttInv'
  OBVIOUS
<1>1. TypeOK'
  BY AttenuatorAssumption DEF AttInv, TypeOK, Crash, chip, Pins
<1>2. AtRest'
  BY AttenuatorAssumption, Counts DEF Crash, AtRest, Pins
<1> QED
  BY <1>1, <1>2 DEF AttInv, Crash, chip, TransferInv, HfdlReportIsTrue, ReportIsTrue

(* The input and the clock change nothing else.                            *)
LEMMA WorldKeeps == AttInv /\ (Signal \/ \E d \in ClockSteps \cup {1} : Pass(d)) => AttInv'
<1> SUFFICES ASSUME AttInv, Signal \/ \E d \in ClockSteps \cup {1} : Pass(d) PROVE AttInv'
  OBVIOUS
<1>1. UNCHANGED <<server, pins, shift, latch, buffered, pc, step, att, reported>>
  BY DEF Signal, Pass, chip
<1>2. age' \in -AgeBound..(CalmWait + 1) /\ ovf' \in BOOLEAN
  <2>1. /\ age \in -AgeBound..(CalmWait + 1) /\ ovf \in BOOLEAN
        /\ CalmWait \in Int /\ ClockSteps \cup {1} \subseteq Int
    BY AttenuatorAssumption DEF AttInv, TypeOK
  <2>2. CASE Signal
    BY <2>1, <2>2 DEF Signal
  <2>3. ASSUME NEW d \in ClockSteps \cup {1}, Pass(d)
        PROVE  age' \in -AgeBound..(CalmWait + 1) /\ ovf' \in BOOLEAN
    <3>1. /\ age + d >= -AgeBound /\ ovf' = ovf
          /\ age' = IF age + d < CalmWait + 1 THEN age + d ELSE CalmWait + 1
      BY <2>3 DEF Pass, Older, Lower
    <3>2. d \in Int /\ age \in Int /\ CalmWait \in Nat
      BY <2>1, AttenuatorAssumption DEF AgeBound
    <3> QED
      BY <2>1, <3>1, <3>2 DEF AgeBound
  <2> QED
    BY <2>2, <2>3
<1> QED
  BY <1>1, <1>2
  DEF AttInv, TypeOK, AtRest, TransferInv, HfdlReportIsTrue, ReportIsTrue

-----------------------------------------------------------------------------
LEMMA AttSteps ==
    AttInv /\ [Next]_vars
      => AttInv' /\ (server = "hfdl" /\ latch' # latch => latch' = Register(att))
<1> SUFFICES ASSUME AttInv, [Next]_vars
             PROVE  AttInv' /\ (server = "hfdl" /\ latch' # latch => latch' = Register(att))
  OBVIOUS
<1>1. CASE Boot
  BY <1>1, BootKeeps DEF Boot
<1>2. CASE Write
  <2>1. att' = att /\ server \in {"hfdl", "hpsdr"}
    BY <1>2 DEF Write, AttInv, TypeOK
  <2> QED
    BY <1>2, <2>1, HfdlWriteKeeps, HpsdrWriteKeeps
<1>3. CASE Adjust
  BY <1>3, AdjustKeeps DEF Adjust, chip
<1>4. CASE ClientSets
  BY <1>4, ClientSetsKeeps DEF ClientSets, chip
<1>5. CASE Crash
  BY <1>5, CrashKeeps DEF Crash, chip
<1>8. CASE Exit
  BY <1>8, ExitKeeps DEF Exit
<1>9. CASE FlushAtExit
  <2>1. server = "hpsdr"
    BY <1>9 DEF FlushAtExit, AttInv, AtRest, TypeOK
  <2> QED
    BY <1>9, <2>1, ExitKeeps
<1>6. CASE Signal \/ Pass(1) \/ \E d \in ClockSteps : Pass(d)
  <2>1. Signal \/ \E d \in ClockSteps \cup {1} : Pass(d)
    BY <1>6
  <2>2. latch' = latch
    BY <1>6 DEF Signal, Pass, chip
  <2> QED
    BY <2>1, <2>2, WorldKeeps
<1>7. CASE UNCHANGED vars
  BY <1>7 DEF vars, chip, AttInv, TypeOK, AtRest, TransferInv, HfdlReportIsTrue, ReportIsTrue
<1> QED
  BY <1>1, <1>2, <1>3, <1>4, <1>5, <1>6, <1>7, <1>8, <1>9 DEF Next, Program

(* Through crashes in the middle of transfers and clocks that are set back *)
(* the chip's register and the pins of the HFDL copy are what the next step *)
(* of set_att_value() in peri.c counts on.                                 *)
THEOREM AttInvariant == Spec => []AttInv
<1>1. AttInv /\ [Next]_vars => AttInv'
  BY AttSteps
<1> QED
  BY AttStarts, <1>1, PTL DEF Spec

(* Every variable of the attenuator has its type: the control's uint8_t    *)
(* never leaves 0..63, and no buffer of a pin's file runs over.            *)
THEOREM AttTypes == Spec => []TypeOK
<1>1. AttInv => TypeOK
  BY DEF AttInv
<1> QED
  BY AttInvariant, <1>1, PTL

(* What the HFDL server printed as set is what the chip has, for registers *)
(* of any width, whatever the register held when the program started.      *)
THEOREM HfdlReportsAreTrue == Spec => []HfdlReportIsTrue
<1>1. AttInv => HfdlReportIsTrue
  BY DEF AttInv
<1> QED
  BY AttInvariant, <1>1, PTL

(* No half shifted register of the HFDL receiver ever comes into effect: a *)
(* step that changes the latch brings in the value being set.              *)
THEOREM NothingPartial == Spec => NoPartialValue
<1>1. AttInv /\ [Next]_vars => [server = "hfdl" /\ latch' # latch => latch' = Register(att)]_vars
  BY AttSteps
<1> QED
  BY AttInvariant, <1>1, PTL DEF Spec, NoPartialValue

=============================================================================
