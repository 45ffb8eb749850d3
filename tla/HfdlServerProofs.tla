--------------------------- MODULE HfdlServerProofs ---------------------------
(***************************************************************************)
(* Theorems about HfdlServer, for every number of channels and whatever    *)
(* the clients do: the turns of the two round robins stay in range, and a  *)
(* stalled client has its two seconds, as long as nothing steps the clock  *)
(* forward.                                                                *)
(***************************************************************************)
EXTENDS HfdlServer, TLAPS

(* What the code thinks is the time since a client's progress, on a clock  *)
(* that may be set back, is at most the time that has passed.  This is     *)
(* what NoEarlyDisconnect rests on; the property itself is about a step.   *)
NotLate == \A c \in Ports : open[c] => progAge[c] <= quiet[c]

-----------------------------------------------------------------------------
LEMMA Bounds ==
    /\ NumChans \in Nat /\ NumChans > 0
    /\ NumClients \in Nat /\ NumClients > 0
    /\ SendPieces \in Nat /\ SendPieces > 0
    /\ StallTime \in Nat /\ StallTime > 0 /\ PassTime \in Nat /\ PassTime > 0
    /\ StepBound = PassTime
    /\ Chans \subseteq Ports
    /\ \A c \in Ports : c < NumChans => c \in Chans
  BY HfdlAssumption DEF NumClients, StepBound, Chans, Ports

(* An age that is followed within its bounds stays within them.            *)
LEMMA AgeStays ==
    ASSUME NEW limit \in Nat, NEW age \in -StepBound..(limit + 1), NEW t \in Int,
           age + t >= -StepBound
    PROVE  Aged(age, t, limit) \in -StepBound..(limit + 1)
  BY Bounds DEF Aged, Lesser

LEMMA InitTypeOK == Init => TypeOK
<1> SUFFICES ASSUME Init PROVE TypeOK
  OBVIOUS
<1>1. /\ 0 \in 0..NumClients /\ 0 \in 0..SendPieces /\ 0 \in 0..(StallTime + 1)
      /\ 0 \in 0..1
      /\ PassTime + 1 \in -StepBound..(PassTime + 1)
      /\ StallTime + 1 \in -StepBound..(StallTime + 1)
  BY Bounds
<1>2. /\ progAge \in [Ports -> -StepBound..(StallTime + 1)]
      /\ quiet \in [Ports -> 0..(StallTime + 1)] /\ waiting \in [Ports -> 0..SendPieces]
  BY <1>1 DEF Init
<1>3. /\ open \in [Ports -> BOOLEAN] /\ backlog \in [Ports -> BOOLEAN]
      /\ rxFreq \in [Chans -> Freqs \cup {NoFreq}] /\ inbox \in [Chans -> Freqs \cup {NoFreq}]
      /\ peer \in [Ports -> {"reads", "stalls", "gone"}]
  BY DEF Init
<1> QED
  BY Zenon, <1>1, <1>2, <1>3 DEF Init, TypeOK

(* A port that is closed keeps its neighbours' state.                      *)
LEMMA ClosingTypes ==
    ASSUME TypeOK, NEW c \in Ports, CloseClient(c)
    PROVE  /\ open' \in [Ports -> BOOLEAN] /\ quiet' \in [Ports -> 0..(StallTime + 1)]
           /\ peer' \in [Ports -> {"reads", "stalls", "gone"}]
           /\ inbox' \in [Chans -> Freqs \cup {NoFreq}]
           /\ \A d \in Ports : d # c => open'[d] = open[d] /\ quiet'[d] = quiet[d]
           /\ open'[c] = FALSE
<1>1. 0 \in 0..(StallTime + 1)
  BY Bounds
<1> QED
  BY <1>1 DEF CloseClient, TypeOK

LEMMA MaintainTypes ==
    ASSUME TypeOK, NEW c \in Ports, c = netId, MaintainPort
    PROVE  TypeOK'
<1> DEFINE accepts == ~open[c] /\ backlog[c]
<1>1. /\ waiting' \in [Ports -> 0..SendPieces]
      /\ progAge' \in [Ports -> -StepBound..(StallTime + 1)]
  <2>1. 0 \in 0..SendPieces /\ 0 \in -StepBound..(StallTime + 1)
    BY Bounds
  <2>2. IF accepts THEN AcceptClient(c) ELSE UNCHANGED <<waiting, progAge>>
    BY DEF MaintainPort
  <2> QED
    BY <2>1, <2>2 DEF AcceptClient, TypeOK
<1>2. /\ rxFreq' \in [Chans -> Freqs \cup {NoFreq}]
      /\ inbox' \in [Chans -> Freqs \cup {NoFreq}]
      /\ open' \in [Ports -> BOOLEAN] /\ quiet' \in [Ports -> 0..(StallTime + 1)]
      /\ peer' \in [Ports -> {"reads", "stalls", "gone"}]
  <2>1. CASE /\ HasCommand(c)
             /\ rxFreq' = [rxFreq EXCEPT ![c] = inbox[c]]
             /\ inbox' = [inbox EXCEPT ![c] = NoFreq]
             /\ open' = [open EXCEPT ![c] = TRUE]
             /\ UNCHANGED <<peer, quiet>>
    <3>1. c \in Chans
      BY <2>1, Bounds DEF HasCommand
    <3> QED
      BY <2>1, <3>1 DEF TypeOK
  <2>2. CASE CloseClient(c) /\ UNCHANGED rxFreq
    BY <2>2, ClosingTypes DEF TypeOK
  <2>3. CASE /\ open' = [open EXCEPT ![c] = @ \/ accepts]
             /\ UNCHANGED <<rxFreq, inbox, peer, quiet>>
    <3>1. (open[c] \/ accepts) \in BOOLEAN
      OBVIOUS
    <3>2. open' \in [Ports -> BOOLEAN]
      BY <2>3, <3>1 DEF TypeOK
    <3> QED
      BY <2>3, <3>2 DEF TypeOK
  <2> QED
    BY <2>1, <2>2, <2>3 DEF MaintainPort
<1>3. netId' \in 0..NumClients /\ pc' = "top" /\ backlog' \in [Ports -> BOOLEAN]
  BY Bounds DEF MaintainPort, TypeOK, Ports
<1>4. UNCHANGED <<done, sysCalls, flushId, due, nextAge>>
  BY DEF MaintainPort
<1> QED
  BY <1>1, <1>2, <1>3, <1>4 DEF TypeOK

LEMMA FlushTypes ==
    ASSUME TypeOK, NEW c \in Ports,
           FlushNothing(c) \/ FlushSends(c) \/ FlushBlocks(c) \/ FlushFails(c)
    PROVE  TypeOK'
<1>1. /\ flushId' \in 0..NumClients
      /\ UNCHANGED <<pc, done, netId, due, nextAge, rxFreq, backlog>>
  BY Bounds DEF FlushNothing, FlushSends, FlushBlocks, FlushFails, Flushing, TypeOK
<1>2. sysCalls' \in 0..1
  BY DEF FlushNothing, FlushSends, FlushBlocks, FlushFails, Flushing, TypeOK
<1>3. /\ waiting' \in [Ports -> 0..SendPieces]
      /\ progAge' \in [Ports -> -StepBound..(StallTime + 1)]
  <2>1. 0 \in -StepBound..(StallTime + 1)
    BY Bounds
  <2> QED
    BY <2>1 DEF FlushNothing, FlushSends, FlushBlocks, FlushFails, TypeOK
<1>4. /\ inbox' \in [Chans -> Freqs \cup {NoFreq}]
      /\ open' \in [Ports -> BOOLEAN] /\ quiet' \in [Ports -> 0..(StallTime + 1)]
      /\ peer' \in [Ports -> {"reads", "stalls", "gone"}]
  <2>1. CASE CloseClient(c)
    BY <2>1, ClosingTypes
  <2>2. CASE UNCHANGED <<open, peer, inbox>> /\ quiet' \in {quiet, [quiet EXCEPT ![c] = 0]}
    <3>1. 0 \in 0..(StallTime + 1)
      BY Bounds
    <3> QED
      BY <2>2, <3>1 DEF TypeOK
  <2> QED
    BY <2>1, <2>2 DEF FlushNothing, FlushSends, FlushBlocks, FlushFails
<1> QED
  BY <1>1, <1>2, <1>3, <1>4 DEF TypeOK

LEMMA TimeTypes ==
    ASSUME TypeOK, Tick \/ \E d \in ClockSteps : ClockStep(d)
    PROVE  TypeOK'
<1>1. PICK d \in Int :
        /\ nextAge' = Aged(nextAge, d, PassTime)
        /\ progAge' = [c \in Ports |-> Aged(progAge[c], d, StallTime)]
        /\ nextAge + d >= -StepBound
        /\ \A c \in Ports : progAge[c] + d >= -StepBound
        /\ UNCHANGED <<server, conns, world>>
  <2>1. CASE Tick
    <3>1. nextAge + 1 >= -StepBound /\ \A c \in Ports : progAge[c] + 1 >= -StepBound
      BY Bounds DEF TypeOK
    <3> QED
      BY <2>1, <3>1 DEF Tick
  <2>2. ASSUME NEW e \in ClockSteps, ClockStep(e)
        PROVE  \E d \in Int :
                 /\ nextAge' = Aged(nextAge, d, PassTime)
                 /\ progAge' = [c \in Ports |-> Aged(progAge[c], d, StallTime)]
                 /\ nextAge + d >= -StepBound
                 /\ \A c \in Ports : progAge[c] + d >= -StepBound
                 /\ UNCHANGED <<server, conns, world>>
    BY <2>2, HfdlAssumption DEF ClockStep
  <2> QED
    BY <2>1, <2>2
<1>2. nextAge' \in -StepBound..(PassTime + 1)
  BY <1>1, Bounds, AgeStays DEF TypeOK
<1>3. progAge' \in [Ports -> -StepBound..(StallTime + 1)]
  <2>1. ASSUME NEW c \in Ports PROVE Aged(progAge[c], d, StallTime) \in -StepBound..(StallTime + 1)
    BY <1>1, Bounds, AgeStays DEF TypeOK
  <2> QED
    BY <1>1, <2>1
<1>4. quiet' \in [Ports -> 0..(StallTime + 1)]
  <2>1. ASSUME NEW c \in Ports PROVE Aged(quiet[c], 1, StallTime) \in 0..(StallTime + 1)
    BY Bounds DEF Aged, Lesser, TypeOK
  <2>2. 0 \in 0..(StallTime + 1)
    BY Bounds
  <2> QED
    BY <2>1, <2>2 DEF Tick, ClockStep, TypeOK
<1> QED
  BY <1>1, <1>2, <1>3, <1>4 DEF TypeOK, server, conns, world

-----------------------------------------------------------------------------
(* The maintenance never looks at a port beyond the last, whose turn is    *)
(* what a finished round leaves: MaintainPort does not check.              *)
LoopInv == TypeOK /\ (pc = "net" => netId < NumClients)

LEMMA NextLoopInv == LoopInv /\ [Next]_vars => LoopInv'
<1> SUFFICES ASSUME LoopInv, [Next]_vars PROVE LoopInv'
  OBVIOUS
<1>1. TypeOK /\ (pc = "net" => netId < NumClients)
  BY DEF LoopInv
<1>2. ASSUME NEW agc \in BOOLEAN, BeginPass(agc) PROVE LoopInv'
  BY <1>1, <1>2 DEF BeginPass, LoopInv, TypeOK, times, conns, world
<1>3. CASE CopyChunk
  <2>1. waiting' \in [Ports -> 0..SendPieces]
    <3>1. ASSUME NEW c \in Ports PROVE Lesser(waiting[c] + 1, SendPieces) \in 0..SendPieces
      BY <1>1, Bounds DEF Lesser, TypeOK
    <3> QED
      BY <1>1, <1>3, <3>1 DEF CopyChunk, TypeOK
  <2> QED
    BY <1>1, <1>3, <2>1 DEF CopyChunk, LoopInv, TypeOK, times, world
<1>4. CASE CopyDone
  <2>1. Turn(netId) \in 0..(NumClients - 1) /\ Turn(flushId) \in 0..(NumClients - 1)
    BY <1>1, Bounds DEF Turn, TypeOK
  <2>2. -PassTime \in -StepBound..(PassTime + 1)
    BY Bounds
  <2>3. /\ pc' \in {"top", "net", "flush"} /\ due' \in BOOLEAN
        /\ nextAge' \in -StepBound..(PassTime + 1)
        /\ netId' \in 0..NumClients /\ flushId' \in 0..NumClients
        /\ pc' = "net" => netId' < NumClients
    <3>1. /\ netId \in 0..NumClients /\ flushId \in 0..NumClients /\ due \in BOOLEAN
          /\ nextAge \in -StepBound..(PassTime + 1)
      BY <1>1 DEF TypeOK
    <3>2. CASE EndOfPass
      BY <3>1, <3>2 DEF EndOfPass
    <3>3. CASE StartMaintenance
      <4>1. netId' \in 0..(NumClients - 1) /\ UNCHANGED flushId /\ pc' = "net"
        BY <2>1, <3>3 DEF StartMaintenance
      <4>2. nextAge' \in -StepBound..(PassTime + 1) /\ due' \in BOOLEAN
        BY <2>2, <3>1, <3>3 DEF StartMaintenance
      <4> QED
        BY <3>1, <4>1, <4>2, Bounds
    <3>4. CASE StartFlush
      BY <2>1, <3>1, <3>4, Bounds DEF StartFlush
    <3> QED
      BY <1>4, <3>2, <3>3, <3>4 DEF CopyDone
  <2> QED
    BY <1>1, <1>4, <2>3 DEF CopyDone, LoopInv, TypeOK, conns, world
<1>5. CASE MaintainPort
  <2>1. netId \in Ports
    <3>1. netId \in 0..NumClients /\ netId < NumClients
      BY <1>1, <1>5 DEF MaintainPort, TypeOK
    <3> QED
      BY <3>1, Bounds DEF Ports
  <2>2. TypeOK' /\ pc' = "top"
    BY <1>1, <1>5, <2>1, MaintainTypes DEF MaintainPort
  <2> QED
    BY <2>2 DEF LoopInv
<1>6. ASSUME NEW c \in Ports,
             FlushNothing(c) \/ FlushSends(c) \/ FlushBlocks(c) \/ FlushFails(c)
      PROVE  LoopInv'
  <2>1. TypeOK'
    BY <1>1, <1>6, FlushTypes
  <2>2. UNCHANGED <<pc, netId>>
    BY <1>6 DEF FlushNothing, FlushSends, FlushBlocks, FlushFails, Flushing
  <2> QED
    BY <1>1, <2>1, <2>2, Bounds DEF LoopInv
<1>7. CASE FlushDone
  BY <1>1, <1>7 DEF FlushDone, LoopInv, TypeOK, times, conns, world
<1>8. CASE Tick \/ \E d \in ClockSteps : ClockStep(d)
  <2>1. TypeOK'
    BY <1>1, <1>8, TimeTypes
  <2>2. UNCHANGED <<pc, netId>>
    BY <1>8 DEF Tick, ClockStep, server
  <2> QED
    BY <1>1, <2>1, <2>2, Bounds DEF LoopInv
<1>9. ASSUME NEW c \in Chans, NEW f \in Freqs, SendCommand(c, f) PROVE LoopInv'
  BY <1>1, <1>9 DEF SendCommand, LoopInv, TypeOK, server, times, conns
<1>10. ASSUME NEW c \in Ports, Connect(c) PROVE LoopInv'
  BY <1>1, <1>10 DEF Connect, LoopInv, TypeOK, server, times, conns
<1>11. ASSUME NEW c \in Ports, NEW p \in PeerStates, PeerChanges(c, p) PROVE LoopInv'
  BY <1>1, <1>11, HfdlAssumption
  DEF PeerChanges, LoopInv, TypeOK, server, times, conns
<1>12. CASE UNCHANGED vars
  BY <1>1, <1>12 DEF LoopInv, TypeOK, vars, server, times, conns, world
<1> QED
  BY <1>2, <1>3, <1>4, <1>5, <1>6, <1>7, <1>8, <1>9, <1>10, <1>11, <1>12
  DEF Next, Loop, Environment

THEOREM LoopInvariant == Spec => []LoopInv
<1>1. Init => LoopInv
  BY InitTypeOK DEF Init, LoopInv
<1> QED
  BY <1>1, NextLoopInv, PTL DEF Spec

(* Every variable of the loop has its type: no turn, no counter of system  *)
(* calls and no count of pieces runs out of its range.                     *)
THEOREM LoopTypes == Spec => []TypeOK
  BY LoopInvariant, PTL DEF LoopInv

-----------------------------------------------------------------------------
(* A client's progress is never later on the code's clock than in truth.   *)
LEMMA NextNotLate ==
    ASSUME TypeOK, NotLate, [Next]_vars, \A d \in ClockSteps : d <= 0
    PROVE  NotLate'
<1> SUFFICES ASSUME NEW c \in Ports, open'[c] PROVE progAge'[c] <= quiet'[c]
  BY DEF NotLate
<1>1. /\ open[c] => progAge[c] <= quiet[c]
      /\ progAge[c] \in Int /\ quiet[c] \in Nat
      /\ open \in [Ports -> BOOLEAN] /\ progAge \in [Ports -> -StepBound..(StallTime + 1)]
      /\ quiet \in [Ports -> 0..(StallTime + 1)]
  BY Bounds DEF NotLate, TypeOK
<1>2. CASE UNCHANGED <<open, progAge, quiet>>
  BY <1>1, <1>2
<1>3. CASE MaintainPort
  <2>1. open[c] \/ (c = netId /\ backlog[netId])
    BY <1>1, <1>3 DEF MaintainPort, CloseClient
  <2>2. quiet'[c] = quiet[c]
    BY <1>1, <1>3 DEF MaintainPort, CloseClient
  <2>3. CASE open[c]
    <3>1. progAge'[c] = progAge[c]
      BY <1>1, <1>3, <2>3 DEF MaintainPort, AcceptClient
    <3> QED
      BY <1>1, <2>2, <2>3, <3>1
  <2>4. CASE ~open[c]
    <3>1. progAge'[c] = 0
      BY <1>1, <1>3, <2>1, <2>4 DEF MaintainPort, AcceptClient
    <3> QED
      BY <1>1, <2>2, <3>1
  <2> QED
    BY <2>3, <2>4
<1>4. ASSUME NEW d \in Ports, FlushSends(d) PROVE progAge'[c] <= quiet'[c]
  BY <1>1, <1>4 DEF FlushSends
<1>5. ASSUME NEW d \in Ports, FlushBlocks(d) \/ FlushFails(d)
      PROVE  progAge'[c] <= quiet'[c]
  BY <1>1, <1>5 DEF FlushBlocks, FlushFails, CloseClient
<1>6. CASE Tick
  BY <1>1, <1>6, Bounds DEF Tick, Aged, Lesser, conns
<1>7. ASSUME NEW d \in ClockSteps, ClockStep(d) PROVE progAge'[c] <= quiet'[c]
  <2>1. d \in Int /\ d <= 0
    BY HfdlAssumption
  <2>2. open[c] /\ quiet'[c] = quiet[c] /\ progAge'[c] = Aged(progAge[c], d, StallTime)
    BY <1>7 DEF ClockStep, conns
  <2> QED
    BY <1>1, <2>1, <2>2, Bounds DEF Aged, Lesser
<1> QED
  BY <1>2, <1>3, <1>4, <1>5, <1>6, <1>7
  DEF Next, Loop, Environment, vars, server, times, conns, world,
      BeginPass, CopyChunk, CopyDone, FlushNothing, FlushDone, SendCommand,
      Connect, PeerChanges

(* A stalled client is closed only when the code's clock says so.          *)
LEMMA ClosesLate ==
    ASSUME TypeOK, NotLate, [Next]_vars,
           NEW c \in Ports, open[c], ~open'[c], peer[c] = "stalls"
    PROVE  quiet[c] > StallTime
<1>1. /\ progAge[c] \in Int /\ quiet[c] \in Int /\ progAge[c] <= quiet[c]
      /\ open \in [Ports -> BOOLEAN]
  BY Bounds DEF NotLate, TypeOK
<1>2. CASE MaintainPort
  BY <1>1, <1>2 DEF MaintainPort, CloseClient
<1>3. ASSUME NEW d \in Ports, FlushFails(d) PROVE FALSE
  BY <1>1, <1>3 DEF FlushFails, CloseClient
<1>4. ASSUME NEW d \in Ports, FlushBlocks(d) PROVE quiet[c] > StallTime
  <2>1. d = c /\ progAge[d] > StallTime
    BY <1>1, <1>4 DEF FlushBlocks, CloseClient
  <2> QED
    BY <1>1, <2>1, Bounds
<1>5. CASE UNCHANGED open
  BY <1>5
<1> QED
  BY <1>2, <1>3, <1>4, <1>5
  DEF Next, Loop, Environment, vars, server, times, conns, world,
      BeginPass, CopyChunk, CopyDone, FlushNothing, FlushSends, FlushDone,
      SendCommand, Connect, PeerChanges, Tick, ClockStep

(* "if send hasn't actually sent any bytes in 2 second, disconnect this    *)
(* client": never earlier, unless the clock is stepped forward, and the    *)
(* run hfdl_clock_step shows that it must not be.                          *)
THEOREM StalledClientsHaveTime ==
    ASSUME \A d \in ClockSteps : d <= 0
    PROVE  Spec => NoEarlyDisconnect
<1>1. Init => NotLate
  BY DEF Init, NotLate
<1>2. LoopInv /\ NotLate /\ [Next]_vars => NotLate'
  BY NextNotLate DEF LoopInv
<1>3. LoopInv /\ NotLate /\ [Next]_vars =>
        [\A c \in Ports :
           open[c] /\ ~open'[c] /\ peer[c] = "stalls" => quiet[c] > StallTime]_vars
  BY ClosesLate DEF LoopInv
<1> QED
  BY <1>1, <1>2, <1>3, LoopInvariant, PTL DEF Spec, NoEarlyDisconnect
=============================================================================
