------------------------------ MODULE HfdlServer ------------------------------
(***************************************************************************)
(* The main loop of projects/hfdl_receiver/server/hfdl-receiver.c: one     *)
(* thread that, pass after pass, empties the sample FIFO of the FPGA into  *)
(* the ports' send buffers, looks after the listening sockets, and sends.  *)
(*                                                                         *)
(* Every port has its own static turn in two round robins, one of the      *)
(* network maintenance and one of the flush, and a pass serves one system  *)
(* call's worth of ports at most.  Around the loop run the FPGA, the       *)
(* clients, the time and chrony, which steps the clock that microtime()    *)
(* reads ("makestep 1 -1" in alpine/etc/chrony/chrony.conf).               *)
(*                                                                         *)
(* SendQueue is about the bytes in a port's send buffer, RxFifo about the  *)
(* samples in the FIFO.  Here a buffer is the number of pieces in it, as   *)
(* far as flushClient() cares: SendPieces stands for its minimum or more.  *)
(* (It stays there when normalizeSendq() drops half a buffer of 2520 or    *)
(* more chunks: what is left exceeds the minimum.)  Time is in ticks.      *)
(* Instants are kept as their distance to the present, so that behaviours  *)
(* need not end: xAge is microtime() - x.                                  *)
(***************************************************************************)
EXTENDS Integers

CONSTANTS
    NumChans,      \* NUMCHANS; port NumChans + i serves channel i as CU8
    Freqs, NoFreq, \* frequencies that clients ask for, and none
    SendPieces,    \* flushClient()'s minimum and limit, in pieces
    StallTime,     \* the two seconds after which a stalled client is closed
    PassTime,      \* the 100 ms between two rounds of maintenance
    ClockSteps,    \* by how much chrony may step the clock
    PeerStates     \* what clients may do: "reads", "stalls", "gone"

ASSUME HfdlAssumption ==
    /\ NumChans \in Nat \ {0}
    /\ NoFreq \notin Freqs
    /\ SendPieces \in Nat \ {0}
    /\ StallTime \in Nat \ {0} /\ PassTime \in Nat \ {0}
    /\ ClockSteps \subseteq Int
    /\ PeerStates \subseteq {"reads", "stalls", "gone"}

NumClients == 2 * NumChans
Ports == 0..(NumClients - 1)
Chans == 0..(NumChans - 1)

VARIABLES
    pc,         \* where the loop is: "top", "copy", "net", "flush"
    done,       \* doneSomething
    sysCalls,   \* sysCalls of the round robin that runs
    netId,      \* static id of the maintenance
    flushId,    \* static id of the flush
    due,        \* now > nextNetworkMaintenance
    nextAge,    \* microtime() - nextNetworkMaintenance
    progAge,    \* microtime() - cl->lastProgress
    open,       \* cl->fd # -1
    waiting,    \* pieces in cl's send buffer, up to SendPieces
    rxFreq,     \* rx_freq
    backlog,    \* connections the kernel completed and nobody accepted
    peer,       \* what the accepted client does: "reads", "stalls", "gone"
    inbox,      \* on a CS16 port, its command that is not yet read
    quiet       \* history: ticks since an open connection made progress

server == <<pc, done, sysCalls, netId, flushId, due>>
times  == <<nextAge, progAge, quiet>>
conns  == <<open, waiting, rxFreq>>
world  == <<backlog, peer, inbox>>
vars   == <<server, times, conns, world>>

-----------------------------------------------------------------------------
Lesser(a, b) == IF a < b THEN a ELSE b

(* Beyond these ages nothing changes any more.                             *)
Aged(age, t, limit) == Lesser(age + t, limit + 1)

Init ==
    /\ pc = "top" /\ done = FALSE /\ sysCalls = 0
    /\ netId = 0 /\ flushId = 0
    /\ due = FALSE /\ nextAge = PassTime + 1
    /\ progAge = [c \in Ports |-> StallTime + 1]
    /\ quiet = [c \in Ports |-> 0]
    /\ open = [c \in Ports |-> FALSE]
    /\ waiting = [c \in Ports |-> 0]
    /\ rxFreq = [i \in Chans |-> NoFreq]
    /\ backlog = [c \in Ports |-> FALSE]
    /\ peer = [c \in Ports |-> "reads"]
    /\ inbox = [c \in Chans |-> NoFreq]

-----------------------------------------------------------------------------
(* The top of the loop.  The attenuator may be set (agc), which counts as  *)
(* doing something.  RxFifo is about the FIFO that is looked at here.      *)
BeginPass(agc) ==
    /\ pc = "top"
    /\ done' = agc
    /\ pc' = "copy"
    /\ UNCHANGED <<sysCalls, netId, flushId, due, times, conns, world>>

(* One chunk goes from the FIFO to every port that has a client; a pass    *)
(* finds any number of chunks.                                             *)
CopyChunk ==
    /\ pc = "copy"
    /\ waiting' = [c \in Ports |->
                     IF open[c] THEN Lesser(waiting[c] + 1, SendPieces)
                     ELSE waiting[c]]
    /\ done' = TRUE
    /\ UNCHANGED <<pc, sysCalls, netId, flushId, due, times,
                   open, rxFreq, world>>

(* Where a round robin goes on: a finished round starts again.             *)
Turn_AlwaysFirst(id) == 0
Turn(id) == IF id = NumClients THEN 0 ELSE id

(* No whole chunk is left.  With something done the pass is over.  Else    *)
(* the maintenance runs if it is due, and if not, the flush.  Both read    *)
(* the clock; a new round of maintenance puts off the one after it.        *)
EndOfPass == pc' = "top" /\ UNCHANGED <<netId, flushId, due, nextAge>>

StartMaintenance ==
    /\ pc' = "net"
    /\ netId' = Turn(netId)
    /\ nextAge' = IF netId = NumClients THEN -PassTime ELSE nextAge
    /\ due' = (nextAge' > 0)
    /\ UNCHANGED flushId

StartFlush_StaleNow ==
    /\ pc' = "flush"
    /\ flushId' = Turn(flushId)
    /\ UNCHANGED <<netId, due, nextAge>>
StartFlush ==
    /\ pc' = "flush"
    /\ flushId' = Turn(flushId)
    /\ due' = (nextAge > 0)
    /\ UNCHANGED <<netId, nextAge>>

CopyDone ==
    /\ pc = "copy"
    /\ \/ done /\ EndOfPass
       \/ ~done /\ due /\ StartMaintenance
       \/ ~done /\ ~due /\ StartFlush
    /\ done' = FALSE
    /\ UNCHANGED <<sysCalls, progAge, quiet, conns, world>>

(* A socket that is closed forgets its peer and what the peer sent.        *)
CloseClient(c) ==
    /\ open' = [open EXCEPT ![c] = FALSE]
    /\ quiet' = [quiet EXCEPT ![c] = 0]
    /\ peer' = [peer EXCEPT ![c] = "reads"]
    /\ inbox' = [i \in Chans |-> IF i = c THEN NoFreq ELSE inbox[i]]

(* acceptClient() when a connection waits.                                 *)
AcceptClient_KeepsProgress(c) ==
    /\ waiting' = [waiting EXCEPT ![c] = 0]
    /\ UNCHANGED progAge
AcceptClient(c) ==
    /\ waiting' = [waiting EXCEPT ![c] = 0]
    /\ progAge' = [progAge EXCEPT ![c] = 0]

(* "only allow CS16 clients to set frequency"                              *)
HasCommand_OffByOne(c) == c < NumChans - 1 /\ inbox[c] # NoFreq
HasCommand(c) == c < NumChans /\ inbox[c] # NoFreq

(* One turn of the maintenance, which is all a pass has time for, since    *)
(* every turn makes a system call.  A free port accepts; a port with a     *)
(* client (also one just accepted) turns a further connection away, reads  *)
(* a command if it is a CS16 port, and closes if that fails.  The model's  *)
(* backlog holds one, so no second connection is behind an accepted one.   *)
MaintainPort ==
    /\ pc = "net"
    /\ LET c == netId
           accepts == ~open[c] /\ backlog[c]
           reads == (open[c] \/ accepts) /\ HasCommand(c)
       IN  /\ backlog' = [backlog EXCEPT ![c] = FALSE]
           /\ IF accepts THEN AcceptClient(c) ELSE UNCHANGED <<waiting, progAge>>
           /\ \/ /\ reads
                 /\ rxFreq' = [rxFreq EXCEPT ![c] = inbox[c]]
                 /\ inbox' = [inbox EXCEPT ![c] = NoFreq]
                 /\ open' = [open EXCEPT ![c] = TRUE]
                 /\ UNCHANGED <<peer, quiet>>
              \/ /\ open[c] /\ c < NumChans /\ peer[c] = "gone"
                 /\ CloseClient(c)
                 /\ UNCHANGED rxFreq
              \/ /\ ~reads
                 /\ open' = [open EXCEPT ![c] = @ \/ accepts]
                 /\ UNCHANGED <<rxFreq, inbox, peer, quiet>>
    /\ netId' = netId + 1
    /\ pc' = "top"
    /\ UNCHANGED <<done, sysCalls, flushId, due, nextAge>>

(* One turn of the flush: the outcomes of flushClient().                   *)
Flushing_OneCallMore(c) ==
    /\ pc = "flush" /\ flushId < NumClients /\ sysCalls <= 1
    /\ c = flushId
    /\ flushId' = flushId + 1
    /\ UNCHANGED <<pc, done, netId, due, nextAge, rxFreq, backlog>>
Flushing(c) ==
    /\ pc = "flush" /\ flushId < NumClients /\ sysCalls < 1
    /\ c = flushId
    /\ flushId' = flushId + 1
    /\ UNCHANGED <<pc, done, netId, due, nextAge,
                   rxFreq, backlog>>

FlushNothing(c) ==
    /\ Flushing(c)
    /\ ~open[c] \/ waiting[c] < SendPieces
    /\ UNCHANGED <<sysCalls, progAge, quiet, open, waiting, peer, inbox>>

FlushSends(c) ==
    /\ Flushing(c)
    /\ open[c] /\ waiting[c] = SendPieces /\ peer[c] = "reads"
    /\ \E n \in 0..SendPieces : waiting' = [waiting EXCEPT ![c] = n]
    /\ progAge' = [progAge EXCEPT ![c] = 0]
    /\ quiet' = [quiet EXCEPT ![c] = 0]
    /\ sysCalls' = sysCalls + 1
    /\ UNCHANGED <<open, peer, inbox>>

(* EAGAIN: the system call counts, and an old enough stall closes.         *)
FlushBlocks_CountsAsProgress(c) ==
    /\ Flushing(c)
    /\ open[c] /\ waiting[c] = SendPieces /\ peer[c] = "stalls"
    /\ sysCalls' = sysCalls + 1
    /\ progAge' = [progAge EXCEPT ![c] = 0]
    /\ UNCHANGED <<open, peer, inbox, quiet, waiting>>
FlushBlocks(c) ==
    /\ Flushing(c)
    /\ open[c] /\ waiting[c] = SendPieces /\ peer[c] = "stalls"
    /\ sysCalls' = sysCalls + 1
    /\ IF progAge[c] > StallTime
       THEN CloseClient(c)
       ELSE UNCHANGED <<open, peer, inbox, quiet>>
    /\ UNCHANGED <<progAge, waiting>>

(* send() fails: the port is closed and the turn goes on.                  *)
FlushFails(c) ==
    /\ Flushing(c)
    /\ open[c] /\ waiting[c] = SendPieces /\ peer[c] = "gone"
    /\ CloseClient(c)
    /\ UNCHANGED <<sysCalls, progAge, waiting>>

(* The pass ends, with or without usleep(500); the next one has its own    *)
(* doneSomething and sysCalls.                                             *)
FlushDone ==
    /\ pc = "flush" /\ (flushId = NumClients \/ sysCalls >= 1)
    /\ pc' = "top"
    /\ sysCalls' = 0
    /\ UNCHANGED <<done, netId, flushId, due,
                   times, conns, world>>

-----------------------------------------------------------------------------
Connect(c) ==
    /\ ~backlog[c]
    /\ backlog' = [backlog EXCEPT ![c] = TRUE]
    /\ UNCHANGED <<server, times, conns, peer, inbox>>

SendCommand(c, f) ==
    /\ open[c] \/ backlog[c]
    /\ peer[c] # "gone" /\ inbox[c] = NoFreq
    /\ inbox' = [inbox EXCEPT ![c] = f]
    /\ UNCHANGED <<server, times, conns, backlog, peer>>

PeerChanges(c, p) ==
    /\ open[c] /\ peer[c] # "gone" /\ peer[c] # p
    /\ peer' = [peer EXCEPT ![c] = p]
    /\ UNCHANGED <<server, times, conns, backlog, inbox>>

(* Time passes.  A round robin works with the instant it read at its       *)
(* start, so a tick within one is the tick after it.                       *)
Tick ==
    /\ pc \in {"top", "copy"}
    /\ nextAge' = Aged(nextAge, 1, PassTime)
    /\ progAge' = [c \in Ports |-> Aged(progAge[c], 1, StallTime)]
    /\ quiet' = [c \in Ports |->
                   IF open[c] THEN Aged(quiet[c], 1, StallTime) ELSE 0]
    /\ UNCHANGED <<server, conns, world>>

(* chrony steps the clock; -StepBound is how far back ages are followed.   *)
StepBound == PassTime

ClockStep(d) ==
    /\ pc \in {"top", "copy"}
    /\ nextAge + d >= -StepBound
    /\ \A c \in Ports : progAge[c] + d >= -StepBound
    /\ nextAge' = Aged(nextAge, d, PassTime)
    /\ progAge' = [c \in Ports |-> Aged(progAge[c], d, StallTime)]
    /\ UNCHANGED <<server, quiet, conns, world>>

-----------------------------------------------------------------------------
Loop ==
    \/ \E agc \in BOOLEAN : BeginPass(agc)
    \/ CopyChunk \/ CopyDone
    \/ MaintainPort
    \/ \E c \in Ports : FlushNothing(c) \/ FlushSends(c)
                        \/ FlushBlocks(c) \/ FlushFails(c)
    \/ FlushDone

Environment ==
    \/ Tick
    \/ \E d \in ClockSteps : ClockStep(d)
    \/ \E c \in Chans, f \in Freqs : SendCommand(c, f)
    \/ \E c \in Ports :
          \/ Connect(c)
          \/ \E p \in PeerStates : PeerChanges(c, p)

Next == Loop \/ Environment

Spec == Init /\ [][Next]_vars

(* The loop never rests, and time goes on; round robins interrupt Tick in  *)
(* the model only.                                                         *)
Fairness == WF_vars(Loop) /\ SF_vars(Tick)

(* The processor keeps up with the FPGA: again and again a chunk is copied *)
(* (the FIFO is not always found full), and a pass finds no chunk and does *)
(* not set the attenuator, which happens once in two seconds.              *)
IdlePass == CopyDone /\ ~done
KeepsUp  == []<><<CopyChunk>>_vars /\ []<><<IdlePass>>_vars

(* chrony steps the clock when it corrects it, not for ever.               *)
ClockSettles == <>[][\A d \in ClockSteps : ~ClockStep(d)]_vars

LiveSpec == Spec /\ Fairness /\ KeepsUp /\ ClockSettles

-----------------------------------------------------------------------------
TypeOK ==
    /\ pc \in {"top", "copy", "net", "flush"}
    /\ done \in BOOLEAN /\ sysCalls \in 0..1
    /\ netId \in 0..NumClients /\ flushId \in 0..NumClients
    /\ due \in BOOLEAN
    /\ nextAge \in -StepBound..(PassTime + 1)
    /\ progAge \in [Ports -> -StepBound..(StallTime + 1)]
    /\ quiet \in [Ports -> 0..(StallTime + 1)]
    /\ open \in [Ports -> BOOLEAN]
    /\ waiting \in [Ports -> 0..SendPieces]
    /\ rxFreq \in [Chans -> Freqs \cup {NoFreq}]
    /\ backlog \in [Ports -> BOOLEAN]
    /\ peer \in [Ports -> {"reads", "stalls", "gone"}]
    /\ inbox \in [Chans -> Freqs \cup {NoFreq}]

(* "if send hasn't actually sent any bytes in 2 second, disconnect this    *)
(* client": a client that stalls is closed only after it took nothing for  *)
(* that long, counted from its own last progress.                          *)
NoEarlyDisconnect ==
    [][\A c \in Ports :
         open[c] /\ ~open'[c] /\ peer[c] = "stalls" => quiet[c] > StallTime
      ]_vars

(* Every connection attempt on every port is answered: accepted, or turned *)
(* away because the port has a client.                                     *)
ConnectionsAnswered == \A c \in Ports : backlog[c] ~> ~backlog[c]

(* A frequency command on a CS16 port is carried out, however busy the     *)
(* other ports are, or its client is gone.                                 *)
CommandsServed ==
    \A c \in Chans : open[c] /\ inbox[c] # NoFreq ~> inbox[c] = NoFreq

(* A client that reads gets data while there is some: no port is starved   *)
(* by the others, the maintenance or the FIFO.                             *)
ReadersProgress ==
    \A c \in Ports :
        open[c] /\ peer[c] = "reads" /\ waiting[c] = SendPieces /\ quiet[c] > 0
        ~> (quiet[c] = 0 \/ peer[c] # "reads" \/ ~open[c])

(* A client that stalls for good, or is gone, does not keep its port: the  *)
(* port is free again some time.                                           *)
DeadClientsLeave ==
    \A c \in Ports : open[c] /\ peer[c] # "reads"
                      ~> (~open[c] \/ peer[c] = "reads")
=============================================================================
