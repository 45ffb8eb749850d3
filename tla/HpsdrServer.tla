----------------------------- MODULE HpsdrServer -----------------------------
(***************************************************************************)
(* projects/sdr_receiver_hpsdr/server/sdr-receiver-hpsdr.c: the main       *)
(* thread answers UDP packets; a detached thread, handler_ep6(), sends the *)
(* samples to whoever asked last for them.  They share plain globals:      *)
(* enable_thread asks the streamer to stop, active_thread says it runs,    *)
(* addr_ep6 is where it sends, receivers is how it packs the samples.      *)
(*                                                                         *)
(* UDP packets may be lost, repeated and reordered, and a packet shorter   *)
(* than four bytes is taken for what the buffer still holds: here any      *)
(* client's packet of any kind may come at any time.  Frequencies, rate    *)
(* and inputs go straight to registers; the attenuator is in Attenuator.   *)
(*                                                                         *)
(* pthread_create() may fail; it then returns a positive number, which the *)
(* test of main(), "< 0", does not notice: active_thread stays set without *)
(* a streamer that could clear it (lost).  The end of the process, when    *)
(* recvfrom() fails or in pthread_detach() of a thread that was never      *)
(* created, is not here: it leaves no state, and a new process is Init.    *)
(***************************************************************************)
EXTENDS Integers, FiniteSets

CONSTANTS
    Clients, NoClient, \* who sends packets; nobody
    Threads,           \* names for the streamers main() creates
    Counts,            \* numbers of receivers asked for, 1..8 in the code
    Depth,             \* level of rx_cntr at which the FIFO is reset, 2048
    Step               \* samples that arrive between two looks at the level

ASSUME HpsdrAssumption ==
    /\ NoClient \notin Clients
    /\ Counts \subseteq 1..8
    /\ Depth \in Nat /\ Depth > 256
    /\ Step \in Nat \ {0}

VARIABLES
    main,       \* main(): "recv", or waiting in a "stop" or "start" packet
    from,       \* addr_from of the packet that main() works on
    enable,     \* enable_thread
    active,     \* active_thread
    dest,       \* addr_ep6
    receivers,
    pc,         \* where a streamer is; "none" before and after its life
    planned,    \* the number of receivers its size, n and m come from
    level,      \* rx_cntr
    owner,      \* history: the client whose packet started a streamer
    lost        \* history: the streamer could not be created

globals  == <<enable, active, dest, receivers, lost>>
streamer == <<pc, planned, owner>>
vars     == <<main, from, globals, streamer, level>>

-----------------------------------------------------------------------------
(* A frame has 504 bytes for samples of 6 bytes a receiver and 2 of the    *)
(* microphone; a datagram has two frames; a batch is about 256 samples.    *)
SamplesPerFrame(r) == 504 \div (6 * r + 2)
Datagrams(r) == 128 \div SamplesPerFrame(r)
Batch(r) == 2 * Datagrams(r) * SamplesPerFrame(r)

Enough_OneFrame(r) == level >= Datagrams(r) * SamplesPerFrame(r)
Enough(r) == level >= Batch(r)

Init ==
    /\ main = "recv" /\ from = NoClient
    /\ enable = FALSE /\ active = FALSE /\ dest = NoClient /\ receivers = 1
    /\ pc = [t \in Threads |-> "none"]
    /\ planned = [t \in Threads |-> 1]
    /\ owner = [t \in Threads |-> NoClient]
    /\ level = 0
    /\ lost = FALSE

-----------------------------------------------------------------------------
(* process_ep2() on the two frames of a command packet.                    *)
SetReceivers ==
    /\ main = "recv"
    /\ \E r \in Counts : receivers' = r
    /\ UNCHANGED <<main, from, enable, active, dest, lost, streamer, level>>

(* Discovery is answered with 2 + active_thread and changes nothing.       *)

Stop ==
    /\ main = "recv"
    /\ enable' = FALSE
    /\ main' = "stop"
    /\ UNCHANGED <<from, active, dest, receivers, lost, streamer, level>>

StopDone ==
    /\ main = "stop" /\ ~active
    /\ main' = "recv"
    /\ UNCHANGED <<from, globals, streamer, level>>

Start_AddressFirst(c) ==
    /\ main = "recv"
    /\ enable' = FALSE
    /\ from' = c /\ dest' = c
    /\ main' = "start"
    /\ UNCHANGED <<active, receivers, lost, streamer, level>>
Start(c) ==
    /\ main = "recv"
    /\ enable' = FALSE
    /\ from' = c
    /\ main' = "start"
    /\ UNCHANGED <<active, dest, receivers, lost, streamer, level>>

(* The old streamer is gone: a new one is made.  active_thread is set      *)
(* before it runs, so that the next packet waits for it too, and stays set *)
(* when it cannot be created.                                              *)
Created(t) ==
    /\ pc[t] = "none"
    /\ pc' = [pc EXCEPT ![t] = "reset"]
    /\ owner' = [owner EXCEPT ![t] = from]
    /\ UNCHANGED lost

NotCreated == lost' = TRUE /\ UNCHANGED <<pc, owner>>

Launch(running) ==
    /\ main = "start"
    /\ dest' = from
    /\ enable' = TRUE /\ active' = running
    /\ NotCreated \/ \E t \in Threads : Created(t)
    /\ main' = "recv"
    /\ from' = NoClient
    /\ UNCHANGED <<receivers, planned, level>>

StartDone_NoWait == Launch(TRUE)
StartDone_SetByThread == ~active /\ Launch(FALSE)
StartDone == ~active /\ Launch(TRUE)

-----------------------------------------------------------------------------
(* handler_ep6().                                                          *)
ResetFifo(t) ==
    /\ pc[t] = "reset"
    /\ level' = 0
    /\ pc' = [pc EXCEPT ![t] = "loop"]
    /\ UNCHANGED <<main, from, globals, planned, owner>>

(* The top of the loop: a full FIFO has lost samples and starts afresh.    *)
Plan(t) ==
    /\ pc[t] = "loop" /\ enable
    /\ planned' = [planned EXCEPT ![t] = receivers]
    /\ level' = IF level >= Depth THEN 0 ELSE level
    /\ pc' = [pc EXCEPT ![t] = "wait"]
    /\ UNCHANGED <<main, from, globals, owner>>

(* The thread ends, and its locals with it.                                *)
Ends(t) ==
    /\ pc[t] = "loop" /\ ~enable
    /\ pc' = [pc EXCEPT ![t] = "none"]
    /\ planned' = [planned EXCEPT ![t] = 1]
    /\ owner' = [owner EXCEPT ![t] = NoClient]
    /\ UNCHANGED <<main, from, enable, dest, receivers, lost, level>>

Leave_KeepsActive(t) == Ends(t) /\ UNCHANGED active
Leave(t) == Ends(t) /\ active' = FALSE

(* Nothing but the level ends this wait, not even enable_thread.           *)
Wait(t) ==
    /\ pc[t] = "wait" /\ Enough(planned[t])
    /\ pc' = [pc EXCEPT ![t] = "copy"]
    /\ UNCHANGED <<main, from, globals, planned, level, owner>>

Copy(t) ==
    /\ pc[t] = "copy"
    /\ level' = level - Batch(planned[t])
    /\ pc' = [pc EXCEPT ![t] = "send"]
    /\ UNCHANGED <<main, from, globals, planned, owner>>

(* The frames are filled and sent to what addr_ep6 is now.                 *)
Send(t) ==
    /\ pc[t] = "send"
    /\ pc' = [pc EXCEPT ![t] = "loop"]
    /\ UNCHANGED <<main, from, globals, planned, level, owner>>

(* The FPGA goes on, whatever the rate; a full FIFO drops what comes.      *)
Fill ==
    /\ level < Depth
    /\ level' = IF level + Step > Depth THEN Depth ELSE level + Step
    /\ UNCHANGED <<main, from, globals, streamer>>

-----------------------------------------------------------------------------
Finish == StopDone \/ StartDone

Stream(t) ==
    \/ ResetFifo(t) \/ Plan(t) \/ Leave(t)
    \/ Wait(t) \/ Copy(t) \/ Send(t)

Next ==
    \/ SetReceivers \/ Stop \/ Finish
    \/ \E c \in Clients : Start(c)
    \/ \E t \in Threads : Stream(t)
    \/ Fill

Spec == Init /\ [][Next]_vars

(* Both threads run, and samples keep coming: every rate that              *)
(* process_ep2() can set is one the decimators work at.                    *)
LiveSpec ==
    /\ Spec
    /\ WF_vars(Finish) /\ WF_vars(Fill)
    /\ \A t \in Threads : WF_vars(Stream(t))

-----------------------------------------------------------------------------
Alive == {t \in Threads : pc[t] # "none"}

TypeOK ==
    /\ main \in {"recv", "stop", "start"}
    /\ from \in Clients \cup {NoClient}
    /\ enable \in BOOLEAN /\ active \in BOOLEAN
    /\ dest \in Clients \cup {NoClient}
    /\ receivers \in Counts \cup {1}
    /\ pc \in [Threads -> {"none", "reset", "loop", "wait", "copy", "send"}]
    /\ planned \in [Threads -> Counts \cup {1}]
    /\ level \in 0..Depth
    /\ owner \in [Threads -> Clients \cup {NoClient}]
    /\ lost \in BOOLEAN

(* Two streamers would share the FIFO, iovec[] and datagram[]: whatever    *)
(* packets come, and come again, there is one at a time.                   *)
OneStreamer == Cardinality(Alive) <= 1

(* Samples go to the client that asked for them last; a streamer that was  *)
(* told to stop does not send its last batch to the next client.           *)
GoesToStarter == \A t \in Alive : dest = owner[t]

(* While main() can answer a discovery, the "2 + active_thread" of its     *)
(* answer is right, in use exactly while a streamer lives, unless one      *)
(* could not be created: then it says "in use" for good.                   *)
DiscoveryIsTrue == main = "recv" => (active <=> Alive # {} \/ lost)

(* The number of receivers changes under the streamer's feet; what it has  *)
(* planned fits its frames, its 25 datagrams and its buffer of 6 * 4096    *)
(* bytes, and never waits for more than the FIFO holds.                    *)
BatchFits ==
    \A t \in Alive :
       LET r == planned[t]
       IN  /\ SamplesPerFrame(r) * (6 * r + 2) <= 504
           /\ Datagrams(r) <= 25
           /\ 36 * (Batch(r) - 1) + 6 * r <= 6 * 4096
           /\ Batch(r) < Depth

(* memcpy() does not read the FIFO beyond its samples.                     *)
NeverUnderruns == \A t \in Alive : pc[t] = "copy" => level >= Batch(planned[t])

(* main() is deaf while it waits for a streamer to stop; it always comes   *)
(* back to the next packet, unless a streamer could not be created: then   *)
(* nobody clears active_thread, and it waits for ever.                     *)
StopTakesEffect == (main # "recv" /\ ~lost) ~> main = "recv"
=============================================================================
