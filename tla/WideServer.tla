------------------------------ MODULE WideServer ------------------------------
(***************************************************************************)
(* projects/sdr_transceiver_wide/server/sdr-transceiver-wide.c: a thread   *)
(* that accepts connections and one detached thread per kind of            *)
(* connection.  The first four bytes a client sends name the kind: 0       *)
(* receiver control, 1 receiver data, 2 transmitter control, 3             *)
(* transmitter data.  sock_thread[] says which kinds are taken; the main   *)
(* thread sets an entry, the handler clears it.                            *)
(*                                                                         *)
(* pthread_create() may fail; it then returns a positive number, which the *)
(* test of main(), "< 0", does not notice: main() goes on and the entry    *)
(* keeps a connection that no thread serves (lost).  The process may end,  *)
(* and be started again by hand; the FPGA keeps what was stored into it.   *)
(*                                                                         *)
(* The handlers write single bytes of the FPGA's configuration; rx_rst,    *)
(* tx_rst and gpio, written by three different threads, lie in one 32 bit  *)
(* word, and axi_hub writes the bytes that the bus strobes.                *)
(*                                                                         *)
(* The samples that the data handlers move are not here: see RxFifo.       *)
(***************************************************************************)
EXTENDS Integers, Sequences, FiniteSets

CONSTANTS
    Clients,   \* the peers; each has one connection at a time
    Asked,     \* the kinds they ask for, 0..3 in the code
    Masks,     \* masks that control clients set, 0..3 in the code
    NoClient   \* -1, or no connection

ASSUME WideAssumption ==
    /\ NoClient \notin Clients
    /\ Asked \subseteq 0..3
    /\ Masks \subseteq 0..3

Kinds == 0..3
Control == {0, 2}
Data == {1, 3}
Silent == -1   \* nothing received yet
Other == 4     \* a command above 3

VARIABLES
    link,        \* the peer's side: "idle", "open", or "gone" (it closed)
    hello,       \* what came first over it: a kind, Other, or Silent
    backlog,     \* accepted by the kernel, in order
    head,        \* sock_client of main(), while it waits for four bytes
    sockThread,  \* sock_thread[]
    pc,          \* where the handler of a kind is; "none" without thread
    sock,        \* its local sock_client
    word0,       \* the bytes rx_rst, tx_rst and gpio of the first word
    loaded,      \* the byte a read-modify-write of the handler has loaded
    tuning,      \* rx_freq, rx_sync and rx_rate; tx_freq, tx_sync and tx_rate
    mask,        \* rx_mask, tx_mask
    lost,        \* history: kinds whose thread could not be created
    up           \* the process runs

threads == <<pc, sock, loaded>>
wires   == <<link, hello, backlog, head>>
params  == <<tuning, mask>>
table   == <<sockThread, lost, up>>
vars    == <<wires, table, threads, word0, params>>

RstOf(k) == IF k = 1 THEN "rx_rst" ELSE "tx_rst"

-----------------------------------------------------------------------------
(* A byte store: axi_hub enables the flip-flops of strobed bytes only.     *)
StoreByte_WholeWord(b, v) == word0' = [x \in DOMAIN word0 |-> v]
StoreByte(b, v) == word0' = [word0 EXCEPT ![b] = v]

(* main() up to listen(), on an FPGA that was just loaded.                 *)
Init ==
    /\ link = [c \in Clients |-> "idle"]
    /\ hello = [c \in Clients |-> Silent]
    /\ backlog = <<>> /\ head = NoClient
    /\ sockThread = [k \in Kinds |-> NoClient]
    /\ pc = [k \in Kinds |-> "none"]
    /\ sock = [k \in Kinds |-> NoClient]
    /\ word0 = [rx_rst |-> 0, tx_rst |-> 0, gpio |-> 0]
    /\ loaded = [k \in Data |-> 0]
    /\ tuning = [k \in Control |-> "default"]
    /\ mask = [k \in Control |-> 1]
    /\ lost = {} /\ up = TRUE

(* accept() fails and main() returns, the process is killed, or it dies in *)
(* pthread_detach() of a thread that was not created, which is undefined.  *)
(* The kernel closes all connections; nobody resets the registers.         *)
Exit ==
    /\ up /\ up' = FALSE
    /\ link' = [c \in Clients |-> "idle"]
    /\ hello' = [c \in Clients |-> Silent]
    /\ backlog' = <<>> /\ head' = NoClient
    /\ sockThread' = [k \in Kinds |-> NoClient]
    /\ pc' = [k \in Kinds |-> "none"]
    /\ sock' = [k \in Kinds |-> NoClient]
    /\ loaded' = [k \in Data |-> 0]
    /\ lost' = {}
    /\ UNCHANGED <<word0, params>>

(* main() up to listen() again: the reset bytes stay as they are.          *)
Restart ==
    /\ ~up /\ up' = TRUE
    /\ StoreByte("gpio", 0)
    /\ tuning' = [k \in Control |-> "default"]
    /\ mask' = [k \in Control |-> 1]
    /\ UNCHANGED <<wires, sockThread, lost, threads>>

-----------------------------------------------------------------------------
(* The clients.                                                            *)
Connect(c) ==
    /\ up /\ link[c] = "idle"
    /\ link' = [link EXCEPT ![c] = "open"]
    /\ backlog' = Append(backlog, c)
    /\ UNCHANGED <<hello, head, table, threads, word0, params>>

(* A client may also close after a part of the four bytes: recv() then     *)
(* returns what there is, and command keeps bytes of earlier connections,  *)
(* so that any kind may come out.                                          *)
SayHello(c) ==
    /\ link[c] = "open" /\ hello[c] = Silent
    /\ \E k \in Asked \cup {Other}, l \in {"open", "gone"} :
          /\ hello' = [hello EXCEPT ![c] = k]
          /\ link' = [link EXCEPT ![c] = l]
    /\ UNCHANGED <<backlog, head, table, threads, word0, params>>

HangUp(c) ==
    /\ link[c] = "open"
    /\ link' = [link EXCEPT ![c] = "gone"]
    /\ UNCHANGED <<hello, backlog, head, table, threads, word0, params>>

(* close() on the server's side; the client may come again.                *)
Close(c) ==
    /\ link' = [link EXCEPT ![c] = "idle"]
    /\ hello' = [hello EXCEPT ![c] = Silent]

-----------------------------------------------------------------------------
(* main(): accept(), and then nobody else is accepted until the four bytes *)
(* of this client are here.                                                *)
Accept ==
    /\ head = NoClient /\ backlog # <<>>
    /\ head' = Head(backlog)
    /\ backlog' = Tail(backlog)
    /\ UNCHANGED <<link, hello, table, threads, word0, params>>

Rejected_NoSlotCheck(c) == hello[c] \notin Kinds
Rejected(c) == hello[c] \in Kinds => sockThread[hello[c]] # NoClient

(* recv() returning 0 for a client that left without a word.               *)
Answered_NeedsHello == head # NoClient /\ hello[head] # Silent
Answered == head # NoClient /\ (hello[head] # Silent \/ link[head] = "gone")

Reject_NoClose ==
    /\ Answered /\ Rejected(head)
    /\ head' = NoClient
    /\ UNCHANGED <<link, hello, backlog, table, threads, word0, params>>

Reject ==
    /\ Answered /\ Rejected(head)
    /\ Close(head)
    /\ head' = NoClient
    /\ UNCHANGED <<backlog, table, threads, word0, params>>

(* The entry is set before the thread is created, and stays when it is     *)
(* not: the error number of pthread_create() is positive.                  *)
Dispatch ==
    /\ Answered /\ ~Rejected(head)
    /\ sockThread' = [sockThread EXCEPT ![hello[head]] = head]
    /\ \/ /\ pc' = [pc EXCEPT ![hello[head]] = "start"]
          /\ UNCHANGED lost
       \/ /\ lost' = lost \cup {hello[head]}
          /\ UNCHANGED pc
    /\ head' = NoClient
    /\ UNCHANGED <<link, hello, backlog, up, sock, loaded, word0, params>>

-----------------------------------------------------------------------------
(* The control handlers: a thread starts with its socket and the defaults, *)
Defaults_KeepsPTT(k) ==
    /\ tuning' = [tuning EXCEPT ![k] = "default"]
    /\ mask' = [mask EXCEPT ![k] = 1]
    /\ UNCHANGED word0

Defaults(k) ==
    /\ tuning' = [tuning EXCEPT ![k] = "default"]
    /\ mask' = [mask EXCEPT ![k] = 1]
    /\ IF k = 2 THEN StoreByte("gpio", 0) ELSE UNCHANGED word0

ControlStart(k) ==
    /\ k \in Control /\ pc[k] = "start"
    /\ sock' = [sock EXCEPT ![k] = sockThread[k]]
    /\ Defaults(k)
    /\ pc' = [pc EXCEPT ![k] = "loop"]
    /\ UNCHANGED <<wires, table, loaded>>

(* carries out commands (a frequency out of range and a rate without a     *)
(* case are passed over, which is no step),                                *)
Commanded(k) ==
    /\ k \in Control /\ pc[k] = "loop"
    /\ UNCHANGED <<wires, table, threads>>

SetFreqOrRate(k) ==
    /\ Commanded(k)
    /\ tuning' = [tuning EXCEPT ![k] = "other"]
    /\ UNCHANGED <<mask, word0>>

(* The transmitter's "set tx mask" has no break and runs into "set PTT     *)
(* pin" with the same command word.                                        *)
SetMask(k) ==
    /\ Commanded(k)
    /\ \E m \in Masks :
          /\ mask' = [mask EXCEPT ![k] = m]
          /\ IF k = 2 THEN StoreByte("gpio", m % 2) ELSE UNCHANGED word0
    /\ UNCHANGED tuning

SetPTT ==
    /\ Commanded(2)
    /\ \E v \in {0, 1} : StoreByte("gpio", v)
    /\ UNCHANGED params

(* and when the client is gone restores the defaults, closes, and only     *)
(* then gives the kind free.                                               *)
ControlEnd(k) ==
    /\ k \in Control /\ pc[k] = "loop" /\ link[sock[k]] = "gone"
    /\ Defaults(k)
    /\ pc' = [pc EXCEPT ![k] = "close"]
    /\ UNCHANGED <<wires, table, sock, loaded>>

CloseSocket(k) ==
    /\ pc[k] = "close"
    /\ Close(sock[k])
    /\ pc' = [pc EXCEPT ![k] = "free"]
    /\ UNCHANGED <<backlog, head, table, sock, loaded, word0, params>>

FreeKind_KeepsSlot(k) ==
    /\ pc[k] = "free"
    /\ pc' = [pc EXCEPT ![k] = "none"]
    /\ sock' = [sock EXCEPT ![k] = NoClient]
    /\ UNCHANGED <<wires, table, loaded, word0, params>>

FreeKind(k) ==
    /\ pc[k] = "free"
    /\ sockThread' = [sockThread EXCEPT ![k] = NoClient]
    /\ pc' = [pc EXCEPT ![k] = "none"]
    /\ sock' = [sock EXCEPT ![k] = NoClient]
    /\ UNCHANGED <<wires, lost, up, loaded, word0, params>>

-----------------------------------------------------------------------------
(* The data handlers pulse their reset byte with two read-modify-writes,   *)
(* *rst &= ~1 and *rst |= 1, when they start, and the receiver's again     *)
(* whenever its FIFO was full.                                             *)
DataStart(k) ==
    /\ k \in Data /\ pc[k] = "start"
    /\ sock' = [sock EXCEPT ![k] = sockThread[k]]
    /\ pc' = [pc EXCEPT ![k] = "load0"]
    /\ UNCHANGED <<wires, table, loaded, word0, params>>

LoadReset(k) ==
    /\ k \in Data /\ pc[k] \in {"load0", "load1"}
    /\ loaded' = [loaded EXCEPT ![k] = word0[RstOf(k)]]
    /\ pc' = [pc EXCEPT ![k] = IF pc[k] = "load0" THEN "clear" ELSE "set"]
    /\ UNCHANGED <<wires, table, sock, word0, params>>

ClearReset_Subtracts(k) ==
    /\ k \in Data /\ pc[k] = "clear"
    /\ StoreByte(RstOf(k), loaded[k] - 1)
    /\ pc' = [pc EXCEPT ![k] = "load1"]
    /\ UNCHANGED <<wires, table, sock, loaded, params>>

ClearReset(k) ==
    /\ k \in Data /\ pc[k] = "clear"
    /\ StoreByte(RstOf(k), loaded[k] - (loaded[k] % 2))
    /\ pc' = [pc EXCEPT ![k] = "load1"]
    /\ UNCHANGED <<wires, table, sock, loaded, params>>

SetReset(k) ==
    /\ k \in Data /\ pc[k] = "set"
    /\ StoreByte(RstOf(k), loaded[k] - (loaded[k] % 2) + 1)
    /\ pc' = [pc EXCEPT ![k] = "loop"]
    /\ UNCHANGED <<wires, table, sock, loaded, params>>

Overflow ==
    /\ pc[1] = "loop"
    /\ pc' = [pc EXCEPT ![1] = "load0"]
    /\ UNCHANGED <<wires, table, sock, loaded, word0, params>>

(* send() or recv() finds the client gone.                                 *)
DataEnd(k) ==
    /\ k \in Data /\ pc[k] = "loop" /\ link[sock[k]] = "gone"
    /\ pc' = [pc EXCEPT ![k] = "close"]
    /\ UNCHANGED <<wires, table, sock, loaded, word0, params>>

-----------------------------------------------------------------------------
Main == Accept \/ Reject \/ Dispatch

Handler(k) ==
    \/ ControlStart(k) \/ ControlEnd(k)
    \/ DataStart(k) \/ LoadReset(k) \/ ClearReset(k) \/ SetReset(k) \/ DataEnd(k)
    \/ CloseSocket(k) \/ FreeKind(k)

ControlCommand(k) == SetFreqOrRate(k) \/ SetMask(k)

Next ==
    \/ \E c \in Clients : Connect(c) \/ SayHello(c) \/ HangUp(c)
    \/ Main \/ Exit \/ Restart
    \/ \E k \in Kinds : Handler(k)
    \/ \E k \in Control : ControlCommand(k)
    \/ SetPTT
    \/ Overflow

Spec == Init /\ [][Next]_vars

(* The threads run; a turn of a data handler's loop, with or without a     *)
(* reset in it, ends in a send() or recv() that at last notices that the   *)
(* client is gone.  A client that is first in the line says its kind or    *)
(* goes away: without that the code makes all others wait for ever.        *)
Fairness ==
    /\ WF_vars(Main)
    /\ \A k \in Kinds : WF_vars(Handler(k))
    /\ \A k \in Data : SF_vars(DataEnd(k))
    /\ \A c \in Clients : WF_vars(head = c /\ (SayHello(c) \/ HangUp(c)))

LiveSpec == Spec /\ Fairness

-----------------------------------------------------------------------------
Running == {"start", "loop", "load0", "clear", "load1", "set", "close"}

(* Types of the threads' state; a byte of the first word holds 0 or 1, and *)
(* no two threads ever wait for the same step of one kind.                 *)
TypeOK ==
    /\ link \in [Clients -> {"idle", "open", "gone"}]
    /\ hello \in [Clients -> Kinds \cup {Other, Silent}]
    /\ backlog \in Seq(Clients)
    /\ head \in Clients \cup {NoClient}
    /\ sockThread \in [Kinds -> Clients \cup {NoClient}]
    /\ pc \in [Kinds -> Running \cup {"none", "free"}]
    /\ sock \in [Kinds -> Clients \cup {NoClient}]
    /\ word0 \in [{"rx_rst", "tx_rst", "gpio"} -> {0, 1}]
    /\ loaded \in [Data -> {0, 1}]
    /\ tuning \in [Control -> {"default", "other"}]
    /\ mask \in [Control -> Masks \cup {1}]
    /\ lost \subseteq Kinds
    /\ up \in BOOLEAN

(* sock_thread[] and the threads agree: a kind is taken exactly while a    *)
(* thread of it lives, or for ever when its thread could not be created,   *)
(* the thread works on the connection in the table, and a thread that has  *)
(* not read the table yet finds its own there (main() writes it before     *)
(* pthread_create, and refuses a kind that is taken until the handler      *)
(* itself clears the entry, lines 126-134, 323).                           *)
TableMatchesThreads ==
    \A k \in Kinds :
       /\ sockThread[k] # NoClient <=> (pc[k] # "none" \/ k \in lost)
       /\ k \in lost => pc[k] = "none"
       /\ sock[k] = IF pc[k] \in {"none", "start"} THEN NoClient ELSE sockThread[k]

(* A handler, or an entry without one, that has the connection of c.       *)
Keeps(k, c) == (pc[k] \in Running \/ k \in lost) /\ sockThread[k] = c

(* No connection is shared, and none but those of a failed pthread_create  *)
(* is lost: one that is not closed waits in the line, or is the one main() *)
(* reads from, or is in the hands of exactly one handler, or is kept by an *)
(* entry without a thread; and no handler uses one that was closed.        *)
OneOwner ==
    /\ \A c \in Clients : link[c] # "idle" =>
          Cardinality({i \in DOMAIN backlog : backlog[i] = c})
             + (IF head = c THEN 1 ELSE 0)
             + Cardinality({k \in Kinds : Keeps(k, c)}) = 1
    /\ \A k \in Kinds : pc[k] \in Running => link[sockThread[k]] # "idle"

(* A client that leaves, at any moment and with commands still under way,  *)
(* leaves nothing set: without a control thread that serves a client the   *)
(* parameters are the defaults and the transmitter is not keyed.  A        *)
(* process that ends leaves them as they are; the next one resets them.    *)
NothingLeftBehind ==
    up => \A k \in Control : pc[k] # "loop" =>
       /\ tuning[k] = "default" /\ mask[k] = 1
       /\ k = 2 => word0.gpio = 0

(* Three threads write bytes of one word of the FPGA without a lock, two   *)
(* of them with read-modify-writes: a data handler that moves samples has  *)
(* its own FIFO out of reset.                                              *)
ResetStaysReleased ==
    \A k \in Data : pc[k] = "loop" => word0[RstOf(k)] = 1

(* A connection does not stay in the line for ever.                        *)
LineMoves ==
    \A c \in Clients :
       (\E i \in DOMAIN backlog : backlog[i] = c) ~> ~(\E i \in DOMAIN backlog : backlog[i] = c)

(* A kind whose client is gone becomes free for the next one, whatever the *)
(* handler was doing when the client left, if there is a handler.          *)
KindsAreFreed ==
    \A k \in Kinds :
       (pc[k] # "none" /\ link[sockThread[k]] = "gone") ~> (sockThread[k] = NoClient)

(* The comments say that command 2 sets the transmitter's mask and command *)
(* 3 the PTT pin (lines 303 and 306): setting the mask leaves the pin.     *)
SetMaskLeavesPTT ==
    [][ (pc[2] = "loop" /\ pc'[2] = "loop" /\ mask'[2] # mask[2])
           => word0'.gpio = word0.gpio ]_vars
=============================================================================
