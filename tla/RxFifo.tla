-------------------------------- MODULE RxFifo --------------------------------
(***************************************************************************)
(* The path of the received samples from the FPGA to a client: the FIFO    *)
(* that the radio fills at its own pace (axis_fifo with ALWAYS_READY, so a *)
(* sample that finds it full is lost), the reset bit in the configuration  *)
(* register, and the loop of a server that looks at the fill level, copies *)
(* a chunk and sends it.  The programs do this in four ways:               *)
(*                                                                         *)
(*   "poll"   sdr-receiver.c: one client at a time; the FIFO is in reset   *)
(*            between clients; level and commands are looked at in turn    *)
(*   "wait"   rx_data_handler() of sdr-transceiver-wide.c: a thread that   *)
(*            waits for a chunk; the FIFO runs on between clients          *)
(*   "drain"  hfdl-receiver.c: reads the level once and copies as many     *)
(*            chunks as it promised                                        *)
(*   "record" write-c2-files.c of the FT8 and WSPR applications: starts    *)
(*            afresh every minute or two, waits for twice a chunk, never   *)
(*            looks for a full FIFO; the client is the file; the next job  *)
(*            kills it if it still runs                                    *)
(*                                                                         *)
(* A sample is its number in the radio's stream.                           *)
(***************************************************************************)
EXTENDS Integers, Sequences

CONSTANTS
    Depth,       \* samples the FIFO holds; the level at which it is reset
    Chunk,       \* samples copied and sent at a time
    MaxStream    \* bound on the samples produced

ASSUME RxFifoAssumption ==
    /\ Chunk \in Nat \ {0} /\ Depth \in Nat /\ 2 * Chunk <= Depth
    /\ MaxStream \in Nat

VARIABLES
    server,    \* which of the four it is; no step changes it
    fifo,      \* the samples in the FIFO, oldest first
    held,      \* the FIFO is held in reset
    pc,        \* where the loop is
    buffer,    \* what memcpy() has copied so far
    promised,  \* rx_samples of the draining loop
    stream,    \* history: samples the radio has produced
    since,     \* history: value of stream when the client came
    sent,      \* history: samples sent to the client
    excused    \* history: samples lost behind the back of the last check

loop == <<server, pc, buffer, promised>>
vars == <<fifo, held, loop, stream, since, sent, excused>>

-----------------------------------------------------------------------------
Init ==
    /\ server \in {"poll", "wait", "drain", "record"}
    /\ fifo = <<>> /\ held = (server # "drain")
    /\ pc = IF server = "drain" THEN "check" ELSE "accept"
    /\ buffer = <<>> /\ promised = 0
    /\ stream = 0 /\ since = 0 /\ sent = <<>> /\ excused = {}

(* The loop has checked for a full FIFO, and it reads the FIFO before it   *)
(* checks again.                                                           *)
Checked ==
    \/ server # "record" /\ pc \in {"level", "copy"}
    \/ server = "drain" /\ pc = "send"

(* The radio produces a sample; the FIFO takes it if it can.               *)
Takes(level) == ~held /\ level < Depth

Produce ==
    /\ stream < MaxStream
    /\ stream' = stream + 1
    /\ fifo' = IF Takes(Len(fifo)) THEN Append(fifo, stream) ELSE fifo
    /\ excused' = IF Checked /\ ~held /\ Len(fifo) = Depth
                  THEN excused \cup {stream} ELSE excused
    /\ UNCHANGED <<held, loop, since, sent>>

(* *rx_rst &= ~1 and, where the FIFO is to run, *rx_rst |= 1.              *)
HoldFifo    == held' = TRUE /\ fifo' = <<>>
ReleaseFifo == held' = FALSE /\ UNCHANGED fifo

-----------------------------------------------------------------------------
NewClient == since' = stream /\ sent' = <<>> /\ excused' = {}

(* accept() returns, and the receiver starts.                              *)
PollAccept ==
    /\ server = "poll" /\ pc = "accept"
    /\ ReleaseFifo
    /\ pc' = "command"
    /\ NewClient
    /\ UNCHANGED <<server, buffer, promised, stream>>

(* A whole control structure is read, or there is none; the registers that *)
(* it sets are not on the path of the samples.                             *)
PollCommand ==
    /\ server = "poll" /\ pc = "command"
    /\ pc' = "check"
    /\ UNCHANGED <<server, fifo, held, buffer, promised,
                   stream, since, sent, excused>>

(* ioctl(), recv() or send() fails: close, hold the FIFO in reset and put  *)
(* the registers back before the next accept().                            *)
PollLeave ==
    /\ server = "poll" /\ pc \in {"command", "send"}
    /\ HoldFifo
    /\ pc' = "accept"
    /\ buffer' = <<>>
    /\ UNCHANGED <<server, promised, stream, since, sent, excused>>

(* The thread of a new client starts with a reset.                         *)
WaitAccept_NoReset ==
    /\ server = "wait" /\ pc = "accept"
    /\ pc' = "start"
    /\ NewClient
    /\ UNCHANGED <<server, fifo, held, buffer, promised, stream>>
WaitAccept ==
    /\ server = "wait" /\ pc = "accept"
    /\ HoldFifo
    /\ pc' = "start"
    /\ NewClient
    /\ UNCHANGED <<server, buffer, promised, stream>>

(* send() fails: the thread ends and leaves the FIFO as it is.             *)
WaitLeave ==
    /\ server = "wait" /\ pc = "send"
    /\ pc' = "accept"
    /\ buffer' = <<>>
    /\ UNCHANGED <<server, fifo, held, promised,
                   stream, since, sent, excused>>

(* A recorder starts with a reset, and later writes the file and ends, or  *)
(* the next job kills it wherever it is.                                   *)
RecordStart ==
    /\ server = "record" /\ pc = "accept"
    /\ HoldFifo
    /\ pc' = "start"
    /\ NewClient
    /\ UNCHANGED <<server, buffer, promised, stream>>

RecordEnd ==
    /\ server = "record" /\ pc = "level"
    /\ pc' = "accept"
    /\ UNCHANGED <<server, fifo, held, buffer, promised,
                   stream, since, sent, excused>>

RecordKilled ==
    /\ server = "record" /\ pc # "accept"
    /\ pc' = "accept"
    /\ buffer' = <<>>
    /\ UNCHANGED <<server, fifo, held, promised,
                   stream, since, sent, excused>>

(* The level says the FIFO is full: samples were lost, start afresh.       *)
MustReset_OneTooLate(level) == level > Depth
MustReset(level) == level >= Depth

(* rx_samples of the draining loop.                                        *)
Promise_DespiteReset(level) == IF server = "drain" THEN level ELSE 0
Promise(level) ==
    IF server = "drain" /\ ~MustReset(level) THEN level ELSE 0

Check ==
    /\ pc = "check"
    /\ IF MustReset(Len(fifo))
       THEN HoldFifo /\ pc' = "release"
       ELSE UNCHANGED <<fifo, held>> /\ pc' = "level"
    /\ promised' = Promise(Len(fifo))
    /\ UNCHANGED <<server, buffer, stream, since, sent, excused>>

Release ==
    /\ pc \in {"start", "release"}
    /\ ReleaseFifo
    /\ pc' = IF pc = "start" /\ server = "wait" THEN "check" ELSE "level"
    /\ UNCHANGED <<server, buffer, promised,
                   stream, since, sent, excused>>

(* Is there a chunk?  If not, the polling server goes round, the waiting   *)
(* one and the recorder look again (no step), the draining one ends its    *)
(* pass.                                                                   *)
HasChunk ==
    IF server = "drain" THEN promised >= Chunk
    ELSE Len(fifo) >= IF server = "record" THEN 2 * Chunk ELSE Chunk

Level ==
    /\ pc = "level"
    /\ HasChunk \/ server \notin {"wait", "record"}
    /\ pc' = IF HasChunk THEN "copy"
             ELSE IF server = "poll" THEN "command" ELSE "check"
    /\ UNCHANGED <<server, fifo, held, buffer, promised,
                   stream, since, sent, excused>>

(* memcpy() takes the samples one after the other.                         *)
CopySample ==
    /\ pc = "copy" /\ Len(buffer) < Chunk /\ fifo # <<>>
    /\ buffer' = Append(buffer, Head(fifo))
    /\ fifo' = Tail(fifo)
    /\ pc' = IF Len(buffer') = Chunk THEN "send" ELSE "copy"
    /\ UNCHANGED <<server, held, promised,
                   stream, since, sent, excused>>

(* The chunk goes out; send() may take its time, which is Produce's.       *)
Send ==
    /\ pc = "send"
    /\ sent' = sent \o buffer
    /\ buffer' = <<>>
    /\ promised' = IF server = "drain" THEN promised - Chunk ELSE promised
    /\ pc' = IF server = "poll" THEN "command"
             ELSE IF server = "wait" THEN "check" ELSE "level"
    /\ UNCHANGED <<server, fifo, held, stream, since, excused>>

Next ==
    \/ Produce
    \/ PollAccept \/ PollCommand \/ PollLeave
    \/ WaitAccept \/ WaitLeave
    \/ RecordStart \/ RecordEnd \/ RecordKilled
    \/ Check \/ Release \/ Level \/ CopySample \/ Send

Spec == Init /\ [][Next]_vars

-----------------------------------------------------------------------------
Sample == 0..(MaxStream - 1)

TypeOK ==
    /\ server \in {"poll", "wait", "drain", "record"}
    /\ fifo \in Seq(Sample) /\ Len(fifo) <= Depth
    /\ held \in BOOLEAN
    /\ pc \in {"accept", "start", "command", "check", "release",
              "level", "copy", "send"}
    /\ buffer \in Seq(Sample) /\ Len(buffer) <= Chunk
    /\ promised \in 0..Depth
    /\ stream \in 0..MaxStream /\ since \in 0..MaxStream
    /\ sent \in Seq(Sample)
    /\ excused \subseteq Sample

(* memcpy() never reads an empty FIFO, for which the hub makes up zeros:   *)
(* the samples of a chunk that was begun are there, although the level was *)
(* read some time ago and a full FIFO is emptied after it was read.        *)
ChunkIsThere == pc = "copy" => Len(fifo) >= Chunk - Len(buffer)

(* A client gets no sample that was received before it came, and a file    *)
(* none of before its recorder started: what the last one left in the FIFO *)
(* is not for the next one, also if it was killed.                         *)
NoStaleSamples ==
    server # "drain" => \A i \in 1..Len(sent) : sent[i] >= since

(* However long send() blocks, samples that the full FIFO lost meanwhile   *)
(* leave no gap in what is copied next: the FIFO stays full until the loop *)
(* looks at it, and then it is emptied.  (What gets lost between that look *)
(* and the end of the copy is not noticed: the code cannot know.)          *)
GapsAreNoticed ==
    Checked =>
      LET next == buffer \o fifo
      IN  \A i \in 1..(Len(next) - 1) : (next[i] + 1)..(next[i + 1] - 1) \subseteq excused
=============================================================================
