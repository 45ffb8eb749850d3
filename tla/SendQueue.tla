------------------------------ MODULE SendQueue ------------------------------
(***************************************************************************)
(* The send buffer of one port of projects/hfdl_receiver: the ring that    *)
(* struct client holds, as appended to by the chunk loop of main(),        *)
(* drained by flushClient(), trimmed by normalizeSendq() and reset by      *)
(* acceptClient().                                                         *)
(*                                                                         *)
(* Positions are offsets from c->sendq.  The memory cell of a byte holds   *)
(* the byte's number in the channel's stream, so that what reaches the     *)
(* client can be compared with what the receiver produced.                 *)
(***************************************************************************)
EXTENDS Integers, Sequences

CONSTANTS HalfChunk,  \* CHUNK_CHANNEL_BYTES / 2, bytes of a chunk in CU8
          SendqArg,   \* the size allocateClient() is called with
          SendSize,   \* flushClient()'s min and limit, 8 * 1450 in the code
          MaxStream   \* bound on the bytes produced

Chunk == 2 * HalfChunk

(* The chunk of a channel is a whole number of 4 byte samples; the code    *)
(* allocates some thousand chunks, and the ring needs at least three.      *)
ASSUME SendQueueAssumption ==
    /\ HalfChunk \in Nat \ {0} /\ HalfChunk % 2 = 0
    /\ SendqArg \in Nat /\ SendqArg >= 3 * Chunk
    /\ SendSize \in Nat \ {0}
    /\ MaxStream \in Nat

Formats == {"CS16", "CU8"}

SendqMax == (SendqArg \div Chunk) * Chunk

Unwritten == -1      \* a cell malloc() returned and nobody has written

VARIABLES
    format,          \* cl->format
    connected,       \* cl->fd # -1
    sendqStart,      \* cl->sendqStart - cl->sendq
    sendqEnd,        \* cl->sendqEnd - cl->sendq
    sendq,           \* the memory of the ring
    bytesDropped,    \* cl->bytesDropped
    fatal,           \* exit() after a "FATAL ringbuffer flaw" message
    stream,          \* history: bytes of the channel produced so far
    since,           \* history: value of stream when the client connected
    sent             \* history: the bytes send() took over this connection

ring == <<sendqStart, sendqEnd, sendq>>
vars == <<format, connected, ring, bytesDropped, fatal, stream, since, sent>>

-----------------------------------------------------------------------------
(* CU8 keeps one byte of each I and Q value, CS16 keeps two.               *)
PieceSize(f)   == IF f = "CU8" THEN HalfChunk ELSE Chunk
SampleBytes(f) == IF f = "CU8" THEN 2 ELSE 4

SendqLen(start, end) ==
    IF start <= end THEN end - start ELSE end + (SendqMax - start)

DropBytes_NotWhole == SendqMax \div 2
DropBytes == ((SendqMax \div 2) \div Chunk) * Chunk

Wrap(p) == IF p = SendqMax THEN 0 ELSE p

MustDrop_ChunkTooLate(start, end) ==
    SendqLen(Wrap(start), Wrap(end)) + Chunk > SendqMax

MustDrop_OnFreeSpace(start, end) ==
    SendqLen(Wrap(start), Wrap(end)) <= 2 * Chunk

MustDrop(start, end) ==
    SendqLen(Wrap(start), Wrap(end)) + 2 * Chunk >= SendqMax

(* sendqEnd after normalizeSendq(), given the unwrapped position.          *)
NormalEnd(start, end) ==
    IF ~MustDrop(start, end) THEN Wrap(end)
    ELSE IF Wrap(end) >= DropBytes THEN Wrap(end) - DropBytes
    ELSE Wrap(end) - DropBytes + SendqMax

(* normalizeSendq() on a ring whose positions have just become start and   *)
(* end.  A position beyond the memory ends the program.                    *)
NormalizeSendq(start, end) ==
    IF start > SendqMax \/ end > SendqMax
    THEN /\ fatal' = TRUE
         /\ sendqStart' = start
         /\ sendqEnd' = end
         /\ UNCHANGED bytesDropped
    ELSE /\ sendqStart' = Wrap(start)
         /\ sendqEnd' = NormalEnd(start, end)
         /\ bytesDropped' =
               bytesDropped + (IF MustDrop(start, end) THEN DropBytes ELSE 0)
         /\ UNCHANGED fatal

(* How much one send() is asked to take: what is queued, cut at the end of *)
(* the memory, cut at the limit.  Nothing at all below the minimum.        *)
ToWrite ==
    LET queued == SendqLen(sendqStart, sendqEnd)
        upToWrap == IF sendqStart + queued > SendqMax
                    THEN SendqMax - sendqStart ELSE queued
    IN  IF queued < SendSize \/ queued <= 0 THEN 0
        ELSE IF upToWrap > SendSize THEN SendSize ELSE upToWrap

-----------------------------------------------------------------------------
(* allocateClient(), then main() sets the format.                          *)
Init ==
    /\ format \in Formats
    /\ connected = FALSE
    /\ sendqStart = 0
    /\ sendqEnd = 0
    /\ sendq = [p \in 0..(SendqMax - 1) |-> Unwritten]
    /\ bytesDropped = 0
    /\ fatal = FALSE
    /\ stream = 0
    /\ since = 0
    /\ sent = <<>>

AcceptClient_KeepsCounter ==
    /\ ~fatal /\ ~connected
    /\ connected' = TRUE
    /\ sendqStart' = 0
    /\ sendqEnd' = 0
    /\ since' = stream
    /\ sent' = <<>>
    /\ UNCHANGED <<format, sendq, bytesDropped, fatal, stream>>

AcceptClient_KeepsRing ==
    /\ ~fatal /\ ~connected
    /\ connected' = TRUE
    /\ bytesDropped' = 0
    /\ since' = stream
    /\ sent' = <<>>
    /\ UNCHANGED <<format, ring, fatal, stream>>

AcceptClient ==
    /\ ~fatal /\ ~connected
    /\ connected' = TRUE
    /\ sendqStart' = 0
    /\ sendqEnd' = 0
    /\ bytesDropped' = 0
    /\ since' = stream
    /\ sent' = <<>>
    /\ UNCHANGED <<format, sendq, fatal, stream>>

CloseClient ==
    /\ ~fatal /\ connected
    /\ connected' = FALSE
    /\ UNCHANGED <<format, ring, bytesDropped, fatal, stream, since, sent>>

(* The chunk loop passes over a port without a client.                     *)
SkipChunk ==
    /\ ~fatal /\ ~connected
    /\ stream + PieceSize(format) <= MaxStream
    /\ stream' = stream + PieceSize(format)
    /\ UNCHANGED <<format, connected, ring, bytesDropped, fatal, since, sent>>

(* The chunk loop copies the samples of the channel to sendqEnd, without a *)
(* look at the space that is left, and normalises.  What falls beyond the  *)
(* memory is not modelled further: the program ends on it.                 *)
AppendChunk ==
    /\ ~fatal /\ connected
    /\ stream + PieceSize(format) <= MaxStream
    /\ stream' = stream + PieceSize(format)
    /\ sendq' = [p \in 0..(SendqMax - 1) |->
                   IF p \in sendqEnd..(sendqEnd + PieceSize(format) - 1)
                   THEN stream + (p - sendqEnd) ELSE sendq[p]]
    /\ NormalizeSendq(sendqStart, sendqEnd + PieceSize(format))
    /\ UNCHANGED <<format, connected, since, sent>>

(* flushClient(): the kernel takes any part of what it is offered.         *)
FlushClient ==
    /\ ~fatal /\ connected
    /\ \E n \in 1..ToWrite :
          /\ NormalizeSendq(sendqStart + n, sendqEnd)
          /\ sent' = sent \o [i \in 1..n |-> sendq[sendqStart + i - 1]]
    /\ UNCHANGED <<format, connected, sendq, stream, since>>

Next ==
    \/ AcceptClient \/ CloseClient
    \/ SkipChunk \/ AppendChunk \/ FlushClient

Spec == Init /\ [][Next]_vars

-----------------------------------------------------------------------------
Position == 0..(SendqMax - 1)

TypeOK ==
    /\ format \in Formats
    /\ connected \in BOOLEAN
    /\ sendqStart \in Position
    /\ sendqEnd \in Position
    /\ sendq \in [Position -> Nat \cup {Unwritten}]
    /\ bytesDropped \in Nat
    /\ fatal \in BOOLEAN
    /\ stream \in Nat
    /\ since \in Nat
    /\ sent \in Seq(Nat \cup {Unwritten})

Queued == SendqLen(sendqStart, sendqEnd)

(* The waiting bytes, oldest first.                                        *)
Waiting == [i \in 1..Queued |-> sendq[(sendqStart + i - 1) % SendqMax]]

(* The checks named "FATAL ringbuffer flaw" in normalizeSendq() never      *)
(* trigger: in whatever order chunks arrive and partial sends drain them,  *)
(* no chunk is ever written past the end of the ring's memory.             *)
NoRingbufferFlaw == ~fatal

(* "always make sure we will have space to write CHUNK_CHANNEL_BYTES into  *)
(* the ringbuffer": the next chunk fits in one piece before the end of the *)
(* memory, and it overwrites no byte that is still waiting.                *)
RoomForChunk ==
    /\ sendqEnd + PieceSize(format) <= SendqMax
    /\ Queued + PieceSize(format) < SendqMax

(* Every byte produced since the client connected was sent, is waiting, or *)
(* is counted in bytesDropped: an overwritten or skipped byte would break  *)
(* the balance, and so would a ring that mistakes full for empty.          *)
EveryByteAccounted ==
    connected => stream - since = Len(sent) + Queued + bytesDropped

(* Dropping never shifts the I/Q framing: the k-th byte a client receives  *)
(* is the k-th byte of some sample, whatever was dropped before it.        *)
SamplesStayAligned ==
    \A i \in 1..Len(sent) :
        (sent[i] - since) % SampleBytes(format) = (i - 1) % SampleBytes(format)

(* A flush makes the queue shorter by what was sent and drops nothing,     *)
(* although it calls the same normalizeSendq() as the producer: data is    *)
(* given up only when new data arrives.                                    *)
FlushDropsNothing ==
    [][sent' # sent /\ connected /\ connected' =>
          /\ bytesDropped' = bytesDropped
          /\ SendqLen(sendqStart', sendqEnd') =
                Queued - (Len(sent') - Len(sent))]_vars

(* The ring implements the lossy queue: what the client gets is in the     *)
(* order of the stream, no byte twice, none of the client before, and none *)
(* that was overwritten while it waited.                                   *)
Abstract == INSTANCE LossyQueue WITH queue <- Waiting, delivered <- sent

ImplementsLossyQueue == Abstract!Spec
=============================================================================
