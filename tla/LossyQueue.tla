----------------------------- MODULE LossyQueue -----------------------------
(***************************************************************************)
(* What one output port of the HFDL server promises to the client that is  *)
(* connected to it, whatever the buffer behind the port looks like.        *)
(*                                                                         *)
(* The receiver produces a stream of bytes, numbered 0, 1, 2, ... and      *)
(* handed over one piece of PieceSize(format) bytes at a time.  A          *)
(* connected client gets the stream from the piece that follows its        *)
(* connection.  When it does not keep up, whole blocks of Chunk bytes are  *)
(* cut from the newest end of what is waiting; what was already waiting    *)
(* longer is delivered first.  Delivering never loses anything.            *)
(***************************************************************************)
EXTENDS Naturals, Sequences

CONSTANTS Formats,        \* the two sample formats
          Chunk,          \* bytes of one block that is cut out of the stream
          PieceSize(_),   \* bytes handed over at a time, per format
          MaxStream       \* bound on the bytes produced

VARIABLES format,     \* sample format of the port
          stream,     \* bytes produced so far
          connected,  \* is a client connected?
          queue,      \* bytes waiting, by their number in the stream
          delivered   \* bytes the client got over this connection

vars == <<format, stream, connected, queue, delivered>>

Piece == [i \in 1..PieceSize(format) |-> stream + i - 1]

Init ==
    /\ format \in Formats
    /\ stream = 0
    /\ connected = FALSE
    /\ queue = <<>>
    /\ delivered = <<>>

Connect ==
    /\ ~connected
    /\ connected' = TRUE
    /\ queue' = <<>>
    /\ delivered' = <<>>
    /\ UNCHANGED <<format, stream>>

Disconnect ==
    /\ connected
    /\ connected' = FALSE
    /\ UNCHANGED <<format, stream, queue, delivered>>

(* Nobody listens: the piece is gone.                                      *)
Skip ==
    /\ ~connected
    /\ stream + PieceSize(format) <= MaxStream
    /\ stream' = stream + PieceSize(format)
    /\ UNCHANGED <<format, connected, queue, delivered>>

(* The piece is appended; then any number of whole blocks may be cut from  *)
(* the newest end.                                                         *)
Produce ==
    /\ connected
    /\ stream + PieceSize(format) <= MaxStream
    /\ stream' = stream + PieceSize(format)
    /\ \E kept \in 0..(Len(queue) + PieceSize(format)) :
          /\ (Len(queue) + PieceSize(format) - kept) % Chunk = 0
          /\ queue' = SubSeq(queue \o Piece, 1, kept)
    /\ UNCHANGED <<format, connected, delivered>>

Deliver ==
    /\ connected
    /\ \E n \in 1..Len(queue) :
          /\ delivered' = delivered \o SubSeq(queue, 1, n)
          /\ queue' = SubSeq(queue, n + 1, Len(queue))
    /\ UNCHANGED <<format, stream, connected>>

Next == Connect \/ Disconnect \/ Skip \/ Produce \/ Deliver

Spec == Init /\ [][Next]_vars
=============================================================================
