--------------------------- MODULE SendQueueProofs ---------------------------
(***************************************************************************)
(* Proofs about SendQueue for every ring of at least three chunks.         *)
(*                                                                         *)
(* The properties are not inductive: that the next chunk fits in one piece *)
(* rests on sendqEnd lying on a boundary of the pieces, and that it        *)
(* overwrites nothing rests on the two chunks of slack that                *)
(* normalizeSendq() leaves.  RingInv adds both.                            *)
(***************************************************************************)
EXTENDS SendQueue, TLAPS

(* sendqEnd lies on a piece boundary.                                      *)
EndOnBoundary == \E k \in Nat : sendqEnd = k * PieceSize(format)

(* After every step two chunks and more are free.                          *)
Slack == SendqLen(sendqStart, sendqEnd) + 2 * Chunk < SendqMax

RingInv ==
    /\ TypeOK
    /\ ~fatal
    /\ EndOnBoundary
    /\ Slack

-----------------------------------------------------------------------------
(* A multiple of h that is less than another is less by at least h.        *)
LEMMA NextMultiple ==
    ASSUME NEW a \in Int, NEW b \in Int, NEW h \in Nat \ {0}, a * h < b * h
    PROVE  a * h + h <= b * h
<1>1. a < b
  <2>1. SUFFICES ASSUME a >= b PROVE FALSE
    OBVIOUS
  <2>2. a * h >= b * h
    BY <2>1
  <2> QED
    BY <2>2
<1>2. (a + 1) * h <= b * h
  BY <1>1
<1>3. (a + 1) * h = a * h + h
  OBVIOUS
<1> QED
  BY <1>2, <1>3

(* What the sizes are: whole chunks, at least three of them, and the block *)
(* that is dropped has at least one chunk and leaves two.                  *)
LEMMA Sizes ==
    /\ Chunk \in Nat \ {0}
    /\ \E n \in Nat : n >= 3 /\ SendqMax = n * Chunk
    /\ \E d \in Nat : DropBytes = d * Chunk
    /\ SendqMax \in Nat
    /\ DropBytes \in Nat
    /\ DropBytes >= Chunk
    /\ DropBytes + 2 * Chunk <= SendqMax
PROOF
<1>1. Chunk \in Nat \ {0} /\ Chunk > 0
  BY SendQueueAssumption DEF Chunk
<1> DEFINE n == SendqArg \div Chunk
           h == SendqMax \div 2
           d == h \div Chunk
<1>2. n \in Nat /\ n * Chunk <= SendqArg /\ SendqArg < n * Chunk + Chunk
  BY <1>1, SendQueueAssumption
<1>3. n >= 3
  <2>1. SUFFICES ASSUME n <= 2 PROVE FALSE
    BY <1>2
  <2>2. n * Chunk <= 2 * Chunk
    BY <2>1, <1>1, <1>2
  <2> QED
    BY <2>2, <1>1, <1>2, SendQueueAssumption
<1>4. SendqMax = n * Chunk /\ SendqMax \in Nat
  BY <1>1, <1>2 DEF SendqMax
<1>5. SendqMax >= 3 * Chunk
  BY <1>1, <1>2, <1>3, <1>4
<1>6. h \in Nat /\ 2 * h <= SendqMax /\ SendqMax <= 2 * h + 1
  BY <1>4
<1>7. d \in Nat /\ d * Chunk <= h /\ h < d * Chunk + Chunk
  BY <1>1, <1>6
<1>8. DropBytes = d * Chunk
  BY DEF DropBytes
<1>9. d >= 1
  <2>1. SUFFICES ASSUME d = 0 PROVE FALSE
    BY <1>7
  <2>2. h < Chunk
    BY <2>1, <1>7, <1>1
  <2> QED
    BY <2>2, <1>1, <1>4, <1>5, <1>6
<1>10. d * Chunk >= Chunk
  BY <1>9, <1>7, <1>1
<1>11. d * Chunk + 2 * Chunk <= n * Chunk
  <2>1. 2 * d <= n
    <3>1. (2 * d) * Chunk <= n * Chunk
      BY <1>4, <1>6, <1>7, <1>1
    <3>2. SUFFICES ASSUME 2 * d >= n + 1 PROVE FALSE
      BY <1>2, <1>7
    <3>3. (2 * d) * Chunk >= (n + 1) * Chunk
      BY <3>2, <1>1, <1>2, <1>7
    <3>4. (n + 1) * Chunk = n * Chunk + Chunk
      BY <1>1, <1>2
    <3> QED
      BY <3>1, <3>3, <3>4, <1>1, <1>2, <1>7
  <2>2. d + 2 <= n
    BY <2>1, <1>3, <1>9, <1>7, <1>2
  <2>3. (d + 2) * Chunk <= n * Chunk
    BY <2>2, <1>1, <1>2, <1>7
  <2>4. (d + 2) * Chunk = d * Chunk + 2 * Chunk
    BY <1>1, <1>7
  <2> QED
    BY <2>3, <2>4
<1>12. DropBytes \in Nat /\ DropBytes >= Chunk /\ DropBytes + 2 * Chunk <= SendqMax
  BY <1>1, <1>4, <1>7, <1>8, <1>10, <1>11
<1> QED
  BY <1>1, <1>2, <1>3, <1>4, <1>7, <1>8, <1>12

(* A piece is one chunk or half of one.                                    *)
LEMMA Pieces ==
    ASSUME NEW f \in Formats
    PROVE  /\ PieceSize(f) \in Nat \ {0}
           /\ PieceSize(f) <= Chunk
           /\ \E c \in {1, 2} : Chunk = c * PieceSize(f)
<1>1. CASE f = "CU8"
  BY <1>1, SendQueueAssumption DEF PieceSize, Chunk
<1>2. CASE f = "CS16"
  BY <1>2, SendQueueAssumption DEF PieceSize, Chunk
<1> QED
  BY <1>1, <1>2 DEF Formats

(* A number of chunks is a number of pieces.                               *)
LEMMA ChunksArePieces ==
    ASSUME NEW f \in Formats, NEW n \in Nat
    PROVE  \E k \in Nat : n * Chunk = k * PieceSize(f)
<1>1. PICK c \in {1, 2} : Chunk = c * PieceSize(f)
  BY Pieces
<1>2. n * Chunk = (n * c) * PieceSize(f)
  BY <1>1, Pieces
<1>3. n * c \in Nat
  OBVIOUS
<1> QED
  BY <1>2, <1>3

-----------------------------------------------------------------------------
(* normalizeSendq() after a step that left the positions in range and at   *)
(* most a piece too many in the ring: it does not end the program, and the *)
(* ring is as the invariant wants it.                                      *)
LEMMA Normalized ==
    ASSUME TypeOK, ~fatal,
           NEW s \in 0..SendqMax, NEW e \in 0..SendqMax,
           \E k \in Nat : e = k * PieceSize(format),
           SendqLen(Wrap(s), Wrap(e)) + 2 * Chunk < SendqMax + PieceSize(format),
           NormalizeSendq(s, e)
    PROVE  /\ sendqStart' \in Position
           /\ sendqEnd' \in Position
           /\ bytesDropped' \in Nat
           /\ fatal' = fatal
           /\ \E k \in Nat : sendqEnd' = k * PieceSize(format)
           /\ SendqLen(sendqStart', sendqEnd') + 2 * Chunk < SendqMax
<1> DEFINE P == PieceSize(format)
<1>1. /\ Chunk \in Nat \ {0} /\ SendqMax \in Nat /\ DropBytes \in Nat
      /\ DropBytes >= Chunk /\ DropBytes + 2 * Chunk <= SendqMax
  BY Sizes
<1>2. P \in Nat \ {0} /\ P <= Chunk
  BY Pieces DEF TypeOK
<1>3. /\ sendqStart' = Wrap(s)
      /\ sendqEnd' = NormalEnd(s, e)
      /\ bytesDropped' =
            bytesDropped + (IF MustDrop(s, e) THEN DropBytes ELSE 0)
      /\ fatal' = fatal
  BY <1>1 DEF NormalizeSendq
<1>4. Wrap(s) \in Position /\ Wrap(e) \in Position
  BY <1>1 DEF Wrap, Position
<1>5. bytesDropped' \in Nat
  BY <1>1, <1>3 DEF TypeOK
<1>6. PICK k \in Nat : Wrap(e) = k * P
  <2>1. CASE e = SendqMax
    <3>1. Wrap(e) = 0 * P
      BY <2>1, <1>2 DEF Wrap
    <3> QED
      BY <3>1
  <2>2. CASE e # SendqMax
    BY <2>2 DEF Wrap
  <2> QED
    BY <2>1, <2>2
<1>7. PICK d \in Nat : DropBytes = d * P
  BY Sizes, ChunksArePieces DEF TypeOK
<1>8. PICK m \in Nat : SendqMax = m * P
  BY Sizes, ChunksArePieces DEF TypeOK
<1>9. CASE ~MustDrop(s, e)
  <2>1. NormalEnd(s, e) = Wrap(e)
    BY <1>9 DEF NormalEnd
  <2>2. SendqLen(Wrap(s), Wrap(e)) + 2 * Chunk < SendqMax
    BY <1>1, <1>4, <1>9 DEF MustDrop, SendqLen, Position
  <2> QED
    BY <1>3, <1>4, <1>5, <1>6, <2>1, <2>2
<1>10. CASE MustDrop(s, e)
  <2> DEFINE L == SendqLen(Wrap(s), Wrap(e))
  <2>1. L + 2 * Chunk >= SendqMax /\ L \in Nat
    BY <1>1, <1>4, <1>10 DEF MustDrop, SendqLen, Position
  <2>2. L >= DropBytes
    BY <2>1, <1>1
  <2>3. L + 2 * Chunk - DropBytes < SendqMax
    BY <2>1, <1>1, <1>2
  <2>4. CASE Wrap(e) >= DropBytes
    <3>1. NormalEnd(s, e) = Wrap(e) - DropBytes
      BY <1>10, <2>4 DEF NormalEnd
    <3>2. NormalEnd(s, e) \in Position
      BY <3>1, <2>4, <1>1, <1>4 DEF Position
    <3>3. Wrap(e) - DropBytes = (k - d) * P /\ k - d \in Nat
      <4>1. Wrap(e) - DropBytes = (k - d) * P
        BY <1>2, <1>6, <1>7
      <4>2. k >= d
        <5>1. SUFFICES ASSUME k - d <= -1 PROVE FALSE
          OBVIOUS
        <5>2. (k - d) * P <= (-1) * P
          BY <5>1, <1>2
        <5> QED
          BY <5>2, <4>1, <2>4, <1>1, <1>2, <1>4 DEF Position
      <4> QED
        BY <4>1, <4>2
    <3>4. SendqLen(Wrap(s), NormalEnd(s, e)) = L - DropBytes
      BY <3>1, <2>2, <2>4, <1>1, <1>4 DEF SendqLen, Position
    <3> QED
      BY <3>1, <3>2, <3>3, <3>4, <2>1, <2>3, <1>1, <1>3, <1>4, <1>5
  <2>5. CASE Wrap(e) < DropBytes
    <3>1. NormalEnd(s, e) = Wrap(e) - DropBytes + SendqMax
      BY <1>1, <1>4, <1>10, <2>5 DEF NormalEnd, Position
    <3>2. NormalEnd(s, e) \in Position
      BY <3>1, <2>5, <1>1, <1>4 DEF Position
    <3>3. Wrap(e) - DropBytes + SendqMax = (k - d + m) * P /\ k - d + m \in Nat
      <4>1. Wrap(e) - DropBytes + SendqMax = (k - d + m) * P
        BY <1>2, <1>6, <1>7, <1>8
      <4>2. k - d + m >= 0
        <5>1. SUFFICES ASSUME k - d + m <= -1 PROVE FALSE
          OBVIOUS
        <5>2. (k - d + m) * P <= (-1) * P
          BY <5>1, <1>2
        <5> QED
          BY <5>2, <4>1, <3>1, <3>2, <1>1, <1>2 DEF Position
      <4> QED
        BY <4>1, <4>2
    <3>4. SendqLen(Wrap(s), NormalEnd(s, e)) = L - DropBytes
      BY <3>1, <2>2, <2>5, <1>1, <1>4 DEF SendqLen, Position
    <3> QED
      BY <3>1, <3>2, <3>3, <3>4, <2>1, <2>3, <1>1, <1>3, <1>4, <1>5
  <2> QED
    BY <2>4, <2>5, <1>1, <1>4 DEF Position
<1> QED
  BY <1>9, <1>10

-----------------------------------------------------------------------------
LEMMA InitRingInv == Init => RingInv
<1> SUFFICES ASSUME Init PROVE RingInv
  OBVIOUS
<1>1. SendqMax \in Nat /\ Chunk \in Nat \ {0} /\ SendqMax >= 3 * Chunk
  BY Sizes
<1>2. 0 \in Position
  BY <1>1 DEF Position
<1>3. TypeOK
  <2>1. sendq \in [Position -> Nat \cup {Unwritten}]
    BY DEF Init, Position
  <2>2. sent \in Seq(Nat \cup {Unwritten})
    BY DEF Init
  <2> QED
    BY <2>1, <2>2, <1>2 DEF Init, TypeOK
<1>4. EndOnBoundary
  <2>1. sendqEnd = 0 * PieceSize(format)
    BY Pieces DEF Init
  <2> QED
    BY <2>1 DEF EndOnBoundary
<1>5. Slack
  BY <1>1 DEF Init, Slack, SendqLen
<1> QED
  BY <1>3, <1>4, <1>5 DEF Init, RingInv

(* Putting a piece behind the waiting bytes makes the queue longer by the  *)
(* piece, also when it ends exactly at the end of the memory.              *)
LEMMA AppendLen ==
    ASSUME RingInv
    PROVE  LET p == PieceSize(format)
           IN  /\ sendqEnd + p \in 0..SendqMax
               /\ \E k \in Nat : sendqEnd + p = k * p
               /\ SendqLen(sendqStart, Wrap(sendqEnd + p))
                     = SendqLen(sendqStart, sendqEnd) + p
<1> DEFINE p == PieceSize(format)
<1>1. p \in Nat \ {0} /\ p <= Chunk
  BY Pieces DEF RingInv, TypeOK
<1>2. SendqMax \in Nat /\ Chunk \in Nat \ {0}
  BY Sizes
<1>3. PICK k \in Nat : sendqEnd = k * p
  BY DEF RingInv, EndOnBoundary
<1>4. PICK m \in Nat : SendqMax = m * p
  BY Sizes, ChunksArePieces DEF RingInv, TypeOK
<1>5. sendqEnd + p <= SendqMax
  <2>1. k * p < m * p
    BY <1>2, <1>3, <1>4 DEF RingInv, TypeOK, Position
  <2>2. k * p + p <= m * p
    BY <2>1, <1>1, NextMultiple
  <2> QED
    BY <2>2, <1>3, <1>4
<1>6. sendqEnd + p \in 0..SendqMax
  BY <1>1, <1>2, <1>5 DEF RingInv, TypeOK, Position
<1>7. sendqEnd + p = (k + 1) * p /\ k + 1 \in Nat
  BY <1>1, <1>3
<1>8. SendqLen(sendqStart, Wrap(sendqEnd + p))
         = SendqLen(sendqStart, sendqEnd) + p
  <2>1. /\ sendqStart \in 0..(SendqMax - 1) /\ sendqEnd \in 0..(SendqMax - 1)
        /\ SendqLen(sendqStart, sendqEnd) + 2 * Chunk < SendqMax
    BY DEF RingInv, TypeOK, Position, Slack
  <2>2. CASE sendqEnd + p = SendqMax
    <3>1. Wrap(sendqEnd + p) = 0
      BY <2>2 DEF Wrap
    <3>2. sendqStart # 0
      BY <2>1, <2>2, <1>1, <1>2 DEF SendqLen
    <3> QED
      BY <2>1, <2>2, <3>1, <3>2, <1>1, <1>2 DEF SendqLen
  <2>3. CASE sendqEnd + p # SendqMax
    <3>1. Wrap(sendqEnd + p) = sendqEnd + p
      BY <2>3 DEF Wrap
    <3> QED
      BY <2>1, <3>1, <1>1, <1>2 DEF SendqLen
  <2> QED
    BY <2>2, <2>3
<1> QED
  BY <1>6, <1>7, <1>8

(* Taking n bytes that send() was offered makes it shorter by n.           *)
LEMMA FlushLen ==
    ASSUME RingInv, NEW n \in 1..ToWrite
    PROVE  /\ n \in Nat
           /\ sendqStart + n \in 0..SendqMax
           /\ SendqLen(Wrap(sendqStart + n), sendqEnd)
                 = SendqLen(sendqStart, sendqEnd) - n
<1>1. SendqMax \in Nat
  BY Sizes
<1>2. SendqLen(sendqStart, sendqEnd) \in Nat
  BY <1>1 DEF RingInv, TypeOK, Position, SendqLen
<1>3. ToWrite \in Nat /\ ToWrite <= SendqLen(sendqStart, sendqEnd)
      /\ sendqStart + ToWrite <= SendqMax
  BY <1>1, <1>2, SendQueueAssumption DEF ToWrite, RingInv, TypeOK, Position
<1>4. n \in Nat /\ n >= 1 /\ n <= SendqLen(sendqStart, sendqEnd)
      /\ sendqStart + n <= SendqMax
  BY <1>1, <1>2, <1>3 DEF RingInv, TypeOK, Position
<1>5. sendqStart + n \in 0..SendqMax
  BY <1>1, <1>4 DEF RingInv, TypeOK, Position
<1>6. SendqLen(Wrap(sendqStart + n), sendqEnd)
         = SendqLen(sendqStart, sendqEnd) - n
  BY <1>1, <1>4 DEF RingInv, TypeOK, Position, SendqLen, Wrap
<1> QED
  BY <1>4, <1>5, <1>6

LEMMA NextRingInv == RingInv /\ [Next]_vars => RingInv'
<1> SUFFICES ASSUME RingInv, [Next]_vars PROVE RingInv'
  OBVIOUS
<1> USE DEF RingInv
<1>1. SendqMax \in Nat /\ Chunk \in Nat \ {0} /\ SendqMax >= 3 * Chunk
  BY Sizes
<1>2. PieceSize(format) \in Nat \ {0}
  BY Pieces DEF TypeOK
<1>3. Wrap(sendqStart) = sendqStart /\ Wrap(sendqEnd) = sendqEnd
  BY <1>1 DEF TypeOK, Position, Wrap
<1>4. CASE AcceptClient
  <2>1. TypeOK'
    BY <1>1, <1>4 DEF AcceptClient, TypeOK, Position
  <2>2. EndOnBoundary'
    <3>1. 0 = 0 * PieceSize(format)
      BY <1>2
    <3> QED
      BY <3>1, <1>4 DEF AcceptClient, EndOnBoundary
  <2>3. Slack'
    BY <1>1, <1>4 DEF AcceptClient, Slack, SendqLen
  <2> QED
    BY <2>1, <2>2, <2>3, <1>4 DEF AcceptClient
<1>5. CASE CloseClient
  BY <1>5 DEF CloseClient, ring, TypeOK, EndOnBoundary, Slack
<1>6. CASE SkipChunk
  <2>1. stream' \in Nat
    BY <1>2, <1>6 DEF SkipChunk, TypeOK
  <2> QED
    BY <2>1, <1>6 DEF SkipChunk, ring, TypeOK, EndOnBoundary, Slack
<1>7. CASE AppendChunk
  <2> DEFINE e == sendqEnd + PieceSize(format)
  <2>1. /\ e \in 0..SendqMax
        /\ \E k \in Nat : e = k * PieceSize(format)
        /\ SendqLen(sendqStart, Wrap(e))
              = SendqLen(sendqStart, sendqEnd) + PieceSize(format)
    BY AppendLen
  <2>2. SendqLen(Wrap(sendqStart), Wrap(e)) + 2 * Chunk
           < SendqMax + PieceSize(format)
    BY <2>1, <1>1, <1>2, <1>3 DEF Slack, SendqLen, TypeOK, Position
  <2>3. sendqStart \in 0..SendqMax /\ NormalizeSendq(sendqStart, e)
    BY <1>1, <1>7 DEF AppendChunk, TypeOK, Position
  <2> HIDE DEF e
  <2>4. /\ sendqStart' \in Position
        /\ sendqEnd' \in Position
        /\ bytesDropped' \in Nat
        /\ fatal' = fatal
        /\ \E k \in Nat : sendqEnd' = k * PieceSize(format)
        /\ SendqLen(sendqStart', sendqEnd') + 2 * Chunk < SendqMax
    BY <2>1, <2>2, <2>3, Normalized
  <2>5. stream' \in Nat /\ format' = format
    BY <1>2, <1>7 DEF AppendChunk, TypeOK
  <2>6. sendq' \in [Position -> Nat \cup {Unwritten}]
    BY <1>1, <1>2, <1>7 DEF AppendChunk, TypeOK, Position
  <2>7. TypeOK'
    BY <2>4, <2>5, <2>6, <1>7 DEF AppendChunk, TypeOK
  <2> QED
    BY <2>4, <2>5, <2>7 DEF EndOnBoundary, Slack
<1>8. CASE FlushClient
  <2>1. PICK n \in 1..ToWrite :
          /\ NormalizeSendq(sendqStart + n, sendqEnd)
          /\ sent' = sent \o [i \in 1..n |-> sendq[sendqStart + i - 1]]
    BY <1>8 DEF FlushClient
  <2>2. /\ n \in Nat
        /\ sendqStart + n \in 0..SendqMax
        /\ SendqLen(Wrap(sendqStart + n), sendqEnd)
              = SendqLen(sendqStart, sendqEnd) - n
    BY FlushLen
  <2>3. SendqLen(Wrap(sendqStart + n), Wrap(sendqEnd)) + 2 * Chunk
           < SendqMax + PieceSize(format)
    BY <2>2, <1>1, <1>2, <1>3 DEF Slack, SendqLen, TypeOK, Position
  <2>4. sendqEnd \in 0..SendqMax
        /\ \E k \in Nat : sendqEnd = k * PieceSize(format)
    BY <1>1 DEF TypeOK, Position, EndOnBoundary
  <2>5. /\ sendqStart' \in Position
        /\ sendqEnd' \in Position
        /\ bytesDropped' \in Nat
        /\ fatal' = fatal
        /\ \E k \in Nat : sendqEnd' = k * PieceSize(format)
        /\ SendqLen(sendqStart', sendqEnd') + 2 * Chunk < SendqMax
    BY <2>1, <2>2, <2>3, <2>4, Normalized
  <2>6. sent' \in Seq(Nat \cup {Unwritten})
    <3>1. \A i \in 1..n : sendqStart + i - 1 \in Position
      BY <2>2, <1>1 DEF TypeOK, Position
    <3>2. [i \in 1..n |-> sendq[sendqStart + i - 1]]
             \in Seq(Nat \cup {Unwritten})
      BY <3>1, <2>2 DEF TypeOK
    <3> QED
      BY <3>2, <2>1 DEF TypeOK
  <2>7. TypeOK'
    BY <2>5, <2>6, <1>8 DEF FlushClient, TypeOK
  <2> QED
    BY <2>5, <2>7, <1>8 DEF FlushClient, EndOnBoundary, Slack
<1>9. CASE UNCHANGED vars
  BY <1>9 DEF vars, ring, TypeOK, EndOnBoundary, Slack
<1> QED
  BY <1>4, <1>5, <1>6, <1>7, <1>8, <1>9 DEF Next

-----------------------------------------------------------------------------
(* The invariant holds in every behaviour.                                 *)
THEOREM RingInvariant == Spec => []RingInv
<1>1. RingInv /\ [Next]_vars => RingInv'
  BY NextRingInv
<1> QED
  BY InitRingInv, <1>1, PTL DEF Spec

(* Type correctness: the positions never leave the memory of the ring.     *)
THEOREM SendQueueTypeOK == Spec => []TypeOK
<1>1. RingInv => TypeOK
  BY DEF RingInv
<1> QED
  BY RingInvariant, <1>1, PTL

(* For every size of the ring, every send size and every order of chunks,  *)
(* sends, connects and disconnects, the program never ends with "FATAL     *)
(* ringbuffer flaw".                                                       *)
THEOREM NeverFatal == Spec => []NoRingbufferFlaw
<1>1. RingInv => NoRingbufferFlaw
  BY DEF RingInv, NoRingbufferFlaw
<1> QED
  BY RingInvariant, <1>1, PTL

(* There is always room for the next chunk: in one piece before the end of *)
(* the memory, and without touching a byte that still waits.               *)
THEOREM AlwaysRoomForChunk == Spec => []RoomForChunk
<1>1. RingInv => RoomForChunk
  <2> SUFFICES ASSUME RingInv PROVE RoomForChunk
    OBVIOUS
  <2>1. /\ SendqMax \in Nat /\ Chunk \in Nat \ {0}
        /\ PieceSize(format) \in Nat \ {0} /\ PieceSize(format) <= Chunk
    BY Sizes, Pieces DEF RingInv, TypeOK
  <2>2. sendqEnd + PieceSize(format) <= SendqMax
    BY <2>1, AppendLen
  <2>3. SendqLen(sendqStart, sendqEnd) + PieceSize(format) < SendqMax
    BY <2>1 DEF RingInv, TypeOK, Position, Slack, SendqLen
  <2> QED
    BY <2>2, <2>3 DEF RoomForChunk, Queued
<1> QED
  BY RingInvariant, <1>1, PTL

-----------------------------------------------------------------------------
(* What normalizeSendq() takes off the queue it adds to bytesDropped.      *)
LEMMA NormalizeBalance ==
    ASSUME NEW s \in 0..SendqMax, NEW e \in 0..SendqMax,
           bytesDropped \in Nat, NormalizeSendq(s, e)
    PROVE  SendqLen(sendqStart', sendqEnd') + bytesDropped'
              = SendqLen(Wrap(s), Wrap(e)) + bytesDropped
<1> DEFINE L == SendqLen(Wrap(s), Wrap(e))
<1>1. /\ Chunk \in Nat \ {0} /\ SendqMax \in Nat /\ DropBytes \in Nat
      /\ DropBytes >= Chunk /\ DropBytes + 2 * Chunk <= SendqMax
  BY Sizes
<1>2. /\ sendqStart' = Wrap(s)
      /\ sendqEnd' = NormalEnd(s, e)
      /\ bytesDropped' =
            bytesDropped + (IF MustDrop(s, e) THEN DropBytes ELSE 0)
  BY <1>1 DEF NormalizeSendq
<1>3. Wrap(s) \in Position /\ Wrap(e) \in Position
  BY <1>1 DEF Wrap, Position
<1>4. L \in Nat
  BY <1>1, <1>3 DEF SendqLen, Position
<1>5. CASE ~MustDrop(s, e)
  BY <1>2, <1>4, <1>5 DEF NormalEnd
<1>6. CASE MustDrop(s, e)
  <2>1. L >= DropBytes
    BY <1>1, <1>4, <1>6 DEF MustDrop
  <2>2. SendqLen(Wrap(s), NormalEnd(s, e)) = L - DropBytes
    <3>1. CASE Wrap(e) >= DropBytes
      <4>1. NormalEnd(s, e) = Wrap(e) - DropBytes
        BY <1>6, <3>1 DEF NormalEnd
      <4> QED
        BY <4>1, <2>1, <3>1, <1>1, <1>3 DEF SendqLen, Position
    <3>2. CASE Wrap(e) < DropBytes
      <4>1. NormalEnd(s, e) = Wrap(e) - DropBytes + SendqMax
        BY <1>1, <1>3, <1>6, <3>2 DEF NormalEnd, Position
      <4> QED
        BY <4>1, <2>1, <3>2, <1>1, <1>3 DEF SendqLen, Position
    <3> QED
      BY <3>1, <3>2, <1>1, <1>3 DEF Position
  <2> QED
    BY <2>2, <1>1, <1>2, <1>4, <1>6
<1> QED
  BY <1>5, <1>6

(* One call of flushClient(): the queue gets shorter by the bytes that     *)
(* were sent, and normalizeSendq() finds room enough to drop nothing.      *)
LEMMA FlushStep ==
    ASSUME RingInv, FlushClient
    PROVE  /\ bytesDropped' = bytesDropped
           /\ Len(sent) \in Nat
           /\ Len(sent') \in Nat
           /\ SendqLen(sendqStart, sendqEnd) \in Nat
           /\ SendqLen(sendqStart', sendqEnd')
                 = SendqLen(sendqStart, sendqEnd) - (Len(sent') - Len(sent))
<1>1. PICK n \in 1..ToWrite :
        /\ NormalizeSendq(sendqStart + n, sendqEnd)
        /\ sent' = sent \o [i \in 1..n |-> sendq[sendqStart + i - 1]]
  BY DEF FlushClient
<1>2. /\ n \in Nat
      /\ sendqStart + n \in 0..SendqMax
      /\ SendqLen(Wrap(sendqStart + n), sendqEnd)
            = SendqLen(sendqStart, sendqEnd) - n
  BY FlushLen
<1>3. SendqMax \in Nat /\ Chunk \in Nat \ {0}
  BY Sizes
<1>4. Wrap(sendqEnd) = sendqEnd /\ sendqEnd \in 0..SendqMax
  BY <1>3 DEF RingInv, TypeOK, Position, Wrap
<1>5. SendqLen(sendqStart, sendqEnd) \in Nat
  BY <1>3 DEF RingInv, TypeOK, Position, SendqLen
<1>6. ~MustDrop(sendqStart + n, sendqEnd)
  <2>1. SendqLen(sendqStart, sendqEnd) + 2 * Chunk < SendqMax
    BY DEF RingInv, Slack
  <2> QED
    BY <2>1, <1>2, <1>3, <1>4, <1>5 DEF MustDrop
<1>7. /\ sendqStart' = Wrap(sendqStart + n)
      /\ sendqEnd' = sendqEnd
      /\ bytesDropped' = bytesDropped
  BY <1>1, <1>2, <1>3, <1>4, <1>6
  DEF NormalizeSendq, NormalEnd, RingInv, TypeOK
<1>8. Len(sent') = Len(sent) + n /\ Len(sent) \in Nat
  <2>1. [i \in 1..n |-> sendq[sendqStart + i - 1]]
           \in Seq(Nat \cup {Unwritten})
    <3>1. \A i \in 1..n : sendqStart + i - 1 \in Position
      BY <1>2, <1>3 DEF RingInv, TypeOK, Position
    <3> QED
      BY <3>1, <1>2 DEF RingInv, TypeOK
  <2>2. Len([i \in 1..n |-> sendq[sendqStart + i - 1]]) = n
    BY <1>2
  <2>3. sent \in Seq(Nat \cup {Unwritten})
    BY DEF RingInv, TypeOK
  <2> QED
    BY <2>1, <2>2, <2>3, <1>1
<1> QED
  BY <1>2, <1>5, <1>7, <1>8

(* A flush shortens the queue by what was sent and drops nothing, although *)
(* it calls the same normalizeSendq() as the producer.                     *)
THEOREM FlushNeverDrops == Spec => FlushDropsNothing
<1>1. RingInv /\ [Next]_vars =>
         [sent' # sent /\ connected /\ connected' =>
             /\ bytesDropped' = bytesDropped
             /\ SendqLen(sendqStart', sendqEnd') =
                   Queued - (Len(sent') - Len(sent))]_vars
  <2> SUFFICES ASSUME RingInv, Next, sent' # sent, connected, connected'
               PROVE  /\ bytesDropped' = bytesDropped
                      /\ SendqLen(sendqStart', sendqEnd') =
                            Queued - (Len(sent') - Len(sent))
    OBVIOUS
  <2>1. FlushClient
    BY DEF Next, AcceptClient, CloseClient, SkipChunk, AppendChunk
  <2> QED
    BY <2>1, FlushStep DEF Queued
<1> QED
  BY RingInvariant, <1>1, PTL DEF Spec, FlushDropsNothing

-----------------------------------------------------------------------------
(* The length of a queue is a number of bytes.                             *)
LEMMA LenIsNat ==
    ASSUME NEW s \in Position, NEW e \in Position
    PROVE  SendqLen(s, e) \in Nat
  BY Sizes DEF SendqLen, Position

LEMMA InitAccounted == Init => EveryByteAccounted
  BY DEF Init, EveryByteAccounted

LEMMA NextAccounted ==
    RingInv /\ EveryByteAccounted /\ [Next]_vars => EveryByteAccounted'
<1> SUFFICES ASSUME RingInv, EveryByteAccounted, [Next]_vars
             PROVE  EveryByteAccounted'
  OBVIOUS
<1>1. /\ SendqMax \in Nat /\ Chunk \in Nat \ {0} /\ SendqMax >= 3 * Chunk
      /\ PieceSize(format) \in Nat \ {0}
  BY Sizes, Pieces DEF RingInv, TypeOK
<1>2. /\ stream \in Nat /\ since \in Nat /\ bytesDropped \in Nat
      /\ Queued \in Nat /\ Len(sent) \in Nat
  BY <1>1 DEF RingInv, TypeOK, Position, Queued, SendqLen
<1>3. CASE AcceptClient
  <2>1. Len(sent') = 0 /\ Queued' = 0 /\ stream' = stream /\ since' = stream
        /\ bytesDropped' = 0
    BY <1>3 DEF AcceptClient, Queued, SendqLen
  <2>2. stream' - since' = Len(sent') + Queued' + bytesDropped'
    BY <2>1, <1>2
  <2> QED
    BY <2>2 DEF EveryByteAccounted
<1>4. CASE AppendChunk
  <2>1. /\ sendqEnd + PieceSize(format) \in 0..SendqMax
        /\ SendqLen(sendqStart, Wrap(sendqEnd + PieceSize(format)))
              = Queued + PieceSize(format)
    BY AppendLen DEF Queued
  <2>2. /\ sendqStart \in 0..SendqMax /\ Wrap(sendqStart) = sendqStart
        /\ NormalizeSendq(sendqStart, sendqEnd + PieceSize(format))
    BY <1>1, <1>4 DEF AppendChunk, RingInv, TypeOK, Position, Wrap
  <2>3. Queued' + bytesDropped' = Queued + PieceSize(format) + bytesDropped
    BY <2>1, <2>2, <1>2, NormalizeBalance DEF Queued
  <2>4. bytesDropped' \in Nat /\ Queued' \in Nat
    <3>1. RingInv'
      BY NextRingInv
    <3>2. /\ bytesDropped' \in Nat
          /\ sendqStart' \in Position /\ sendqEnd' \in Position
      BY <3>1 DEF RingInv, TypeOK, Position
    <3>3. SendqLen(sendqStart', sendqEnd') \in Nat
      BY <3>2, LenIsNat
    <3> QED
      BY <3>2, <3>3 DEF Queued
  <2>5. /\ stream' = stream + PieceSize(format) /\ since' = since
        /\ sent' = sent
    BY <1>4 DEF AppendChunk
  <2>6. stream - since = Len(sent) + Queued + bytesDropped
    BY <1>4 DEF AppendChunk, EveryByteAccounted
  <2>7. stream' - since' = Len(sent') + Queued' + bytesDropped'
    <3>1. PieceSize(format) \in Nat
      BY <1>1
    <3>2. PICK q1 \in Nat : q1 = Queued'
      BY <2>4
    <3>3. PICK d1 \in Nat : d1 = bytesDropped'
      BY <2>4
    <3>4. q1 + d1 = Queued + PieceSize(format) + bytesDropped
      BY <2>3, <3>2, <3>3
    <3>5. (stream + PieceSize(format)) - since = Len(sent) + q1 + d1
      BY <3>1, <3>4, <2>6, <1>2
    <3>6. (stream + PieceSize(format)) - since = Len(sent) + Queued' + bytesDropped'
      BY <3>2, <3>3, <3>5
    <3> QED
      BY <3>6, <2>5, Zenon
  <2> QED
    BY <2>7 DEF EveryByteAccounted
<1>5. CASE FlushClient
  <2>1. stream' = stream /\ since' = since
    BY <1>5 DEF FlushClient
  <2>2. /\ bytesDropped' = bytesDropped /\ Len(sent') \in Nat
        /\ Queued' = Queued - (Len(sent') - Len(sent))
    BY <1>5, FlushStep DEF Queued
  <2>3. stream - since = Len(sent) + Queued + bytesDropped
    BY <1>5 DEF FlushClient, EveryByteAccounted
  <2>4. stream' - since' = Len(sent') + Queued' + bytesDropped'
    BY <2>1, <2>2, <2>3, <1>2
  <2> QED
    BY <2>4 DEF EveryByteAccounted
<1>6. CASE UNCHANGED vars
  BY <1>6 DEF vars, ring, EveryByteAccounted, Queued
<1>7. CASE CloseClient \/ SkipChunk
  BY <1>7 DEF CloseClient, SkipChunk, EveryByteAccounted
<1> QED
  BY <1>3, <1>4, <1>5, <1>6, <1>7 DEF Next

(* Every byte produced since the client connected was sent, is waiting, or *)
(* is counted in bytesDropped: no append overwrites what waits, and a ring *)
(* that is full is never taken for one that is empty.                      *)
THEOREM AllBytesAccounted == Spec => []EveryByteAccounted
<1>1. RingInv /\ EveryByteAccounted /\ [Next]_vars => EveryByteAccounted'
  BY NextAccounted
<1> QED
  BY RingInvariant, InitAccounted, <1>1, PTL DEF Spec

-----------------------------------------------------------------------------
(***************************************************************************)
(* The ring implements the lossy queue, for every size: each step on the   *)
(* ring is a step on the queue of the waiting bytes, which nobody stores.  *)
(* What is delivered is then followed in terms of that queue alone.        *)
(***************************************************************************)
Byte == Nat \cup {Unwritten}
Piece == Abstract!Piece

-----------------------------------------------------------------------------
(* Where a waiting byte lies: behind sendqStart, or at the front again.    *)
LEMMA CellOf ==
    ASSUME NEW s \in Position, NEW i \in 1..SendqMax
    PROVE  /\ (s + i - 1) % SendqMax =
                 IF s + i - 1 < SendqMax THEN s + i - 1 ELSE s + i - 1 - SendqMax
           /\ (s + i - 1) % SendqMax \in Position
<1>1. SendqMax \in Nat /\ SendqMax > 0 /\ s \in 0..(SendqMax - 1)
  BY Sizes DEF Position
<1>2. CASE s + i - 1 < SendqMax
  BY <1>1, <1>2 DEF Position
<1>3. CASE s + i - 1 >= SendqMax
  BY <1>1, <1>3 DEF Position
<1> QED
  BY <1>1, <1>2, <1>3

LEMMA WaitingIsSeq ==
    TypeOK => /\ Queued \in Nat /\ Queued < SendqMax
              /\ Waiting \in Seq(Byte) /\ Len(Waiting) = Queued
<1> SUFFICES ASSUME TypeOK
             PROVE  /\ Queued \in Nat /\ Queued < SendqMax
                    /\ Waiting \in Seq(Byte) /\ Len(Waiting) = Queued
  OBVIOUS
<1>1. SendqMax \in Nat /\ SendqMax > 0
  BY Sizes
<1>2. Queued \in Nat /\ Queued < SendqMax
  BY <1>1 DEF TypeOK, Position, Queued, SendqLen
<1>3. \A i \in 1..Queued : (sendqStart + i - 1) % SendqMax \in Position
  BY <1>1, <1>2, CellOf DEF TypeOK
<1>4. \A i \in 1..Queued : sendq[(sendqStart + i - 1) % SendqMax] \in Byte
  BY <1>3 DEF TypeOK, Byte
<1> QED
  BY <1>2, <1>4 DEF Waiting

LEMMA WaitingByte ==
    \A i \in 1..Queued : Waiting[i] = sendq[(sendqStart + i - 1) % SendqMax]
  BY DEF Waiting

(* The first n elements of a sequence.                                     *)
LEMMA FirstOf ==
    ASSUME NEW S, NEW s \in Seq(S), NEW n \in 0..Len(s)
    PROVE  /\ SubSeq(s, 1, n) \in Seq(S)
           /\ Len(SubSeq(s, 1, n)) = n
           /\ \A i \in 1..n : SubSeq(s, 1, n)[i] = s[i]
  OBVIOUS

(* What normalizeSendq() takes off is a number of whole chunks.            *)
LEMMA DropsChunks ==
    ASSUME NEW s \in 0..SendqMax, NEW e \in 0..SendqMax,
           bytesDropped \in Nat, NormalizeSendq(s, e)
    PROVE  \E d \in Nat : bytesDropped' = bytesDropped + d * Chunk
<1>1. bytesDropped' = bytesDropped + (IF MustDrop(s, e) THEN DropBytes ELSE 0)
  BY Sizes DEF NormalizeSendq
<1>2. CASE MustDrop(s, e)
  BY <1>1, <1>2, Sizes
<1>3. CASE ~MustDrop(s, e)
  <2>1. 0 = 0 * Chunk
    BY Sizes
  <2> QED
    BY <1>1, <1>3, <2>1
<1> QED
  BY <1>2, <1>3

-----------------------------------------------------------------------------
(* One chunk of the chunk loop: the piece comes after what waits, and then *)
(* whole chunks may go from the end.                                       *)
LEMMA AppendStep ==
    ASSUME RingInv, AppendChunk
    PROVE  /\ Piece \in Seq(Byte) /\ Len(Piece) = PieceSize(format)
           /\ Queued' \in 0..(Queued + PieceSize(format))
           /\ \E d \in Nat : Queued + PieceSize(format) - Queued' = d * Chunk
           /\ Waiting' = SubSeq(Waiting \o Piece, 1, Queued')
<1> DEFINE p == PieceSize(format)
           e == sendqEnd + p
<1>1. /\ SendqMax \in Nat /\ SendqMax > 0 /\ Chunk \in Nat \ {0}
      /\ p \in Nat \ {0}
  BY Sizes, Pieces DEF RingInv, TypeOK
<1>2. TypeOK /\ TypeOK'
  BY NextRingInv DEF RingInv, Next
<1>3. /\ e \in 0..SendqMax
      /\ SendqLen(sendqStart, Wrap(e)) = Queued + p
  BY AppendLen DEF Queued
<1>4. /\ sendqStart \in 0..SendqMax /\ Wrap(sendqStart) = sendqStart
      /\ NormalizeSendq(sendqStart, e)
  BY <1>1, <1>2 DEF AppendChunk, TypeOK, Position, Wrap
<1>5. sendqStart' = sendqStart
  BY <1>3, <1>4 DEF NormalizeSendq
<1> HIDE DEF e
<1>6. PICK d \in Nat : bytesDropped' = bytesDropped + d * Chunk
  BY <1>2, <1>3, <1>4, DropsChunks DEF TypeOK
<1>7. Queued' + bytesDropped' = Queued + p + bytesDropped
  BY <1>2, <1>3, <1>4, NormalizeBalance DEF Queued, TypeOK
<1>8. /\ Queued \in Nat /\ Queued < SendqMax
      /\ Waiting \in Seq(Byte) /\ Len(Waiting) = Queued
  BY <1>2, WaitingIsSeq
<1>9. /\ Queued' \in Nat /\ Queued' < SendqMax
      /\ Waiting' \in Seq(Byte) /\ Len(Waiting') = Queued'
  <2>1. TypeOK' => (/\ Queued \in Nat /\ Queued < SendqMax
                    /\ Waiting \in Seq(Byte) /\ Len(Waiting) = Queued)'
    BY WaitingIsSeq, PTL
  <2> QED
    BY <1>2, <2>1
<1>10. /\ \A i \in 1..Queued : Waiting[i] = sendq[(sendqStart + i - 1) % SendqMax]
       /\ \A i \in 1..Queued' : Waiting'[i] = sendq'[(sendqStart + i - 1) % SendqMax]
  <2>1. (\A i \in 1..Queued : Waiting[i] = sendq[(sendqStart + i - 1) % SendqMax])'
    BY WaitingByte, PTL
  <2> QED
    BY <2>1, <1>5, WaitingByte
<1>11. Queued + p - Queued' = d * Chunk /\ Queued' \in 0..(Queued + p)
  <2>1. PICK q \in Nat : q = Queued'
    BY <1>9
  <2>2. PICK b \in Nat : b = bytesDropped'
    BY <1>2 DEF TypeOK
  <2>3. PICK m \in Nat : m = d * Chunk
    BY <1>1
  <2>4. b = bytesDropped + m /\ q + b = Queued + p + bytesDropped
    BY <1>6, <1>7, <2>1, <2>2, <2>3
  <2>5. Queued \in Nat /\ p \in Nat /\ bytesDropped \in Nat
    BY <1>1, <1>2, <1>8 DEF TypeOK
  <2>6. Queued + p - q = m /\ q \in 0..(Queued + p)
    BY <2>4, <2>5
  <2> QED
    BY <2>1, <2>3, <2>6
<1>12. /\ Piece \in Seq(Byte) /\ Len(Piece) = p
       /\ \A i \in 1..p : Piece[i] = stream + i - 1
  BY <1>1, <1>2 DEF Piece, Abstract!Piece, TypeOK, Byte
<1>13. sendq' = [j \in 0..(SendqMax - 1) |->
                    IF j \in sendqEnd..(sendqEnd + PieceSize(format) - 1)
                    THEN stream + (j - sendqEnd) ELSE sendq[j]]
  BY DEF AppendChunk
<1>14. ASSUME NEW i \in 1..Queued'
       PROVE  Waiting'[i] = (Waiting \o Piece)[i]
  <2> DEFINE c == (sendqStart + i - 1) % SendqMax
  <2>1. /\ c = IF sendqStart + i - 1 < SendqMax THEN sendqStart + i - 1
               ELSE sendqStart + i - 1 - SendqMax
        /\ c \in Position
    BY <1>1, <1>2, <1>9, CellOf DEF TypeOK
  <2> HIDE DEF c
  <2>2. Waiting'[i] = IF c \in sendqEnd..(e - 1) THEN stream + (c - sendqEnd)
                      ELSE sendq[c]
    <3>1. Waiting'[i] = sendq'[c]
      BY <1>10 DEF c
    <3>2. sendq'[c] = IF c \in sendqEnd..(e - 1) THEN stream + (c - sendqEnd)
                      ELSE sendq[c]
      <4>1. c \in 0..(SendqMax - 1)
        BY <2>1 DEF Position
      <4>2. sendq'[c] = IF c \in sendqEnd..(sendqEnd + PieceSize(format) - 1)
                        THEN stream + (c - sendqEnd) ELSE sendq[c]
        BY <4>1, <1>13
      <4>3. e - 1 = sendqEnd + PieceSize(format) - 1
        BY <1>1, <1>2 DEF e, TypeOK, Position
      <4> QED
        BY <4>2, <4>3
    <3> QED
      BY <3>1, <3>2
  <2>3. /\ sendqStart \in 0..(SendqMax - 1) /\ sendqEnd \in 0..(SendqMax - 1)
        /\ e = sendqEnd + p
    BY <1>2 DEF TypeOK, Position, e
  <2>4. Queued = IF sendqStart <= sendqEnd THEN sendqEnd - sendqStart
                 ELSE sendqEnd + (SendqMax - sendqStart)
    BY DEF Queued, SendqLen
  <2>5. sendqStart > sendqEnd => e <= sendqStart
    BY <1>1, <1>3, <1>8, <2>3, <2>4 DEF SendqLen, Wrap
  <2>6. CASE i <= Queued
    <3>1. c \notin sendqEnd..(e - 1)
      BY <1>1, <1>3, <2>1, <2>3, <2>4, <2>5, <2>6
    <3>2. Waiting'[i] = Waiting[i]
      BY <3>1, <2>2, <2>6, <1>8, <1>10 DEF c
    <3> QED
      BY <3>2, <2>6, <1>8, <1>12
  <2>7. CASE i > Queued
    <3>1. i - Queued \in 1..p
      BY <2>7, <1>1, <1>8, <1>11
    <3>2. c = sendqEnd + (i - Queued) - 1
      BY <1>1, <1>3, <2>1, <2>3, <2>4, <2>5, <2>7, <3>1
    <3>3. Waiting'[i] = stream + (i - Queued) - 1
      <4>1. sendqEnd \in Nat /\ stream \in Nat /\ p \in Nat /\ Queued \in Nat
        BY <1>1, <1>2, <1>8 DEF TypeOK, Position
      <4>2. c \in sendqEnd..(e - 1) /\ c - sendqEnd = (i - Queued) - 1
        BY <2>3, <3>1, <3>2, <4>1
      <4>3. Waiting'[i] = stream + (c - sendqEnd)
        BY Zenon, <2>2, <4>2
      <4> QED
        BY <3>1, <4>1, <4>2, <4>3
    <3>4. (Waiting \o Piece)[i] = Piece[i - Queued]
      BY <2>7, <3>1, <1>1, <1>8, <1>12
    <3> QED
      BY <3>1, <3>3, <3>4, <1>12
  <2>8. i <= Queued \/ i > Queued
    BY <1>8, <1>9
  <2> QED
    BY <2>6, <2>7, <2>8
<1>15. Waiting' = SubSeq(Waiting \o Piece, 1, Queued')
  <2> DEFINE w == Waiting \o Piece
             k == SubSeq(w, 1, Queued')
  <2>1. w \in Seq(Byte) /\ Len(w) = Queued + p
    <3>1. Waiting \in Seq(Byte) /\ Piece \in Seq(Byte)
      BY Zenon, <1>8, <1>12
    <3>2. w \in Seq(Byte) /\ Len(w) = Len(Waiting) + Len(Piece)
      BY <3>1
    <3> QED
      BY Zenon, <1>8, <1>12, <3>2
  <2>2. \A i \in 1..Queued' : Waiting'[i] = w[i]
    BY <1>14
  <2> HIDE DEF w
  <2>3. k \in Seq(Byte) /\ Len(k) = Queued' /\ \A i \in 1..Queued' : k[i] = w[i]
    <3>1. Queued' \in 0..Len(w)
      BY <1>11, <2>1
    <3> QED
      BY <3>1, <2>1, FirstOf
  <2> HIDE DEF k
  <2>4. Waiting' = k
    BY <1>9, <2>2, <2>3
  <2> QED
    BY <2>4 DEF k, w
<1> QED
  BY <1>11, <1>12, <1>15

(* One send(): the oldest bytes go out, the others wait on.                *)
LEMMA FlushedStep ==
    ASSUME RingInv, FlushClient
    PROVE  \E n \in 1..Len(Waiting) :
              /\ sent' = sent \o SubSeq(Waiting, 1, n)
              /\ Waiting' = SubSeq(Waiting, n + 1, Len(Waiting))
<1>1. /\ SendqMax \in Nat /\ SendqMax > 0 /\ Chunk \in Nat \ {0}
  BY Sizes
<1>2. TypeOK /\ TypeOK'
  BY NextRingInv DEF RingInv, Next
<1>3. PICK n \in 1..ToWrite :
        /\ NormalizeSendq(sendqStart + n, sendqEnd)
        /\ sent' = sent \o [i \in 1..n |-> sendq[sendqStart + i - 1]]
  BY DEF FlushClient
<1>4. /\ n \in Nat /\ n >= 1
      /\ sendqStart + n \in 0..SendqMax
      /\ SendqLen(Wrap(sendqStart + n), sendqEnd)
            = SendqLen(sendqStart, sendqEnd) - n
  BY FlushLen
<1>5. /\ Queued \in Nat /\ Queued < SendqMax
      /\ Waiting \in Seq(Byte) /\ Len(Waiting) = Queued
  BY <1>2, WaitingIsSeq
<1>6. /\ Queued' \in Nat /\ Queued' < SendqMax
      /\ Waiting' \in Seq(Byte) /\ Len(Waiting') = Queued'
  <2>1. TypeOK' => (/\ Queued \in Nat /\ Queued < SendqMax
                    /\ Waiting \in Seq(Byte) /\ Len(Waiting) = Queued)'
    BY WaitingIsSeq, PTL
  <2> QED
    BY <1>2, <2>1
<1>7. Wrap(sendqEnd) = sendqEnd /\ sendqEnd \in 0..SendqMax
  BY <1>1, <1>2 DEF TypeOK, Position, Wrap
<1>8. ~MustDrop(sendqStart + n, sendqEnd)
  BY <1>1, <1>4, <1>5, <1>7 DEF MustDrop, RingInv, Slack, Queued
<1>9. sendqStart' = Wrap(sendqStart + n) /\ sendqEnd' = sendqEnd
  BY <1>1, <1>3, <1>4, <1>7, <1>8 DEF NormalizeSendq, NormalEnd
<1>10. Queued' = Queued - n /\ n \in 1..Queued
  <2>1. Queued' = Queued - n
    BY <1>4, <1>9 DEF Queued
  <2> QED
    BY <2>1, <1>4, <1>5, <1>6
<1>11. (\A i \in 1..Queued : Waiting[i] = sendq[(sendqStart + i - 1) % SendqMax])'
  BY WaitingByte, PTL
<1>12. ASSUME NEW i \in 1..n
       PROVE  sendq[sendqStart + i - 1] = Waiting[i]
  <2>1. (sendqStart + i - 1) % SendqMax = sendqStart + i - 1
    <3>1. sendqStart \in Position /\ i \in 1..SendqMax /\ sendqStart + i - 1 < SendqMax
      BY <1>1, <1>2, <1>4, <1>5, <1>10 DEF TypeOK, Position
    <3> QED
      BY <3>1, CellOf
  <2>2. Waiting[i] = sendq[(sendqStart + i - 1) % SendqMax]
    BY <1>4, <1>5, <1>10, WaitingByte
  <2> QED
    BY <2>1, <2>2
<1>13. [i \in 1..n |-> sendq[sendqStart + i - 1]] = SubSeq(Waiting, 1, n)
  <2>1. SubSeq(Waiting, 1, n) = [i \in 1..n |-> Waiting[i]]
    BY <1>4, <1>5, <1>10
  <2> QED
    BY <2>1, <1>12
<1>14. ASSUME NEW i \in 1..Queued'
       PROVE  Waiting'[i] = Waiting[n + i]
  <2>1. n + i \in 1..Queued
    BY <1>4, <1>5, <1>6, <1>10
  <2>2. (Wrap(sendqStart + n) + i - 1) % SendqMax = (sendqStart + (n + i) - 1) % SendqMax
    <3>1. Wrap(sendqStart + n) \in Position
      BY <1>1, <1>4 DEF Wrap, Position
    <3>2. /\ i \in 1..SendqMax /\ n + i \in 1..SendqMax
      BY <1>1, <1>4, <1>5, <1>6, <1>10, <2>1
    <3>3. (Wrap(sendqStart + n) + i - 1) % SendqMax =
             IF Wrap(sendqStart + n) + i - 1 < SendqMax THEN Wrap(sendqStart + n) + i - 1
             ELSE Wrap(sendqStart + n) + i - 1 - SendqMax
      BY <3>1, <3>2, CellOf
    <3>4. (sendqStart + (n + i) - 1) % SendqMax =
             IF sendqStart + (n + i) - 1 < SendqMax THEN sendqStart + (n + i) - 1
             ELSE sendqStart + (n + i) - 1 - SendqMax
      BY <1>2, <3>2, CellOf DEF TypeOK
    <3> QED
      BY <1>1, <1>2, <1>4, <3>2, <3>3, <3>4 DEF Wrap, TypeOK, Position
  <2>3. Waiting'[i] = sendq[(Wrap(sendqStart + n) + i - 1) % SendqMax]
    BY <1>9, <1>11 DEF FlushClient
  <2>4. Waiting[n + i] = sendq[(sendqStart + (n + i) - 1) % SendqMax]
    BY <2>1, WaitingByte
  <2> QED
    BY <2>2, <2>3, <2>4
<1>15. Waiting' = SubSeq(Waiting, n + 1, Len(Waiting))
  <2>1. /\ SubSeq(Waiting, n + 1, Len(Waiting)) \in Seq(Byte)
        /\ Len(SubSeq(Waiting, n + 1, Len(Waiting))) = Queued'
        /\ \A i \in 1..Queued' : SubSeq(Waiting, n + 1, Len(Waiting))[i] = Waiting[n + i]
    BY <1>4, <1>5, <1>6, <1>10
  <2> QED
    BY <1>6, <1>14, <2>1
<1> QED
  BY <1>3, <1>5, <1>10, <1>13, <1>15

-----------------------------------------------------------------------------
(* The refinement, step by step.                                           *)
LEMMA NothingWaits ==
    sendqStart = 0 /\ sendqEnd = 0 => Waiting = <<>>
<1>1. ASSUME sendqStart = 0 /\ sendqEnd = 0 PROVE Queued = 0
  BY <1>1 DEF Queued, SendqLen
<1>2. ASSUME Queued = 0 PROVE Waiting = <<>>
  BY <1>2 DEF Waiting
<1> QED
  BY <1>1, <1>2

LEMMA InitMaps == Init => Abstract!Init
  BY NothingWaits DEF Init, Abstract!Init

LEMMA RingKept ==
    ASSUME UNCHANGED ring
    PROVE  Waiting' = Waiting
  BY DEF ring, Waiting, Queued, SendqLen

LEMMA StepMaps == RingInv /\ [Next]_vars => [Abstract!Next]_(Abstract!vars)
<1> SUFFICES ASSUME RingInv, [Next]_vars
             PROVE  Abstract!Next \/ UNCHANGED Abstract!vars
  OBVIOUS
<1>1. CASE AcceptClient
  <2>1. sendqStart' = 0 /\ sendqEnd' = 0
    BY <1>1 DEF AcceptClient
  <2>2. (sendqStart = 0 /\ sendqEnd = 0 => Waiting = <<>>)'
    BY NothingWaits, PTL
  <2>3. Abstract!Connect
    BY <1>1, <2>1, <2>2 DEF AcceptClient, Abstract!Connect
  <2> QED
    BY <2>3 DEF Abstract!Next
<1>2. CASE CloseClient
  <2>1. Waiting' = Waiting
    BY <1>2, RingKept DEF CloseClient
  <2>2. Abstract!Disconnect
    BY <1>2, <2>1 DEF CloseClient, Abstract!Disconnect
  <2> QED
    BY <2>2 DEF Abstract!Next
<1>3. CASE SkipChunk
  <2>1. Waiting' = Waiting
    BY <1>3, RingKept DEF SkipChunk
  <2>2. Abstract!Skip
    BY <1>3, <2>1 DEF SkipChunk, Abstract!Skip
  <2> QED
    BY <2>2 DEF Abstract!Next
<1>4. CASE AppendChunk
  <2>1. /\ Queued' \in 0..(Queued + PieceSize(format))
        /\ \E d \in Nat : Queued + PieceSize(format) - Queued' = d * Chunk
        /\ Waiting' = SubSeq(Waiting \o Piece, 1, Queued')
    BY <1>4, AppendStep
  <2>2. Len(Waiting) = Queued
    BY WaitingIsSeq DEF RingInv
  <2>3. (Queued + PieceSize(format) - Queued') % Chunk = 0
    <3>1. ASSUME NEW d \in Nat PROVE (d * Chunk) % Chunk = 0
      BY Sizes
    <3> QED
      BY <2>1, <3>1
  <2>4. Abstract!Produce
    BY <1>4, <2>1, <2>2, <2>3 DEF AppendChunk, Abstract!Produce, Piece
  <2> QED
    BY <2>4 DEF Abstract!Next
<1>5. CASE FlushClient
  <2>1. Abstract!Deliver
    BY <1>5, FlushedStep DEF FlushClient, Abstract!Deliver
  <2> QED
    BY <2>1 DEF Abstract!Next
<1>6. CASE UNCHANGED vars
  <2>1. Waiting' = Waiting
    BY <1>6, RingKept DEF vars
  <2> QED
    BY <1>6, <2>1 DEF vars, Abstract!vars
<1> QED
  BY <1>1, <1>2, <1>3, <1>4, <1>5, <1>6 DEF Next

(* The ring implements the lossy queue, whatever its size, the format and  *)
(* the sizes of the partial sends: the client gets the stream in order, no *)
(* byte twice, none of the client before it, none that was overwritten     *)
(* while it waited, and only whole chunks of the newest are ever missing.  *)
THEOREM RingIsALossyQueue == Spec => ImplementsLossyQueue
<1>1. Spec => []RingInv
  BY RingInvariant
<1> QED
  BY <1>1, InitMaps, StepMaps, PTL DEF Spec, ImplementsLossyQueue, Abstract!Spec

-----------------------------------------------------------------------------
(* The framing.  What was sent is aligned because what waits is, and what  *)
(* waits stays so because the end of the queue keeps step with the stream: *)
(* a piece is whole samples, and so is what is dropped.                    *)
InFrame(byte, place) ==
    (byte - since) % SampleBytes(format) = place % SampleBytes(format)

WaitingInFrame ==
    connected => \A i \in 1..Queued : InFrame(Waiting[i], Len(sent) + i - 1)

EndInFrame == connected => InFrame(stream, Len(sent) + Queued)

AlignInv == SamplesStayAligned /\ WaitingInFrame /\ EndInFrame

LEMMA WholeSamples ==
    ASSUME NEW f \in Formats
    PROVE  /\ SampleBytes(f) \in {2, 4}
           /\ \E m \in Nat : PieceSize(f) = SampleBytes(f) * m
           /\ \E m \in Nat : Chunk = SampleBytes(f) * m
<1>1. PICK h \in Nat : HalfChunk = 2 * h
  <2>1. HalfChunk \in Nat /\ HalfChunk % 2 = 0
    BY SendQueueAssumption
  <2>2. HalfChunk = 2 * (HalfChunk \div 2) /\ HalfChunk \div 2 \in Nat
    BY <2>1
  <2> QED
    BY <2>2
<1>2. Chunk = 4 * h /\ Chunk = 2 * HalfChunk /\ HalfChunk \in Nat
  BY <1>1 DEF Chunk
<1>3. CASE f = "CU8"
  BY <1>1, <1>2, <1>3 DEF PieceSize, SampleBytes
<1>4. CASE f = "CS16"
  BY <1>1, <1>2, <1>4 DEF PieceSize, SampleBytes
<1> QED
  BY <1>3, <1>4 DEF Formats

(* Whole samples more or less leave the place in a sample as it is.        *)
LEMMA SameFrame ==
    ASSUME NEW b \in {2, 4}, NEW x \in Int, NEW y \in Int,
           NEW m \in Int, NEW k \in Int, x % b = y % b
    PROVE  (x + b * m) % b = (y + b * k) % b
<1>1. CASE b = 2
  BY <1>1
<1>2. CASE b = 4
  BY <1>2
<1> QED
  BY <1>1, <1>2

LEMMA SameStep ==
    ASSUME NEW b \in {2, 4}, NEW x \in Int, NEW y \in Int, NEW i \in Int,
           x % b = y % b
    PROVE  (x + i) % b = (y + i) % b
<1>1. CASE b = 2
  BY <1>1
<1>2. CASE b = 4
  BY <1>2
<1> QED
  BY <1>1, <1>2

LEMMA InitAlignInv == Init => AlignInv
<1> SUFFICES ASSUME Init PROVE AlignInv
  OBVIOUS
<1>1. sent = <<>> /\ ~connected
  BY DEF Init
<1> QED
  BY <1>1 DEF AlignInv, SamplesStayAligned, WaitingInFrame, EndInFrame

LEMMA NextAlignInv == RingInv /\ AlignInv /\ [Next]_vars => AlignInv'
<1> SUFFICES ASSUME RingInv, AlignInv, [Next]_vars
             PROVE  AlignInv'
  OBVIOUS
<1> DEFINE b == SampleBytes(format)
<1>1. /\ b \in {2, 4} /\ stream \in Nat /\ since \in Nat
      /\ sent \in Seq(Byte) /\ Len(sent) \in Nat
      /\ Queued \in Nat /\ Waiting \in Seq(Byte) /\ Len(Waiting) = Queued
  BY WholeSamples, WaitingIsSeq DEF RingInv, TypeOK, Byte
<1>2. CASE AcceptClient
  <2>1. /\ sendqStart' = 0 /\ sendqEnd' = 0
        /\ sent' = <<>> /\ since' = stream /\ stream' = stream /\ format' = format
    BY <1>2 DEF AcceptClient
  <2>2. Queued' = 0
    BY <2>1 DEF Queued, SendqLen
  <2>3. SamplesStayAligned' /\ WaitingInFrame'
    BY <2>1, <2>2 DEF SamplesStayAligned, WaitingInFrame
  <2>4. Len(sent') = 0 /\ stream' - since' = 0
    BY <2>1, <1>1
  <2>5. EndInFrame'
    BY <2>2, <2>4 DEF EndInFrame, InFrame
  <2> QED
    BY <2>3, <2>5 DEF AlignInv
<1>3. CASE CloseClient \/ SkipChunk
  BY <1>3 DEF AlignInv, SamplesStayAligned, WaitingInFrame, EndInFrame,
              CloseClient, SkipChunk
<1>4. CASE AppendChunk
  <2>1. /\ connected /\ connected' = connected /\ format' = format
        /\ sent' = sent /\ since' = since
        /\ stream' = stream + PieceSize(format)
    BY <1>4 DEF AppendChunk
  <2>2. PICK d \in Nat :
           /\ Piece \in Seq(Byte) /\ Len(Piece) = PieceSize(format)
           /\ Queued' \in 0..(Queued + PieceSize(format))
           /\ Queued + PieceSize(format) - Queued' = d * Chunk
           /\ Waiting' = SubSeq(Waiting \o Piece, 1, Queued')
    BY <1>4, AppendStep
  <2>3. PICK m \in Nat : PieceSize(format) = b * m
    BY WholeSamples DEF RingInv, TypeOK
  <2>4. PICK k \in Nat : d * Chunk = b * k
    <3>1. PICK c \in Nat : Chunk = b * c
      BY WholeSamples DEF RingInv, TypeOK
    <3>2. d * Chunk = b * (d * c) /\ d * c \in Nat
      BY <3>1, <1>1
    <3> QED
      BY <3>2
  <2>5. PICK p \in Nat : p = PieceSize(format)
    BY Pieces DEF RingInv, TypeOK
  <2>6. PICK q \in Nat : q = Queued'
    BY <2>2, <2>5, <1>1
  <2>7. PICK l \in Nat : l = Len(sent)
    BY <1>1
  <2>8. (stream - since) % b = (l + Queued) % b
    BY <2>1, <2>7 DEF AlignInv, EndInFrame, InFrame
  <2>9. EndInFrame'
    <3>1. ((stream - since) + b * m) % b = ((l + Queued) + b * (m - k)) % b
      <4>1. /\ stream - since \in Int /\ l + Queued \in Int
            /\ m \in Int /\ m - k \in Int
        BY <1>1
      <4>2. b \in {2, 4}
        BY Zenon, <1>1
      <4>3. PICK x \in Int, y \in Int, h \in Int, j \in Int, n \in {2, 4} :
                x = stream - since /\ y = l + Queued /\ h = m /\ j = m - k /\ n = b
        BY Zenon, <4>1, <4>2
      <4>4. x % n = y % n
        BY Zenon, <2>8, <4>3
      <4>5. (x + n * h) % n = (y + n * j) % n
        BY <4>4, SameFrame
      <4> QED
        BY Zenon, <4>3, <4>5
    <3>2. q = Queued + p - b * k /\ p = b * m
      BY <2>2, <2>3, <2>4, <2>5, <2>6, <1>1
    <3>3. b * (m - k) = b * m - b * k
      BY <1>1
    <3>4. /\ (stream - since) + b * m = (stream + p) - since
          /\ (l + Queued) + b * (m - k) = l + q
      <4>1. PICK u \in Int : u = b * m
        BY <1>1
      <4>2. PICK v \in Int : v = b * k
        BY <1>1
      <4>3. p = u /\ q = Queued + p - v /\ b * (m - k) = u - v
        BY <3>2, <3>3, <4>1, <4>2
      <4>4. /\ (stream - since) + u = (stream + p) - since
            /\ (l + Queued) + (u - v) = l + q
        BY <4>3, <1>1
      <4> QED
        BY <4>1, <4>3, <4>4
    <3>5. ((stream + p) - since) % b = (l + q) % b
      BY <3>1, <3>4
    <3> QED
      BY <3>5, <2>1, <2>5, <2>6, <2>7 DEF EndInFrame, InFrame
  <2>10. ASSUME NEW i \in 1..q
         PROVE  (Waiting'[i] - since) % b = (l + i - 1) % b
    <3>1. Waiting'[i] = (Waiting \o Piece)[i]
      <4>1. /\ Waiting \o Piece \in Seq(Byte)
            /\ q \in 0..Len(Waiting \o Piece)
        BY <1>1, <2>2, <2>5, <2>6
      <4> QED
        BY <4>1, <2>2, <2>6, FirstOf
    <3>2. CASE i <= Queued
      <4>1. (Waiting \o Piece)[i] = Waiting[i]
        BY <3>2, <1>1, <2>2
      <4> QED
        BY <3>1, <3>2, <4>1, <2>1, <2>7, <1>1 DEF AlignInv, WaitingInFrame, InFrame
    <3>3. CASE i > Queued
      <4>1. i - Queued \in 1..p
        BY <3>3, <1>1, <2>2, <2>5, <2>6
      <4>2. (Waiting \o Piece)[i] = Piece[i - Queued]
        BY <4>1, <3>3, <1>1, <2>2, <2>5
      <4>3. Piece[i - Queued] = stream + (i - Queued) - 1
        BY <4>1, <2>5 DEF Piece, Abstract!Piece
      <4>4. ((stream - since) + (i - Queued - 1)) % b
               = ((l + Queued) + (i - Queued - 1)) % b
        <5>1. /\ stream - since \in Int /\ l + Queued \in Int
              /\ i - Queued - 1 \in Int
          BY <1>1
        <5>2. b \in {2, 4}
          BY Zenon, <1>1
        <5> QED
          BY Zenon, <2>8, <5>1, <5>2, SameStep
      <4>5. /\ (stream - since) + (i - Queued - 1) = (stream + (i - Queued) - 1) - since
            /\ (l + Queued) + (i - Queued - 1) = l + i - 1
        BY <1>1
      <4> QED
        BY <3>1, <4>2, <4>3, <4>4, <4>5
    <3> QED
      BY <3>2, <3>3, <1>1
  <2>11. WaitingInFrame'
    BY <2>1, <2>6, <2>7, <2>10 DEF WaitingInFrame, InFrame
  <2>12. SamplesStayAligned'
    BY <2>1 DEF AlignInv, SamplesStayAligned
  <2> QED
    BY <2>9, <2>11, <2>12 DEF AlignInv
<1>5. CASE FlushClient
  <2>1. /\ connected /\ connected' = connected /\ format' = format
        /\ since' = since /\ stream' = stream
    BY <1>5 DEF FlushClient
  <2>2. PICK n \in 1..Len(Waiting) :
              /\ sent' = sent \o SubSeq(Waiting, 1, n)
              /\ Waiting' = SubSeq(Waiting, n + 1, Len(Waiting))
    BY <1>5, FlushedStep
  <2>3. /\ Len(sent') = Len(sent) + n
        /\ \A i \in 1..Len(sent) : sent'[i] = sent[i]
        /\ \A i \in 1..n : sent'[Len(sent) + i] = Waiting[i]
    <3>1. /\ SubSeq(Waiting, 1, n) \in Seq(Byte)
          /\ Len(SubSeq(Waiting, 1, n)) = n
          /\ \A i \in 1..n : SubSeq(Waiting, 1, n)[i] = Waiting[i]
      BY <1>1, FirstOf
    <3> QED
      BY <3>1, <1>1, <2>2
  <2>4. Queued' = Queued - n
    <3>1. TypeOK' /\ (TypeOK' => Len(Waiting') = Queued')
      <4>1. (TypeOK => /\ Queued \in Nat /\ Queued < SendqMax
                       /\ Waiting \in Seq(Byte) /\ Len(Waiting) = Queued)'
        BY WaitingIsSeq, PTL
      <4> QED
        BY <4>1, NextRingInv DEF RingInv
    <3>2. Len(Waiting') = Queued - n
      BY <1>1, <2>2
    <3> QED
      BY <3>1, <3>2
  <2>5. \A i \in 1..(Queued - n) : Waiting'[i] = Waiting[n + i]
    BY <1>1, <2>2
  <2>6. PICK l \in Nat : l = Len(sent)
    BY <1>1
  <2>7. \A i \in 1..Queued : (Waiting[i] - since) % b = (l + i - 1) % b
    BY <2>1, <2>6 DEF AlignInv, WaitingInFrame, InFrame
  <2>8. SamplesStayAligned'
    <3>1. ASSUME NEW i \in 1..(l + n)
          PROVE  (sent'[i] - since) % b = (i - 1) % b
      <4>1. CASE i <= l
        BY <4>1, <2>3, <2>6 DEF AlignInv, SamplesStayAligned
      <4>2. CASE i > l
        <5>1. i - l \in 1..n /\ i - l \in 1..Queued
          BY <4>2, <1>1, <2>2
        <5>2. sent'[l + (i - l)] = Waiting[i - l]
          BY <5>1, <2>3, <2>6
        <5>3. l + (i - l) = i /\ l + (i - l) - 1 = i - 1
          OBVIOUS
        <5> QED
          BY <5>1, <5>2, <5>3, <2>7
      <4> QED
        BY <4>1, <4>2
    <3> QED
      BY <3>1, <2>1, <2>3, <2>6 DEF SamplesStayAligned
  <2>9. WaitingInFrame'
    <3>1. ASSUME NEW i \in 1..(Queued - n)
          PROVE  (Waiting'[i] - since) % b = (l + n + i - 1) % b
      <4>1. n + i \in 1..Queued /\ l + (n + i) - 1 = l + n + i - 1
        BY <1>1, <2>2
      <4> QED
        BY <4>1, <2>5, <2>7
    <3> QED
      BY <3>1, <2>1, <2>3, <2>4, <2>6 DEF WaitingInFrame, InFrame
  <2>10. EndInFrame'
    <3>1. Len(sent') + Queued' = Len(sent) + Queued
      BY <1>1, <2>2, <2>3, <2>4
    <3> QED
      BY <3>1, <2>1 DEF AlignInv, EndInFrame, InFrame
  <2> QED
    BY <2>8, <2>9, <2>10 DEF AlignInv
<1>6. CASE UNCHANGED vars
  <2>1. Waiting' = Waiting /\ Queued' = Queued
    BY <1>6, RingKept DEF vars, ring, Queued, SendqLen
  <2> QED
    BY <1>6, <2>1 DEF vars, AlignInv, SamplesStayAligned, WaitingInFrame,
                      EndInFrame, InFrame
<1> QED
  BY <1>2, <1>3, <1>4, <1>5, <1>6 DEF Next

(* Dropping never shifts the I/Q framing, whatever the sizes: the k-th     *)
(* byte a client gets is the k-th byte of some sample, although chunks     *)
(* were dropped before it and every send() may take an odd part.           *)
THEOREM FramingIsKept == Spec => []SamplesStayAligned
<1>1. Spec => [](RingInv /\ AlignInv)
  BY RingInvariant, InitAlignInv, NextAlignInv, PTL DEF Spec
<1>2. AlignInv => SamplesStayAligned
  BY DEF AlignInv
<1> QED
  BY <1>1, <1>2, PTL

=============================================================================
