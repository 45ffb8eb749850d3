----------------------------- MODULE RxFifoProofs -----------------------------
(***************************************************************************)
(* Theorems about RxFifo, for every depth of the FIFO, size of a chunk and *)
(* length of the stream: what the loops copy is always there, and nobody   *)
(* gets samples of before its time.                                        *)
(***************************************************************************)
EXTENDS RxFifo, TLAPS

(* The buffer is filled only while the loop copies, and sent when full.    *)
BufferFits ==
    /\ pc = "copy" => Len(buffer) < Chunk
    /\ pc = "send" => Len(buffer) = Chunk
    /\ pc \notin {"copy", "send"} => buffer = <<>>

(* The draining loop has promised itself no more than the FIFO and the     *)
(* buffer hold: while it drains, nobody empties the FIFO.                  *)
PromiseHolds ==
    server = "drain" =>
      /\ pc \in {"check", "level", "copy", "send", "release"}
      /\ pc = "release" => promised = 0
      /\ pc = "level" => promised <= Len(fifo)
      /\ pc = "copy" => promised >= Chunk /\ promised <= Len(fifo) + Len(buffer)
      /\ pc = "send" => promised >= Chunk /\ promised - Chunk <= Len(fifo)

FifoInv == TypeOK /\ BufferFits /\ PromiseHolds /\ ChunkIsThere

(* Every sample of s was received when the client was there.               *)
Fresh(s) == \A i \in DOMAIN s : s[i] >= since

(* From the moment a client is there, the FIFO has only what came after    *)
(* it; between the clients of the polling server it is held in reset.      *)
FreshInv ==
    server # "drain" =>
      /\ since <= stream
      /\ Fresh(buffer) /\ Fresh(sent)
      /\ pc # "accept" => Fresh(fifo)
      /\ server = "poll" /\ pc = "accept" => fifo = <<>> /\ held

(* The samples that the loop has copied and will copy next, oldest first.  *)
Ahead == buffer \o fifo

(* The samples between two of them, or after the last, are excused; those  *)
(* after the last also while the FIFO stays full and nobody has looked at  *)
(* it: then the next look empties it.                                      *)
Gapless(s) ==
    \A i \in 1..(Len(s) - 1) : (s[i] + 1)..(s[i + 1] - 1) \subseteq excused

Unnoticed == Len(fifo) = Depth /\ ~Checked

NothingMissingAfter(s) ==
    s # <<>> => (s[Len(s)] + 1)..(stream - 1) \subseteq excused \/ Unnoticed

GapInv ==
    server # "record" =>
      /\ pc \in {"start", "release"} => held
      /\ held => Ahead = <<>>
      /\ Gapless(Ahead)
      /\ NothingMissingAfter(Ahead)

-----------------------------------------------------------------------------
LEMMA InitFifoInv == Init => FifoInv
  BY RxFifoAssumption
  DEF Init, FifoInv, TypeOK, BufferFits, PromiseHolds, ChunkIsThere

LEMMA NextFifoInv == FifoInv /\ [Next]_vars => FifoInv'
<1> SUFFICES ASSUME FifoInv, [Next]_vars PROVE FifoInv'
  OBVIOUS
<1> USE RxFifoAssumption DEF FifoInv, TypeOK, BufferFits, PromiseHolds, ChunkIsThere
<1>1. CASE Produce
  <2>1. stream \in Sample /\ stream' \in 0..MaxStream
    BY <1>1 DEF Produce, Sample
  <2>2. /\ fifo' \in Seq(Sample) /\ Len(fifo') <= Depth
        /\ Len(fifo') >= Len(fifo)
    BY <1>1, <2>1 DEF Produce, Takes
  <2>3. excused' \subseteq Sample
    BY <1>1, <2>1 DEF Produce
  <2> QED
    BY <1>1, <2>1, <2>2, <2>3 DEF Produce, loop
<1>2. CASE PollAccept
  BY <1>2 DEF PollAccept, ReleaseFifo, NewClient
<1>3. CASE PollCommand
  BY <1>3 DEF PollCommand
<1>4. CASE PollLeave
  BY <1>4 DEF PollLeave, HoldFifo
<1>5. CASE WaitAccept
  BY <1>5 DEF WaitAccept, HoldFifo, NewClient
<1>6. CASE WaitLeave
  BY <1>6 DEF WaitLeave
<1>7. CASE RecordStart
  BY <1>7 DEF RecordStart, HoldFifo, NewClient
<1>8. CASE RecordEnd
  BY <1>8 DEF RecordEnd
<1>9. CASE RecordKilled
  BY <1>9 DEF RecordKilled
<1>10. CASE Check
  <2>1. CASE MustReset(Len(fifo))
    BY <1>10, <2>1 DEF Check, HoldFifo, Promise
  <2>2. CASE ~MustReset(Len(fifo))
    <3>1. promised' \in 0..Depth /\ promised' <= Len(fifo)
      BY <1>10, <2>2 DEF Check, Promise, MustReset
    <3> QED
      BY <1>10, <2>2, <3>1 DEF Check
  <2> QED
    BY <2>1, <2>2
<1>11. CASE Release
  <2>1. server = "drain" => promised' <= Len(fifo')
    BY <1>11 DEF Release, ReleaseFifo
  <2>2. pc' \in {"check", "level"} /\ (server = "drain" => pc' = "level")
    BY <1>11 DEF Release
  <2> QED
    BY <1>11, <2>1, <2>2 DEF Release, ReleaseFifo
<1>12. CASE Level
  BY <1>12 DEF Level, HasChunk
<1>13. CASE CopySample
  BY <1>13 DEF CopySample
<1>14. CASE Send
  BY <1>14 DEF Send
<1>15. CASE UNCHANGED vars
  BY <1>15 DEF vars, loop
<1> QED
  BY <1>1, <1>2, <1>3, <1>4, <1>5, <1>6, <1>7, <1>8, <1>9, <1>10, <1>11,
     <1>12, <1>13, <1>14, <1>15 DEF Next

LEMMA InitFreshInv == Init => FreshInv
<1> SUFFICES ASSUME Init, server # "drain" PROVE FreshInv
  BY DEF FreshInv
<1>1. since <= stream /\ Fresh(buffer) /\ Fresh(sent) /\ Fresh(fifo)
  BY DEF Init, Fresh
<1>2. fifo = <<>> /\ held
  BY DEF Init
<1> QED
  BY <1>1, <1>2 DEF FreshInv

LEMMA NextFreshInv == FifoInv /\ FreshInv /\ [Next]_vars => FreshInv'
<1> SUFFICES ASSUME FifoInv, FreshInv, [Next]_vars, server # "drain"
             PROVE  FreshInv'
  BY DEF FreshInv, Next, vars, loop, Produce, PollAccept, PollCommand,
         PollLeave, WaitAccept, WaitLeave, RecordStart, RecordEnd,
         RecordKilled, Check, Release, Level, CopySample, Send
<1> USE DEF FifoInv, TypeOK, BufferFits, FreshInv
<1>1. CASE Produce
  <2>1. pc # "accept" => Fresh(fifo)'
    BY <1>1 DEF Produce, loop, Fresh, Takes
  <2>2. server = "poll" /\ pc = "accept" => fifo' = <<>>
    BY <1>1 DEF Produce, Takes
  <2> QED
    BY <1>1, <2>1, <2>2 DEF Produce, loop, Fresh
<1>2. CASE PollAccept
  BY <1>2 DEF PollAccept, ReleaseFifo, NewClient, Fresh
<1>3. CASE PollCommand
  BY <1>3 DEF PollCommand, Fresh
<1>4. CASE PollLeave
  BY <1>4 DEF PollLeave, HoldFifo, Fresh
<1>5. CASE WaitAccept
  BY <1>5 DEF WaitAccept, HoldFifo, NewClient, Fresh
<1>6. CASE WaitLeave
  BY <1>6 DEF WaitLeave, Fresh
<1>7. CASE RecordStart
  BY <1>7 DEF RecordStart, HoldFifo, NewClient, Fresh
<1>8. CASE RecordEnd
  BY <1>8 DEF RecordEnd, Fresh
<1>9. CASE RecordKilled
  BY <1>9 DEF RecordKilled, Fresh
<1>10. CASE Check
  BY <1>10 DEF Check, HoldFifo, Fresh
<1>11. CASE Release
  BY <1>11 DEF Release, ReleaseFifo, Fresh
<1>12. CASE Level
  BY <1>12 DEF Level, Fresh
<1>13. CASE CopySample
  <2>1. Fresh(buffer)' /\ Fresh(fifo)'
    BY <1>13 DEF CopySample, Fresh
  <2> QED
    BY <1>13, <2>1 DEF CopySample, Fresh
<1>14. CASE Send
  <2>1. Fresh(sent)'
    BY <1>14 DEF Send, Fresh
  <2> QED
    BY <1>14, <2>1 DEF Send, Fresh
<1>15. CASE UNCHANGED vars
  BY <1>15 DEF vars, loop, Fresh
<1> QED
  BY <1>1, <1>2, <1>3, <1>4, <1>5, <1>6, <1>7, <1>8, <1>9, <1>10, <1>11,
     <1>12, <1>13, <1>14, <1>15 DEF Next

(* A sample that is appended to the FIFO is appended to what lies ahead,   *)
(* and one that is copied stays where it is.                               *)
LEMMA AheadIsSeq ==
    ASSUME TypeOK
    PROVE  Ahead \in Seq(Sample) /\ Len(Ahead) = Len(buffer) + Len(fifo)
  BY DEF TypeOK, Ahead

(* Without new samples and with the excuses there are, only the place in   *)
(* the loop decides about what is missing after the last sample.           *)
LEMMA GapStays ==
    ASSUME FifoInv, GapInv, server # "record", server' = server,
           fifo' = fifo, buffer' = buffer, stream' = stream,
           excused' = excused, held' => held,
           pc' \notin {"start", "release"},
           Unnoticed /\ Ahead # <<>> => Unnoticed'
    PROVE  GapInv'
  BY DEF GapInv, Ahead, Gapless, NothingMissingAfter

(* The FIFO is emptied while nothing is in the buffer.                     *)
LEMMA GapEmptied ==
    ASSUME fifo' = <<>>, buffer' = <<>>,
           pc' \in {"start", "release"} => held'
    PROVE  GapInv'
  BY DEF GapInv, Ahead, Gapless, NothingMissingAfter

(* The samples of the FIFO are the last of those ahead.                    *)
LEMMA GapOfFifo ==
    ASSUME FifoInv, GapInv, server # "record", Ahead' = fifo,
           UNCHANGED <<server, fifo, held, stream, excused>>,
           pc' \notin {"start", "release"},
           Unnoticed => Unnoticed'
    PROVE  GapInv'
<1> DEFINE b == Len(buffer)
<1>1. /\ Ahead \in Seq(Sample) /\ Len(Ahead) = b + Len(fifo)
      /\ fifo \in Seq(Sample) /\ b \in Nat /\ Len(fifo) \in Nat
  BY AheadIsSeq DEF FifoInv, TypeOK
<1>2. \A i \in 1..Len(fifo) : fifo[i] = Ahead[b + i] /\ b + i \in 1..Len(Ahead)
  BY <1>1 DEF FifoInv, TypeOK, Ahead
<1>3. held' => Ahead' = <<>>
  <2>1. held => Len(Ahead) = 0
    BY DEF GapInv
  <2>2. Len(fifo) = 0 => fifo = <<>>
    BY <1>1
  <2> QED
    BY <2>1, <2>2, <1>1
<1>4. Gapless(Ahead)'
  <2> SUFFICES ASSUME NEW i \in 1..(Len(fifo) - 1)
               PROVE  (fifo[i] + 1)..(fifo[i + 1] - 1) \subseteq excused
    BY DEF Gapless
  <2>1. fifo[i] = Ahead[b + i] /\ fifo[i + 1] = Ahead[b + i + 1]
    BY <1>1, <1>2
  <2>2. b + i \in 1..(Len(Ahead) - 1)
    BY <1>1
  <2> QED
    BY <2>1, <2>2 DEF GapInv, Gapless
<1>5. NothingMissingAfter(Ahead)'
  <2>1. fifo # <<>> => Ahead # <<>> /\ fifo[Len(fifo)] = Ahead[Len(Ahead)]
    BY <1>1, <1>2
  <2> QED
    BY <2>1 DEF GapInv, NothingMissingAfter
<1> QED
  BY <1>3, <1>4, <1>5 DEF GapInv

LEMMA InitGapInv == Init => GapInv
  BY DEF Init, GapInv, Ahead, Gapless, NothingMissingAfter

LEMMA NextGapInv == FifoInv /\ FreshInv /\ GapInv /\ [Next]_vars => GapInv'
<1> SUFFICES ASSUME FifoInv, FreshInv, GapInv, [Next]_vars, server # "record"
             PROVE  GapInv'
  BY DEF GapInv, Next, vars, loop, Produce, PollAccept, PollCommand,
         PollLeave, WaitAccept, WaitLeave, RecordStart, RecordEnd,
         RecordKilled, Check, Release, Level, CopySample, Send
<1>1. Ahead \in Seq(Sample) /\ Len(Ahead) = Len(buffer) + Len(fifo)
  BY AheadIsSeq DEF FifoInv
<1>2. /\ fifo \in Seq(Sample) /\ buffer \in Seq(Sample)
      /\ stream \in Nat /\ excused \subseteq Sample
  BY DEF FifoInv, TypeOK
<1>3. CASE Produce
  <2>1. /\ server' = server /\ buffer' = buffer /\ held' = held
        /\ stream' = stream + 1 /\ pc' = pc
        /\ excused \subseteq excused'
    BY <1>3 DEF Produce, loop
  <2>2. CASE Takes(Len(fifo))
    <3>1. Ahead' = Append(Ahead, stream)
      BY <1>2, <1>3, <2>2, <2>1 DEF Produce, Ahead
    <3>2. ~Unnoticed /\ ~held /\ excused' = excused
      BY <1>3, <2>2 DEF Takes, Unnoticed, Produce
    <3>3. Ahead # <<>> => (Ahead[Len(Ahead)] + 1)..(stream - 1) \subseteq excused
      BY <3>2 DEF GapInv, NothingMissingAfter
    <3>4. Gapless(Ahead)'
      <4> SUFFICES ASSUME NEW i \in 1..(Len(Ahead') - 1)
                   PROVE  (Ahead'[i] + 1)..(Ahead'[i + 1] - 1) \subseteq excused'
        BY DEF Gapless
      <4>1. CASE i < Len(Ahead)
        <5>1. Ahead'[i] = Ahead[i] /\ Ahead'[i + 1] = Ahead[i + 1]
          BY <4>1, <1>1, <3>1
        <5>2. i \in 1..(Len(Ahead) - 1)
          BY <4>1, <1>1
        <5> QED
          BY <5>1, <5>2, <3>2 DEF GapInv, Gapless
      <4>2. CASE i >= Len(Ahead)
        <5>1. i = Len(Ahead) /\ Ahead # <<>>
          BY <4>2, <1>1, <3>1
        <5>2. Ahead'[i] = Ahead[Len(Ahead)] /\ Ahead'[i + 1] = stream
          BY <5>1, <1>1, <3>1
        <5> QED
          BY <5>1, <5>2, <3>2, <3>3
      <4> QED
        BY <4>1, <4>2, <1>1
    <3>5. NothingMissingAfter(Ahead)'
      <4>1. Ahead'[Len(Ahead')] = stream
        BY <3>1, <1>1
      <4>2. (Ahead'[Len(Ahead')] + 1)..(stream' - 1) = {}
        BY <4>1, <2>1, <1>2
      <4> QED
        BY <4>2 DEF NothingMissingAfter
    <3> QED
      BY <2>1, <3>2, <3>4, <3>5 DEF GapInv
  <2>3. CASE ~Takes(Len(fifo))
    <3>1. fifo' = fifo /\ Ahead' = Ahead /\ Unnoticed' = Unnoticed
      BY <1>3, <2>1, <2>3 DEF Produce, Ahead, Unnoticed, Checked
    <3>2. Gapless(Ahead)'
      BY <2>1, <3>1 DEF GapInv, Gapless
    <3>3. NothingMissingAfter(Ahead)'
      <4> SUFFICES ASSUME Ahead # <<>>, ~Unnoticed
                   PROVE  (Ahead[Len(Ahead)] + 1)..(stream' - 1) \subseteq excused'
        BY <3>1 DEF NothingMissingAfter
      <4>1. ~held /\ Len(fifo) = Depth
        BY <2>3, RxFifoAssumption DEF GapInv, FifoInv, TypeOK, Takes
      <4>2. Checked
        BY <4>1 DEF Unnoticed
      <4>3. excused' = excused \cup {stream}
        BY <1>3, <4>1, <4>2 DEF Produce
      <4>4. (Ahead[Len(Ahead)] + 1)..(stream - 1) \subseteq excused
        BY DEF GapInv, NothingMissingAfter
      <4> QED
        BY <4>3, <4>4, <2>1, <1>1, <1>2 DEF Sample
    <3> QED
      BY <2>1, <3>1, <3>2, <3>3 DEF GapInv
  <2> QED
    BY <2>2, <2>3
<1>4. CASE PollAccept
  <2>1. fifo' = <<>> /\ buffer' = <<>> /\ pc' = "command"
    BY <1>4 DEF PollAccept, ReleaseFifo, FreshInv, FifoInv, BufferFits
  <2> QED
    BY <2>1, GapEmptied
<1>5. CASE PollCommand
  BY <1>5, GapStays DEF PollCommand, Unnoticed, Checked
<1>6. CASE PollLeave
  BY <1>6, GapEmptied DEF PollLeave, HoldFifo
<1>7. CASE WaitAccept
  <2>1. fifo' = <<>> /\ buffer' = <<>> /\ held'
    BY <1>7 DEF WaitAccept, HoldFifo, FifoInv, BufferFits
  <2> QED
    BY <2>1, GapEmptied
<1>8. CASE WaitLeave
  <2>1. Ahead' = fifo /\ UNCHANGED <<server, fifo, held, stream, excused>>
    BY <1>2, <1>8 DEF WaitLeave, Ahead
  <2>2. (Unnoticed => Unnoticed') /\ pc' \notin {"start", "release"}
    BY <1>8 DEF WaitLeave, Unnoticed, Checked, FifoInv, TypeOK
  <2> QED
    BY <2>1, <2>2, GapOfFifo
<1>9. CASE RecordStart \/ RecordEnd \/ RecordKilled
  BY <1>9 DEF RecordStart, RecordEnd, RecordKilled
<1>10. CASE Check
  <2>1. CASE MustReset(Len(fifo))
    BY <1>10, <2>1, GapEmptied DEF Check, HoldFifo, FifoInv, BufferFits
  <2>2. CASE ~MustReset(Len(fifo))
    BY <1>10, <2>2, GapStays, RxFifoAssumption
    DEF Check, MustReset, Unnoticed, FifoInv, TypeOK
  <2> QED
    BY <2>1, <2>2
<1>11. CASE Release
  <2>1. Ahead = <<>>
    BY <1>11 DEF Release, GapInv
  <2> QED
    BY <1>11, <2>1, GapStays DEF Release, ReleaseFifo
<1>12. CASE Level
  <2>1. Unnoticed => Unnoticed'
    BY <1>12 DEF Level, Unnoticed, Checked
  <2> QED
    BY <1>12, <2>1, GapStays DEF Level
<1>13. CASE CopySample
  <2>1. Ahead' = Ahead
    BY <1>2, <1>13 DEF CopySample, Ahead
  <2>2. ~Unnoticed
    BY <1>13 DEF CopySample, Unnoticed, Checked
  <2> QED
    BY <1>13, <2>1, <2>2 DEF CopySample, GapInv, Gapless, NothingMissingAfter
<1>14. CASE Send
  <2>1. Ahead' = fifo /\ UNCHANGED <<server, fifo, held, stream, excused>>
    BY <1>2, <1>14 DEF Send, Ahead
  <2>2. (Unnoticed => Unnoticed') /\ pc' \notin {"start", "release"}
    BY <1>14 DEF Send, Unnoticed, Checked, FifoInv, TypeOK
  <2> QED
    BY <2>1, <2>2, GapOfFifo
<1>15. CASE UNCHANGED vars
  BY <1>15 DEF vars, loop, GapInv, Ahead, Gapless, NothingMissingAfter,
               Unnoticed, Checked
<1> QED
  BY <1>3, <1>4, <1>5, <1>6, <1>7, <1>8, <1>9, <1>10, <1>11, <1>12, <1>13,
     <1>14, <1>15 DEF Next

LEMMA FifoInvariants == Spec => [](FifoInv /\ FreshInv /\ GapInv)
<1>1. Init => FifoInv /\ FreshInv /\ GapInv
  BY InitFifoInv, InitFreshInv, InitGapInv
<1>2. FifoInv /\ FreshInv /\ GapInv /\ [Next]_vars
        => (FifoInv /\ FreshInv /\ GapInv)'
  BY NextFifoInv, NextFreshInv, NextGapInv
<1> QED
  BY <1>1, <1>2, PTL DEF Spec

-----------------------------------------------------------------------------
(* Every variable keeps its type: the FIFO never holds more than it can,   *)
(* and no program sends more than a chunk at a time (TypeOK).              *)
THEOREM FifoTypes == Spec => []TypeOK
<1>1. FifoInv => TypeOK
  BY DEF FifoInv
<1> QED
  BY FifoInvariants, <1>1, PTL

(* memcpy() never reads an empty FIFO, whatever the depth and the chunk,   *)
(* in all four programs (ChunkIsThere, the loops of main(),                *)
(* rx_data_handler() and write-c2-files.c).                                *)
THEOREM ChunkAlwaysThere == Spec => []ChunkIsThere
<1>1. FifoInv => ChunkIsThere
  BY DEF FifoInv
<1> QED
  BY FifoInvariants, <1>1, PTL

(* No client and no recording gets a sample that was received before it    *)
(* began, although the FIFO runs on between the clients of two of the      *)
(* programs (NoStaleSamples, the resets of the FIFO).                      *)
THEOREM NoSampleIsStale == Spec => []NoStaleSamples
<1>1. FifoInv /\ FreshInv => NoStaleSamples
  BY DEF FifoInv, TypeOK, FreshInv, Fresh, NoStaleSamples
<1> QED
  BY FifoInvariants, <1>1, PTL

(* However long send() blocks and wherever in the loop samples are lost:   *)
(* what is copied next has no gap but those that the code cannot know of   *)
(* (GapsAreNoticed, the reset of a full FIFO in the loops).                   *)
THEOREM GapsNeverGoUnnoticed == Spec => []GapsAreNoticed
<1>1. GapInv => GapsAreNoticed
  <2> SUFFICES ASSUME GapInv, Checked PROVE GapsAreNoticed
    BY DEF GapsAreNoticed
  <2>1. server # "record" => Gapless(Ahead)
    BY DEF GapInv
  <2>2. server # "record"
    BY DEF Checked
  <2> QED
    BY <2>1, <2>2 DEF GapsAreNoticed, Gapless, Ahead
<1> QED
  BY FifoInvariants, <1>1, PTL
=============================================================================
