-------------------------- MODULE HpsdrServerProofs --------------------------
(***************************************************************************)
(* Proofs about HpsdrServer for any clients, any number of streamers that  *)
(* may ever be created, and any pace of the samples.                       *)
(*                                                                         *)
(* The key is what the two flags mean: active_thread is set exactly while  *)
(* a streamer lives, or could not be created (FlagIsTrue), also while      *)
(* main() waits.  Since a new streamer and a new address need the flag to  *)
(* be down, one address and one reader of the FIFO are all there can be,   *)
(* and none after a failed pthread_create().                               *)
(***************************************************************************)
EXTENDS HpsdrServer, FiniteSetTheorems, TLAPS

FlagIsTrue ==
    /\ active <=> Alive # {} \/ lost
    /\ lost => Alive = {}

AtMostOne == \A t, u \in Alive : t = u

StreamerInv ==
    /\ TypeOK
    /\ FlagIsTrue
    /\ AtMostOne
    /\ GoesToStarter
    /\ NeverUnderruns

-----------------------------------------------------------------------------
(* The sizes of a batch, for every number of receivers a packet can name.  *)
LEMMA BatchSizes ==
    ASSUME NEW r \in 1..8
    PROVE  /\ SamplesPerFrame(r) \in Nat /\ Datagrams(r) \in Nat
           /\ SamplesPerFrame(r) * (6 * r + 2) <= 504
           /\ Datagrams(r) <= 25
           /\ Batch(r) \in Nat /\ Batch(r) <= 256
           /\ 36 * (Batch(r) - 1) + 6 * r <= 6 * 4096
<1>1. CASE r = 1
  <2>1. SamplesPerFrame(r) = 63
    BY <1>1 DEF SamplesPerFrame
  <2>2. Datagrams(r) = 2
    BY <2>1 DEF Datagrams
  <2> QED
    BY <1>1, <2>1, <2>2 DEF Batch
<1>2. CASE r = 2
  <2>1. SamplesPerFrame(r) = 36
    BY <1>2 DEF SamplesPerFrame
  <2>2. Datagrams(r) = 3
    BY <2>1 DEF Datagrams
  <2> QED
    BY <1>2, <2>1, <2>2 DEF Batch
<1>3. CASE r = 3
  <2>1. SamplesPerFrame(r) = 25
    BY <1>3 DEF SamplesPerFrame
  <2>2. Datagrams(r) = 5
    BY <2>1 DEF Datagrams
  <2> QED
    BY <1>3, <2>1, <2>2 DEF Batch
<1>4. CASE r = 4
  <2>1. SamplesPerFrame(r) = 19
    BY <1>4 DEF SamplesPerFrame
  <2>2. Datagrams(r) = 6
    BY <2>1 DEF Datagrams
  <2> QED
    BY <1>4, <2>1, <2>2 DEF Batch
<1>5. CASE r = 5
  <2>1. SamplesPerFrame(r) = 15
    BY <1>5 DEF SamplesPerFrame
  <2>2. Datagrams(r) = 8
    BY <2>1 DEF Datagrams
  <2> QED
    BY <1>5, <2>1, <2>2 DEF Batch
<1>6. CASE r = 6
  <2>1. SamplesPerFrame(r) = 13
    BY <1>6 DEF SamplesPerFrame
  <2>2. Datagrams(r) = 9
    BY <2>1 DEF Datagrams
  <2> QED
    BY <1>6, <2>1, <2>2 DEF Batch
<1>7. CASE r = 7
  <2>1. SamplesPerFrame(r) = 11
    BY <1>7 DEF SamplesPerFrame
  <2>2. Datagrams(r) = 11
    BY <2>1 DEF Datagrams
  <2> QED
    BY <1>7, <2>1, <2>2 DEF Batch
<1>8. CASE r = 8
  <2>1. SamplesPerFrame(r) = 10
    BY <1>8 DEF SamplesPerFrame
  <2>2. Datagrams(r) = 12
    BY <2>1 DEF Datagrams
  <2> QED
    BY <1>8, <2>1, <2>2 DEF Batch
<1> QED
  BY <1>1, <1>2, <1>3, <1>4, <1>5, <1>6, <1>7, <1>8

-----------------------------------------------------------------------------
LEMMA PlannedCount ==
    ASSUME TypeOK, NEW t \in Threads
    PROVE  planned[t] \in 1..8
<1>1. planned[t] \in Counts \cup {1}
  BY DEF TypeOK
<1>2. Counts \cup {1} \subseteq 1..8
  <2>1. 1 \in 1..8
    OBVIOUS
  <2> QED
    BY <2>1, HpsdrAssumption
<1> QED
  BY <1>1, <1>2

LEMMA InitStreamerInv == Init => StreamerInv
<1> SUFFICES ASSUME Init PROVE StreamerInv
  OBVIOUS
<1>1. Alive = {}
  BY DEF Init, Alive
<1>2. TypeOK
  <2>1. /\ pc \in [Threads -> {"none", "reset", "loop", "wait", "copy", "send"}]
        /\ planned \in [Threads -> Counts \cup {1}]
        /\ owner \in [Threads -> Clients \cup {NoClient}]
    BY DEF Init
  <2>2. level \in 0..Depth
    BY HpsdrAssumption DEF Init
  <2> QED
    BY <2>1, <2>2 DEF Init, TypeOK
<1>3. FlagIsTrue
  BY <1>1 DEF FlagIsTrue, Init
<1> QED
  BY <1>1, <1>2, <1>3
  DEF StreamerInv, AtMostOne, GoesToStarter, NeverUnderruns

(* A step of main() that leaves the streamers and where they send alone.   *)
LEMMA StreamersUntouched ==
    ASSUME StreamerInv, UNCHANGED <<active, dest, pc, planned, owner, lost>>,
           level' \in 0..Depth, level' >= level, TypeOK'
    PROVE  StreamerInv'
<1>1. Alive' = Alive
  BY DEF Alive
<1>2. NeverUnderruns'
  <2> SUFFICES ASSUME NEW t \in Alive, pc[t] = "copy"
               PROVE  level' >= Batch(planned[t])
    BY <1>1 DEF NeverUnderruns, Batch, Datagrams, SamplesPerFrame
  <2>1. planned[t] \in 1..8
    BY PlannedCount DEF StreamerInv, Alive
  <2>2. level >= Batch(planned[t])
    BY DEF StreamerInv, NeverUnderruns
  <2>3. Batch(planned[t]) \in Nat
    BY <2>1, BatchSizes
  <2>4. level \in Int /\ level' \in Int
    BY HpsdrAssumption DEF StreamerInv, TypeOK
  <2> QED
    BY <2>2, <2>3, <2>4
<1> QED
  BY <1>1, <1>2 DEF StreamerInv, FlagIsTrue, AtMostOne, GoesToStarter

(* A step of a streamer, which is the only one, that goes on living.       *)
LEMMA StreamerSteps ==
    ASSUME StreamerInv, NEW t \in Threads, NEW to,
           pc[t] # "none", to # "none",
           pc' = [pc EXCEPT ![t] = to],
           to = "copy" => level' >= Batch(planned'[t]),
           UNCHANGED <<active, dest, owner, lost>>,
           TypeOK'
    PROVE  StreamerInv'
<1> USE DEF StreamerInv
<1>1. Alive' = Alive
  BY DEF Alive, TypeOK
<1>2. \A u \in Alive : u = t
  BY DEF Alive, AtMostOne
<1>3. pc'[t] = to
  BY DEF TypeOK
<1>4. NeverUnderruns'
  <2> SUFFICES ASSUME NEW u \in Alive', pc'[u] = "copy"
               PROVE  (level >= Batch(planned[u]))'
    BY DEF NeverUnderruns
  <2>1. u = t
    BY <1>1, <1>2
  <2> QED
    BY <2>1, <1>3 DEF Batch, Datagrams, SamplesPerFrame
<1>5. FlagIsTrue' /\ AtMostOne' /\ GoesToStarter'
  BY <1>1 DEF FlagIsTrue, AtMostOne, GoesToStarter
<1> QED
  BY <1>4, <1>5

LEMMA NextStreamerInv == StreamerInv /\ [Next]_vars => StreamerInv'
<1> SUFFICES ASSUME StreamerInv, [Next]_vars PROVE StreamerInv'
  OBVIOUS
<1>0. /\ Depth \in Nat /\ Step \in Nat \ {0} /\ level \in 0..Depth
      /\ \A t \in Threads : planned[t] \in 1..8
      /\ TypeOK
  <2>1. TypeOK
    BY DEF StreamerInv
  <2>2. \A t \in Threads : planned[t] \in 1..8
    BY <2>1, PlannedCount
  <2> QED
    BY <2>1, <2>2, HpsdrAssumption DEF TypeOK
<1> USE DEF globals, streamer
<1>1. CASE SetReceivers
  <2>1. TypeOK'
    BY <1>0, <1>1 DEF SetReceivers, TypeOK
  <2> QED
    BY <1>0, <1>1, <2>1, StreamersUntouched DEF SetReceivers
<1>2. CASE Stop
  <2>1. TypeOK'
    BY <1>0, <1>2 DEF Stop, TypeOK
  <2> QED
    BY <1>0, <1>2, <2>1, StreamersUntouched DEF Stop
<1>3. CASE StopDone
  <2>1. TypeOK'
    BY <1>0, <1>3 DEF StopDone, TypeOK
  <2> QED
    BY <1>0, <1>3, <2>1, StreamersUntouched DEF StopDone
<1>4. ASSUME NEW c \in Clients, Start(c)
      PROVE  StreamerInv'
  <2>1. TypeOK'
    BY <1>0, <1>4 DEF Start, TypeOK
  <2> QED
    BY <1>0, <1>4, <2>1, StreamersUntouched DEF Start
<1>5. CASE StartDone
  <2>1. Alive = {} /\ ~lost
    BY <1>5 DEF StartDone, StreamerInv, FlagIsTrue
  <2>2. active' /\ dest' = from
    BY <1>5 DEF StartDone, Launch
  <2>3. CASE NotCreated
    <3>1. TypeOK'
      BY <1>0, <1>5, <2>3 DEF StartDone, Launch, NotCreated, TypeOK
    <3>2. Alive' = {} /\ lost'
      BY <2>1, <2>3 DEF NotCreated, Alive
    <3> QED
      BY <2>2, <3>1, <3>2
      DEF StreamerInv, FlagIsTrue, AtMostOne, GoesToStarter, NeverUnderruns
  <2>4. ASSUME NEW t \in Threads, Created(t) PROVE StreamerInv'
    <3>1. TypeOK'
      BY <1>0, <1>5, <2>4 DEF StartDone, Launch, Created, TypeOK
    <3>2. Alive' = {t} /\ pc'[t] = "reset" /\ owner'[t] = from /\ ~lost'
      BY <1>0, <2>1, <2>4 DEF Created, Alive, TypeOK
    <3> QED
      BY <2>2, <3>1, <3>2
      DEF StreamerInv, FlagIsTrue, AtMostOne, GoesToStarter, NeverUnderruns
  <2> QED
    BY <1>5, <2>3, <2>4 DEF StartDone, Launch
<1>6. ASSUME NEW t \in Threads, Stream(t)
      PROVE  StreamerInv'
  <2>1. CASE ResetFifo(t)
    <3>1. TypeOK'
      BY <1>0, <2>1 DEF ResetFifo, TypeOK
    <3> QED
      BY <2>1, <3>1, StreamerSteps DEF ResetFifo
  <2>2. CASE Plan(t)
    <3>1. TypeOK'
      BY <1>0, <2>2 DEF Plan, TypeOK
    <3> QED
      BY <2>2, <3>1, StreamerSteps DEF Plan
  <2>3. CASE Leave(t)
    <3>1. TypeOK'
      BY <1>0, <2>3 DEF Leave, Ends, TypeOK
    <3>2. Alive = {t}
      BY <2>3 DEF Leave, Ends, StreamerInv, AtMostOne, Alive
    <3>3. Alive' = {}
      BY <1>0, <2>3, <3>2 DEF Leave, Ends, Alive, TypeOK
    <3>4. ~active' /\ ~lost'
      BY <2>3, <3>2 DEF Leave, Ends, StreamerInv, FlagIsTrue
    <3> QED
      BY <3>1, <3>3, <3>4
      DEF StreamerInv, FlagIsTrue, AtMostOne, GoesToStarter, NeverUnderruns
  <2>4. CASE Wait(t)
    <3>1. TypeOK'
      BY <1>0, <2>4 DEF Wait, TypeOK
    <3>2. level' >= Batch(planned'[t])
      BY <2>4 DEF Wait, Enough, Batch, Datagrams, SamplesPerFrame
    <3> QED
      BY <2>4, <3>1, <3>2, StreamerSteps DEF Wait
  <2>5. CASE Copy(t)
    <3>1. level >= Batch(planned[t]) /\ Batch(planned[t]) \in Nat
      BY <1>0, <2>5, BatchSizes DEF Copy, StreamerInv, NeverUnderruns, Alive
    <3>2. level' = level - Batch(planned[t])
      BY <2>5 DEF Copy
    <3>3. level' \in 0..Depth
      BY <1>0, <3>1, <3>2
    <3>4. TypeOK'
      BY <1>0, <2>5, <3>3 DEF Copy, TypeOK
    <3> QED
      BY <2>5, <3>4, StreamerSteps DEF Copy
  <2>6. CASE Send(t)
    <3>1. TypeOK'
      BY <1>0, <2>6 DEF Send, TypeOK
    <3> QED
      BY <2>6, <3>1, StreamerSteps DEF Send
  <2> QED
    BY <1>6, <2>1, <2>2, <2>3, <2>4, <2>5, <2>6 DEF Stream
<1>7. CASE Fill
  <2>1. level' \in 0..Depth /\ level' >= level
    BY <1>0, <1>7 DEF Fill
  <2>2. TypeOK'
    BY <1>0, <1>7, <2>1 DEF Fill, TypeOK
  <2> QED
    BY <1>7, <2>1, <2>2, StreamersUntouched DEF Fill
<1>8. CASE UNCHANGED vars
  <2>1. TypeOK'
    BY <1>0, <1>8 DEF vars, TypeOK
  <2> QED
    BY <1>0, <1>8, <2>1, StreamersUntouched DEF vars
<1> QED
  BY <1>1, <1>2, <1>3, <1>4, <1>5, <1>6, <1>7, <1>8 DEF Next, Finish

THEOREM StreamerInvariant == Spec => []StreamerInv
<1> QED
  BY InitStreamerInv, NextStreamerInv, PTL DEF Spec

-----------------------------------------------------------------------------
(* Type correctness: in particular the level never runs below zero.        *)
THEOREM HpsdrTypeOK == Spec => []TypeOK
<1>1. StreamerInv => TypeOK
  BY DEF StreamerInv
<1> QED
  BY StreamerInvariant, <1>1, PTL

(* There is one streamer at a time, whatever packets come and whenever the *)
(* old streamer notices that it is to stop (main(), lines 187-212).        *)
THEOREM NeverTwoStreamers == Spec => []OneStreamer
<1>1. StreamerInv => OneStreamer
  <2> SUFFICES ASSUME StreamerInv PROVE Cardinality(Alive) <= 1
    BY DEF OneStreamer
  <2>1. CASE Alive = {}
    BY <2>1, FS_EmptySet
  <2>2. CASE Alive # {}
    <3>1. PICK t \in Alive : Alive = {t}
      BY <2>2 DEF StreamerInv, AtMostOne
    <3>2. Cardinality({t}) = 1
      BY FS_Singleton
    <3> QED
      BY <3>1, <3>2
  <2> QED
    BY <2>1, <2>2
<1> QED
  BY StreamerInvariant, <1>1, PTL

(* A streamer sends to the client whose packet started it, although the    *)
(* address is a global that every start packet writes (lines 200-203, 362).*)
THEOREM SamplesGoToStarter == Spec => []GoesToStarter
<1>1. StreamerInv => GoesToStarter
  BY DEF StreamerInv
<1> QED
  BY StreamerInvariant, <1>1, PTL

(* The answer to a discovery packet (line 184) is right: it says "in use"  *)
(* exactly while a streamer lives or after one could not be created.       *)
THEOREM DiscoveryAnswersTruth == Spec => []DiscoveryIsTrue
<1>1. StreamerInv => DiscoveryIsTrue
  BY DEF StreamerInv, FlagIsTrue, DiscoveryIsTrue
<1> QED
  BY StreamerInvariant, <1>1, PTL

(* memcpy() of a batch never empties the FIFO (lines 384-387).             *)
THEOREM BatchIsThere == Spec => []NeverUnderruns
<1>1. StreamerInv => NeverUnderruns
  BY DEF StreamerInv
<1> QED
  BY StreamerInvariant, <1>1, PTL

(* For every number of receivers a batch fits its frames, its datagrams,   *)
(* its buffer and the FIFO (lines 348-376).                                *)
THEOREM BatchAlwaysFits == Spec => []BatchFits
<1>1. TypeOK => BatchFits
  <2> SUFFICES ASSUME TypeOK, NEW t \in Alive
               PROVE  /\ SamplesPerFrame(planned[t]) * (6 * planned[t] + 2) <= 504
                      /\ Datagrams(planned[t]) <= 25
                      /\ 36 * (Batch(planned[t]) - 1) + 6 * planned[t] <= 6 * 4096
                      /\ Batch(planned[t]) < Depth
    BY SMT DEF BatchFits
  <2>1. planned[t] \in 1..8
    BY PlannedCount DEF Alive
  <2>2. Batch(planned[t]) \in Nat /\ Batch(planned[t]) <= 256
    BY <2>1, BatchSizes
  <2>3. Batch(planned[t]) < Depth
    BY <2>2, HpsdrAssumption
  <2>4. /\ SamplesPerFrame(planned[t]) * (6 * planned[t] + 2) <= 504
        /\ Datagrams(planned[t]) <= 25
        /\ 36 * (Batch(planned[t]) - 1) + 6 * planned[t] <= 6 * 4096
    BY <2>1, BatchSizes
  <2> QED
    BY <2>3, <2>4
<1> QED
  BY HpsdrTypeOK, <1>1, PTL
=============================================================================
