--------------------------- MODULE WideServerProofs ---------------------------
(***************************************************************************)
(* Theorems about WideServer, for every number of clients and whatever     *)
(* they ask for: the table of threads, the ownership of connections, what  *)
(* a client leaves behind, and the bytes that three threads write.         *)
(***************************************************************************)
EXTENDS WideServer, FiniteSetTheorems, TLAPS

(* The places where a connection can be.                                   *)
InLine(c) == \E i \in DOMAIN backlog : backlog[i] = c
Kept(c) == \E k \in Kinds : Keeps(k, c)

(* A connection is open exactly while it is in one of the places, it is in *)
(* one only, and there once.  OneOwner follows; it is not inductive, since *)
(* it does not say that a client in a place has a connection.              *)
OwnerInv ==
    /\ \A i, j \in DOMAIN backlog : backlog[i] = backlog[j] => i = j
    /\ \A c \in Clients : \A k, l \in Kinds : Keeps(k, c) /\ Keeps(l, c) => k = l
    /\ \A c \in Clients :
         /\ InLine(c) => head # c /\ ~Kept(c)
         /\ head = c => ~Kept(c)
         /\ link[c] # "idle" <=> InLine(c) \/ head = c \/ Kept(c)

-----------------------------------------------------------------------------
LEMMA InitTypeOK == Init => TypeOK
  BY DEF Init, TypeOK, Kinds, Control, Data, Silent

(* The bytes of the first word hold 0 or 1 whoever stores into them.       *)
LEMMA StoredByte ==
    ASSUME TypeOK, NEW b \in {"rx_rst", "tx_rst", "gpio"}, NEW v \in {0, 1},
           StoreByte(b, v)
    PROVE  /\ word0' \in [{"rx_rst", "tx_rst", "gpio"} -> {0, 1}]
           /\ word0'[b] = v
           /\ \A x \in {"rx_rst", "tx_rst", "gpio"} : x # b => word0'[x] = word0[x]
  BY DEF TypeOK, StoreByte

LEMMA NextTypeOK == TypeOK /\ [Next]_vars => TypeOK'
<1> SUFFICES ASSUME TypeOK, [Next]_vars PROVE TypeOK'
  OBVIOUS
<1> USE DEF TypeOK, threads, wires, params, table
<1>1. ASSUME NEW c \in Clients, Connect(c) PROVE TypeOK'
  BY <1>1 DEF Connect
<1>2. ASSUME NEW c \in Clients, SayHello(c) PROVE TypeOK'
  BY <1>2, WideAssumption DEF SayHello, Kinds
<1>3. ASSUME NEW c \in Clients, HangUp(c) PROVE TypeOK'
  BY <1>3 DEF HangUp
<1>4. CASE Accept
  BY <1>4 DEF Accept
<1>5. CASE Reject
  BY <1>5 DEF Reject, Answered, Close
<1>6. CASE Dispatch
  BY <1>6 DEF Dispatch, Answered, Rejected, Running
<1>7. ASSUME NEW k \in Kinds, ControlStart(k) \/ ControlEnd(k) PROVE TypeOK'
  <2>1. k \in Control
    BY <1>7 DEF ControlStart, ControlEnd
  <2>2. word0' \in [{"rx_rst", "tx_rst", "gpio"} -> {0, 1}]
    BY <1>7, StoredByte DEF ControlStart, ControlEnd, Defaults
  <2>3. tuning' \in [Control -> {"default", "other"}] /\ mask' \in [Control -> Masks \cup {1}]
    BY <1>7, <2>1 DEF ControlStart, ControlEnd, Defaults
  <2> QED
    BY <1>7, <2>2, <2>3 DEF ControlStart, ControlEnd, Running
<1>8. ASSUME NEW k \in Kinds, DataStart(k) \/ DataEnd(k) PROVE TypeOK'
  <2>1. pc' \in [Kinds -> Running \cup {"none", "free"}]
    BY <1>8 DEF DataStart, DataEnd, Running
  <2>2. sock' \in [Kinds -> Clients \cup {NoClient}]
    BY <1>8 DEF DataStart, DataEnd
  <2>3. UNCHANGED <<wires, table, loaded, word0, params>>
    BY Zenon, <1>8 DEF DataStart, DataEnd
  <2> QED
    BY Zenon, <2>1, <2>2, <2>3
<1>9. ASSUME NEW k \in Kinds, LoadReset(k) PROVE TypeOK'
  BY <1>9 DEF LoadReset, RstOf, Running
<1>10. ASSUME NEW k \in Kinds, ClearReset(k) PROVE TypeOK'
  <2>1. loaded[k] \in {0, 1}
    BY <1>10 DEF ClearReset
  <2>2. loaded[k] - (loaded[k] % 2) \in {0, 1}
    BY <2>1
  <2>3. word0' \in [{"rx_rst", "tx_rst", "gpio"} -> {0, 1}]
    BY <1>10, <2>2, StoredByte DEF ClearReset, RstOf
  <2> QED
    BY <1>10, <2>3 DEF ClearReset, Running
<1>11. ASSUME NEW k \in Kinds, SetReset(k) PROVE TypeOK'
  <2>1. loaded[k] \in {0, 1}
    BY <1>11 DEF SetReset
  <2>2. loaded[k] - (loaded[k] % 2) + 1 \in {0, 1}
    BY <2>1
  <2>3. word0' \in [{"rx_rst", "tx_rst", "gpio"} -> {0, 1}]
    BY <1>11, <2>2, StoredByte DEF SetReset, RstOf
  <2> QED
    BY <1>11, <2>3 DEF SetReset, Running
<1>12. ASSUME NEW k \in Kinds, CloseSocket(k) PROVE TypeOK'
  <2>1. link' \in [Clients -> {"idle", "open", "gone"}]
        /\ hello' \in [Clients -> Kinds \cup {Other, Silent}]
    BY <1>12 DEF CloseSocket, Close
  <2> QED
    BY <1>12, <2>1 DEF CloseSocket
<1>13. ASSUME NEW k \in Kinds, FreeKind(k) PROVE TypeOK'
  BY <1>13 DEF FreeKind
<1>14. ASSUME NEW k \in Control, ControlCommand(k) PROVE TypeOK'
  <2>1. CASE SetFreqOrRate(k)
    BY <2>1 DEF SetFreqOrRate, Commanded
  <2>2. CASE SetMask(k)
    <3>1. PICK m \in Masks : /\ mask' = [mask EXCEPT ![k] = m]
                             /\ IF k = 2 THEN StoreByte("gpio", m % 2)
                                         ELSE UNCHANGED word0
      BY <2>2 DEF SetMask
    <3>2. m % 2 \in {0, 1}
      BY WideAssumption
    <3>3. word0' \in [{"rx_rst", "tx_rst", "gpio"} -> {0, 1}]
      BY <3>1, <3>2, StoredByte
    <3> QED
      BY <2>2, <3>1, <3>3 DEF SetMask, Commanded
  <2> QED
    BY <1>14, <2>1, <2>2 DEF ControlCommand
<1>15. CASE SetPTT
  <2>1. word0' \in [{"rx_rst", "tx_rst", "gpio"} -> {0, 1}]
    BY <1>15, StoredByte DEF SetPTT
  <2> QED
    BY <1>15, <2>1 DEF SetPTT, Commanded
<1>16. CASE Overflow
  BY <1>16 DEF Overflow, Running
<1>17. CASE Exit
  <2>1. /\ link' \in [Clients -> {"idle", "open", "gone"}]
        /\ hello' \in [Clients -> Kinds \cup {Other, Silent}]
        /\ backlog' \in Seq(Clients) /\ head' \in Clients \cup {NoClient}
    BY <1>17 DEF Exit
  <2>2. /\ sockThread' \in [Kinds -> Clients \cup {NoClient}]
        /\ pc' \in [Kinds -> Running \cup {"none", "free"}]
        /\ sock' \in [Kinds -> Clients \cup {NoClient}]
        /\ loaded' \in [Data -> {0, 1}]
        /\ lost' \subseteq Kinds /\ up' \in BOOLEAN
    BY <1>17 DEF Exit
  <2>3. UNCHANGED <<word0, tuning, mask>>
    BY <1>17 DEF Exit
  <2> QED
    BY <2>1, <2>2, <2>3
<1>18. CASE Restart
  <2>1. word0' \in [{"rx_rst", "tx_rst", "gpio"} -> {0, 1}]
    BY <1>18, StoredByte DEF Restart
  <2> QED
    BY <1>18, <2>1 DEF Restart
<1>19. CASE UNCHANGED vars
  BY <1>19 DEF vars
<1> QED
  BY <1>1, <1>2, <1>3, <1>4, <1>5, <1>6, <1>7, <1>8, <1>9, <1>10, <1>11,
     <1>12, <1>13, <1>14, <1>15, <1>16, <1>17, <1>18, <1>19 DEF Next, Main, Handler

-----------------------------------------------------------------------------
LEMMA InitTable == Init => TableMatchesThreads
  BY DEF Init, TableMatchesThreads

LEMMA NextTable ==
    TypeOK /\ TableMatchesThreads /\ [Next]_vars => TableMatchesThreads'
<1> SUFFICES ASSUME TypeOK, TableMatchesThreads, [Next]_vars
             PROVE  TableMatchesThreads'
  OBVIOUS
<1> USE DEF TypeOK, TableMatchesThreads, threads, table
<1>1. ASSUME UNCHANGED <<sockThread, lost, threads>> PROVE TableMatchesThreads'
  BY <1>1
<1>2. ASSUME NEW c \in Clients, Connect(c) \/ SayHello(c) \/ HangUp(c)
      PROVE  TableMatchesThreads'
  BY <1>2, <1>1 DEF Connect, SayHello, HangUp
<1>3. CASE Accept \/ Reject
  BY <1>3, <1>1 DEF Accept, Reject
<1>4. CASE Dispatch
  <2>1. head \in Clients /\ hello[head] \in Kinds /\ sockThread[hello[head]] = NoClient
    BY <1>4 DEF Dispatch, Answered, Rejected
  <2>2. pc[hello[head]] = "none" /\ hello[head] \notin lost
    BY <2>1
  <2>3. CASE pc' = [pc EXCEPT ![hello[head]] = "start"] /\ UNCHANGED lost
    BY <1>4, <2>1, <2>2, <2>3, WideAssumption DEF Dispatch
  <2>4. CASE lost' = lost \cup {hello[head]} /\ UNCHANGED pc
    BY <1>4, <2>1, <2>2, <2>4, WideAssumption DEF Dispatch
  <2> QED
    BY <1>4, <2>3, <2>4 DEF Dispatch
<1>5. ASSUME NEW k \in Kinds,
             ControlStart(k) \/ ControlEnd(k) \/ DataStart(k) \/ DataEnd(k)
      PROVE  TableMatchesThreads'
  BY <1>5 DEF ControlStart, ControlEnd, DataStart, DataEnd
<1>6. ASSUME NEW k \in Kinds, LoadReset(k) \/ ClearReset(k) \/ SetReset(k)
      PROVE  TableMatchesThreads'
  BY <1>6 DEF LoadReset, ClearReset, SetReset
<1>7. ASSUME NEW k \in Kinds, CloseSocket(k) \/ FreeKind(k)
      PROVE  TableMatchesThreads'
  BY <1>7 DEF CloseSocket, FreeKind
<1>8. ASSUME NEW k \in Control, ControlCommand(k) PROVE TableMatchesThreads'
  BY <1>8, <1>1 DEF ControlCommand, SetFreqOrRate, SetMask, Commanded
<1>9. CASE SetPTT
  BY <1>9, <1>1 DEF SetPTT, Commanded
<1>10. CASE Overflow
  BY <1>10 DEF Overflow, Kinds
<1>11. CASE Exit
  BY <1>11 DEF Exit
<1>12. CASE Restart
  BY <1>12, <1>1 DEF Restart
<1>13. CASE UNCHANGED vars
  BY <1>13, <1>1 DEF vars
<1> QED
  BY <1>2, <1>3, <1>4, <1>5, <1>6, <1>7, <1>8, <1>9, <1>10, <1>11, <1>12, <1>13
  DEF Next, Main, Handler

-----------------------------------------------------------------------------
LEMMA InitDefaults == Init => NothingLeftBehind
  BY DEF Init, NothingLeftBehind

(* The transmitter's pin is stored into by its control handler only.       *)
LEMMA NextDefaults ==
    TypeOK /\ TableMatchesThreads /\ NothingLeftBehind /\ [Next]_vars
      => NothingLeftBehind'
<1> SUFFICES ASSUME TypeOK, TableMatchesThreads, NothingLeftBehind, [Next]_vars
             PROVE  NothingLeftBehind'
  OBVIOUS
<1> USE DEF NothingLeftBehind, threads, params, table
<1>1. ASSUME \A k \in Control : pc'[k] # "loop" => pc[k] # "loop",
             UNCHANGED <<params, up>>, word0'.gpio = word0.gpio
      PROVE  NothingLeftBehind'
  BY <1>1
<1>2. ASSUME NEW c \in Clients, Connect(c) \/ SayHello(c) \/ HangUp(c)
      PROVE  NothingLeftBehind'
  BY <1>2, <1>1 DEF Connect, SayHello, HangUp
<1>3. CASE Accept \/ Reject
  BY <1>3, <1>1 DEF Accept, Reject
<1>4. CASE Dispatch
  <2>1. hello[head] \in Kinds /\ pc[hello[head]] = "none"
    BY <1>4 DEF Dispatch, Rejected, TableMatchesThreads
  <2>2. word0'.gpio = word0.gpio /\ params' = params /\ up' = up
    BY <1>4 DEF Dispatch
  <2>3. \A k \in Control : pc[k] = "loop" => pc'[k] = "loop"
    BY <1>4, <2>1 DEF Dispatch, TypeOK, Control, Kinds
  <2> QED
    BY <2>2, <2>3
<1>5. ASSUME NEW k \in Kinds, ControlStart(k) \/ ControlEnd(k)
      PROVE  NothingLeftBehind'
  <2>1. k \in Control /\ Defaults(k)
    BY <1>5 DEF ControlStart, ControlEnd
  <2>2. tuning'[k] = "default" /\ mask'[k] = 1
    BY <2>1 DEF Defaults, TypeOK
  <2>3. k = 2 => word0'.gpio = 0
    BY <2>1, StoredByte DEF Defaults
  <2>4. k # 2 => word0' = word0
    BY <2>1 DEF Defaults
  <2>5. \A l \in Control : l # k =>
           tuning'[l] = tuning[l] /\ mask'[l] = mask[l] /\ pc'[l] = pc[l]
    BY <1>5, <2>1 DEF ControlStart, ControlEnd, Defaults, TypeOK, Control, Kinds
  <2>6. up' = up
    BY <1>5 DEF ControlStart, ControlEnd
  <2> QED
    BY <2>2, <2>3, <2>4, <2>5, <2>6 DEF Control
<1>6. ASSUME NEW k \in Kinds, DataStart(k) \/ LoadReset(k) \/ DataEnd(k)
      PROVE  NothingLeftBehind'
  <2>1. \A l \in Control : pc'[l] = pc[l]
    BY <1>6 DEF DataStart, LoadReset, DataEnd, TypeOK, Control, Data, Kinds
  <2>2. UNCHANGED <<params, up>> /\ word0' = word0
    BY <1>6 DEF DataStart, LoadReset, DataEnd
  <2> QED
    BY <2>1, <2>2, <1>1
<1>7. ASSUME NEW k \in Kinds, ClearReset(k) \/ SetReset(k)
      PROVE  NothingLeftBehind'
  <2>1. word0'.gpio = word0.gpio
    BY <1>7 DEF ClearReset, SetReset, StoreByte, RstOf, TypeOK
  <2>2. \A l \in Control : pc'[l] = pc[l]
    BY <1>7 DEF ClearReset, SetReset, TypeOK, Control, Data, Kinds
  <2>3. UNCHANGED <<params, up>>
    BY <1>7 DEF ClearReset, SetReset
  <2> QED
    BY <2>1, <2>2, <2>3, <1>1
<1>8. ASSUME NEW k \in Kinds, CloseSocket(k) \/ FreeKind(k)
      PROVE  NothingLeftBehind'
  <2>1. \A l \in Control : pc'[l] # "loop" => pc[l] # "loop"
    BY <1>8 DEF CloseSocket, FreeKind, TypeOK, Control, Kinds
  <2>2. UNCHANGED <<params, up>> /\ word0' = word0
    BY <1>8 DEF CloseSocket, FreeKind
  <2> QED
    BY <2>1, <2>2, <1>1
<1>9. ASSUME NEW k \in Control, ControlCommand(k) PROVE NothingLeftBehind'
  <2>1. pc[k] = "loop" /\ pc' = pc /\ up' = up /\ (k # 2 => word0' = word0)
    BY <1>9 DEF ControlCommand, SetFreqOrRate, SetMask, Commanded
  <2>2. \A l \in Control : l # k => tuning'[l] = tuning[l] /\ mask'[l] = mask[l]
    BY <1>9 DEF ControlCommand, SetFreqOrRate, SetMask, TypeOK
  <2> QED
    BY <2>1, <2>2 DEF Control
<1>10. CASE SetPTT
  BY <1>10 DEF SetPTT, Commanded
<1>11. CASE Overflow
  BY <1>11, <1>1 DEF Overflow, TypeOK, Control, Kinds
<1>12. CASE Exit
  BY <1>12 DEF Exit
<1>13. CASE Restart
  <2>1. word0'.gpio = 0
    BY <1>13, StoredByte DEF Restart
  <2> QED
    BY <1>13, <2>1 DEF Restart
<1>14. CASE UNCHANGED vars
  BY <1>14, <1>1 DEF vars
<1> QED
  BY <1>2, <1>3, <1>4, <1>5, <1>6, <1>7, <1>8, <1>9, <1>10, <1>11, <1>12,
     <1>13, <1>14
  DEF Next, Main, Handler

-----------------------------------------------------------------------------
LEMMA InitReleased == Init => ResetStaysReleased
  BY DEF Init, ResetStaysReleased, Data, Kinds

(* A data handler's reset byte is stored into by itself only, so that what *)
(* it loaded is what is there when it stores.                              *)
LEMMA NextReleased ==
    TypeOK /\ ResetStaysReleased /\ [Next]_vars => ResetStaysReleased'
<1> SUFFICES ASSUME TypeOK, ResetStaysReleased, [Next]_vars
             PROVE  ResetStaysReleased'
  OBVIOUS
<1> USE DEF ResetStaysReleased, threads, RstOf
<1>1. ASSUME \A k \in Data : pc'[k] = "loop" => pc[k] = "loop",
             \A k \in Data : word0'[RstOf(k)] = word0[RstOf(k)]
      PROVE  ResetStaysReleased'
  BY <1>1
<1>2. ASSUME NEW v \in {0, 1}, StoreByte("gpio", v)
      PROVE  \A k \in Data : word0'[RstOf(k)] = word0[RstOf(k)]
  BY <1>2 DEF StoreByte, TypeOK, Data
<1>3. ASSUME NEW c \in Clients, Connect(c) \/ SayHello(c) \/ HangUp(c)
      PROVE  ResetStaysReleased'
  BY <1>3, <1>1 DEF Connect, SayHello, HangUp
<1>4. CASE Accept \/ Reject
  BY <1>4, <1>1 DEF Accept, Reject
<1>5. CASE Dispatch
  <2>1. hello[head] \in Kinds
    BY <1>5 DEF Dispatch, Rejected
  <2> QED
    BY <1>5, <2>1, <1>1 DEF Dispatch, TypeOK, Data, Kinds
<1>6. ASSUME NEW k \in Kinds, ControlStart(k) \/ ControlEnd(k)
      PROVE  ResetStaysReleased'
  <2>1. \A l \in Data : pc'[l] = pc[l]
    BY <1>6 DEF ControlStart, ControlEnd, TypeOK, Control, Data, Kinds
  <2>2. \A l \in Data : word0'[RstOf(l)] = word0[RstOf(l)]
    BY <1>6, <1>2 DEF ControlStart, ControlEnd, Defaults
  <2> QED
    BY <2>1, <2>2
<1>7. ASSUME NEW k \in Kinds, DataStart(k) \/ LoadReset(k) \/ DataEnd(k)
      PROVE  ResetStaysReleased'
  BY <1>7, <1>1 DEF DataStart, LoadReset, DataEnd, TypeOK, Data, Kinds
<1>8. ASSUME NEW k \in Kinds, ClearReset(k) PROVE ResetStaysReleased'
  BY <1>8 DEF ClearReset, StoreByte, TypeOK, Data, Kinds
<1>9. ASSUME NEW k \in Kinds, SetReset(k) PROVE ResetStaysReleased'
  <2>1. k \in Data /\ loaded[k] \in {0, 1}
    BY <1>9 DEF SetReset, TypeOK
  <2>2. loaded[k] - (loaded[k] % 2) + 1 = 1
    BY <2>1
  <2> QED
    BY <1>9, <2>1, <2>2 DEF SetReset, StoreByte, TypeOK, Data, Kinds
<1>10. ASSUME NEW k \in Kinds, CloseSocket(k) \/ FreeKind(k)
       PROVE  ResetStaysReleased'
  BY <1>10, <1>1 DEF CloseSocket, FreeKind, TypeOK, Data, Kinds
<1>11. ASSUME NEW k \in Control, ControlCommand(k) PROVE ResetStaysReleased'
  <2>1. \A m \in Masks : m % 2 \in {0, 1}
    BY WideAssumption
  <2>2. \A l \in Data : word0'[RstOf(l)] = word0[RstOf(l)]
    BY <1>11, <2>1, <1>2 DEF ControlCommand, SetFreqOrRate, SetMask, Commanded
  <2> QED
    BY <1>11, <2>2, <1>1
    DEF ControlCommand, SetFreqOrRate, SetMask, Commanded
<1>12. CASE SetPTT
  BY <1>12, <1>1, <1>2 DEF SetPTT, Commanded
<1>13. CASE Overflow
  BY <1>13, <1>1 DEF Overflow, TypeOK, Data, Kinds
<1>14. CASE Exit
  BY <1>14 DEF Exit, Data, Kinds
<1>15. CASE Restart
  BY <1>15, <1>1, <1>2 DEF Restart
<1>16. CASE UNCHANGED vars
  BY <1>16, <1>1 DEF vars
<1> QED
  BY <1>3, <1>4, <1>5, <1>6, <1>7, <1>8, <1>9, <1>10, <1>11, <1>12, <1>13,
     <1>14, <1>15, <1>16 DEF Next, Main, Handler

-----------------------------------------------------------------------------
(* Who is where, and whose connection is open: what the steps that touch   *)
(* neither leave.                                                          *)
LEMMA OwnersStay ==
    ASSUME OwnerInv, UNCHANGED <<backlog, head>>,
           \A c \in Clients : link'[c] = "idle" <=> link[c] = "idle",
           \A k \in Kinds, c \in Clients : Keeps(k, c)' <=> Keeps(k, c)
    PROVE  OwnerInv'
<1>1. \A c \in Clients : (InLine(c)' <=> InLine(c)) /\ (Kept(c)' <=> Kept(c))
  BY DEF InLine, Kept
<1> QED
  BY <1>1 DEF OwnerInv

LEMMA InitOwners == Init => OwnerInv
  BY WideAssumption
  DEF Init, OwnerInv, InLine, Kept, Keeps, Running

LEMMA NextOwners ==
    TypeOK /\ TableMatchesThreads /\ OwnerInv /\ [Next]_vars => OwnerInv'
<1> SUFFICES ASSUME TypeOK, TableMatchesThreads, OwnerInv, [Next]_vars
             PROVE  OwnerInv'
  OBVIOUS
<1> USE DEF TypeOK, threads, wires, table, Keeps
<1>1. ASSUME NEW c \in Clients, Connect(c) PROVE OwnerInv'
  <2>1. ~InLine(c) /\ head # c /\ ~Kept(c)
    BY <1>1 DEF Connect, OwnerInv
  <2>2. /\ backlog' = Append(backlog, c) /\ backlog \in Seq(Clients)
        /\ DOMAIN backlog' = 1..(Len(backlog) + 1)
        /\ \A i \in DOMAIN backlog : backlog'[i] = backlog[i]
        /\ backlog'[Len(backlog) + 1] = c
    BY <1>1 DEF Connect
  <2>3. \A d \in Clients : InLine(d)' <=> (InLine(d) \/ d = c)
    <3>1. DOMAIN backlog = 1..Len(backlog) /\ Len(backlog) \in Nat
      BY <2>2
    <3>2. \A i \in DOMAIN backlog' : i \in DOMAIN backlog \/ i = Len(backlog) + 1
      BY <2>2, <3>1
    <3>3. /\ DOMAIN backlog \subseteq DOMAIN backlog'
          /\ Len(backlog) + 1 \in DOMAIN backlog'
      BY <2>2, <3>1
    <3> QED
      BY Zenon, <2>2, <3>2, <3>3 DEF InLine
  <2>4. \A d \in Clients : Kept(d)' <=> Kept(d)
    BY <1>1 DEF Connect, Kept
  <2>5. \A i, j \in DOMAIN backlog' : backlog'[i] = backlog'[j] => i = j
    BY <2>1, <2>2 DEF OwnerInv, InLine
  <2>6. \A d \in Clients : link'[d] # "idle" <=> (link[d] # "idle" \/ d = c)
    BY <1>1 DEF Connect
  <2>7. \A d \in Clients : \A k, l \in Kinds :
           Keeps(k, d)' /\ Keeps(l, d)' => k = l
    BY <1>1 DEF Connect, OwnerInv
  <2>8. head' = head
    BY <1>1 DEF Connect
  <2> QED
    BY <2>1, <2>3, <2>4, <2>5, <2>6, <2>7, <2>8 DEF OwnerInv
<1>2. ASSUME NEW c \in Clients, SayHello(c) \/ HangUp(c) PROVE OwnerInv'
  <2>1. \A d \in Clients : link'[d] = "idle" <=> link[d] = "idle"
    BY <1>2 DEF SayHello, HangUp
  <2> QED
    BY <1>2, <2>1, OwnersStay DEF SayHello, HangUp
<1>3. CASE Accept
  <2>1. /\ head' = backlog[1] /\ head = NoClient
        /\ Len(backlog) >= 1 /\ DOMAIN backlog = 1..Len(backlog)
        /\ DOMAIN backlog' = 1..(Len(backlog) - 1)
        /\ \A i \in DOMAIN backlog' : backlog'[i] = backlog[i + 1]
    BY <1>3 DEF Accept
  <2>2. \A c \in Clients : InLine(c) <=> (InLine(c)' \/ head' = c)
    <3> SUFFICES ASSUME NEW c \in Clients
                 PROVE  InLine(c) <=> (InLine(c)' \/ head' = c)
      OBVIOUS
    <3>1. InLine(c) => InLine(c)' \/ head' = c
      <4> SUFFICES ASSUME NEW i \in DOMAIN backlog, backlog[i] = c
                   PROVE  InLine(c)' \/ head' = c
        BY DEF InLine
      <4>1. CASE i = 1
        BY <4>1, <2>1
      <4>2. CASE i # 1
        <5>1. i - 1 \in DOMAIN backlog' /\ backlog'[i - 1] = c
          BY <4>2, <2>1
        <5> QED
          BY <5>1 DEF InLine
      <4> QED
        BY <4>1, <4>2
    <3>2. InLine(c)' \/ head' = c => InLine(c)
      <4>1. /\ 1 \in DOMAIN backlog
            /\ \A i \in DOMAIN backlog' : i + 1 \in DOMAIN backlog
        BY <2>1
      <4> QED
        BY <4>1, <2>1 DEF InLine
    <3> QED
      BY <3>1, <3>2
  <2>3. \A i, j \in DOMAIN backlog : backlog[i] = backlog[j] => i = j
    BY DEF OwnerInv
  <2>4. /\ \A c \in Clients : InLine(c)' => head' # c
        /\ \A i, j \in DOMAIN backlog' : backlog'[i] = backlog'[j] => i = j
    <3>1. \A i \in DOMAIN backlog' : i + 1 \in DOMAIN backlog /\ i + 1 # 1
      BY <2>1
    <3>2. 1 \in DOMAIN backlog
      BY <2>1
    <3>3. \A i \in DOMAIN backlog' : backlog'[i] # head'
      BY <2>1, <2>3, <3>1, <3>2
    <3>4. \A i, j \in DOMAIN backlog' : backlog'[i] = backlog'[j] => i + 1 = j + 1
      BY <2>1, <2>3, <3>1
    <3>5. \A i, j \in DOMAIN backlog' : i + 1 = j + 1 => i = j
      BY <2>1
    <3> QED
      BY <3>3, <3>4, <3>5 DEF InLine
  <2>5. /\ \A c \in Clients : (Kept(c)' <=> Kept(c)) /\ head # c
        /\ link' = link
    BY <1>3, WideAssumption DEF Accept, Kept
  <2>6. \A d \in Clients : \A k, l \in Kinds :
           Keeps(k, d)' /\ Keeps(l, d)' => k = l
    BY <1>3 DEF Accept, OwnerInv
  <2> QED
    BY <2>2, <2>4, <2>5, <2>6 DEF OwnerInv
<1>4. CASE Reject
  <2>1. /\ head \in Clients /\ backlog' = backlog
        /\ head' = NoClient
        /\ \A c \in Clients : link'[c] = IF c = head THEN "idle" ELSE link[c]
    BY <1>4 DEF Reject, Answered, Close
  <2>2. \A c \in Clients : /\ (Kept(c)' <=> Kept(c)) /\ (InLine(c)' <=> InLine(c))
                           /\ head' # c
    BY <1>4, <2>1, WideAssumption DEF Reject, Kept, InLine
  <2>3. \A d \in Clients : \A k, l \in Kinds :
           Keeps(k, d)' /\ Keeps(l, d)' => k = l
    BY <1>4 DEF Reject, OwnerInv
  <2> QED
    BY <2>1, <2>2, <2>3 DEF OwnerInv
<1>5. CASE Dispatch
  <2> DEFINE h == hello[head]
  <2>1. /\ head \in Clients /\ h \in Kinds /\ head' = NoClient
        /\ sockThread[h] = NoClient /\ pc[h] = "none"
        /\ backlog' = backlog /\ link' = link
        /\ sockThread' = [sockThread EXCEPT ![h] = head] /\ h \notin lost
        /\ \/ pc' = [pc EXCEPT ![h] = "start"] /\ lost' = lost
           \/ lost' = lost \cup {h} /\ pc' = pc
    BY <1>5 DEF Dispatch, Answered, Rejected, TableMatchesThreads
  <2>2. \A k \in Kinds, c \in Clients :
           Keeps(k, c)' <=> IF k = h THEN c = head ELSE Keeps(k, c)
    <3>1. CASE pc' = [pc EXCEPT ![h] = "start"] /\ lost' = lost
      BY <2>1, <3>1 DEF Running
    <3>2. CASE lost' = lost \cup {h} /\ pc' = pc
      BY <2>1, <3>2 DEF Running
    <3> QED
      BY <2>1, <3>1, <3>2
  <2>3. \A c \in Clients : ~Keeps(h, c)
    BY <2>1 DEF Running
  <2>4. ~Kept(head)
    BY <2>1 DEF OwnerInv
  <2>5. \A c \in Clients : /\ Kept(c)' <=> (Kept(c) \/ c = head)
                           /\ InLine(c)' <=> InLine(c)
                           /\ head' # c
    BY <2>1, <2>2, <2>3, WideAssumption DEF Kept, InLine
  <2>6. \A c \in Clients : \A k, l \in Kinds :
           Keeps(k, c)' /\ Keeps(l, c)' => k = l
    BY <2>1, <2>2, <2>4 DEF OwnerInv, Kept
  <2> QED
    BY <2>1, <2>4, <2>5, <2>6 DEF OwnerInv
<1>6. ASSUME NEW k \in Kinds,
             \/ ControlStart(k) \/ ControlEnd(k) \/ DataStart(k) \/ DataEnd(k)
             \/ LoadReset(k) \/ ClearReset(k) \/ SetReset(k) \/ FreeKind(k)
      PROVE  OwnerInv'
  <2>1. UNCHANGED <<link, backlog, head>>
    BY <1>6 DEF ControlStart, ControlEnd, DataStart, DataEnd, LoadReset,
                ClearReset, SetReset, FreeKind
  <2>2. \A l \in Kinds, c \in Clients : Keeps(l, c)' <=> Keeps(l, c)
    BY <1>6 DEF ControlStart, ControlEnd, DataStart, DataEnd, LoadReset,
                ClearReset, SetReset, FreeKind, Running, TableMatchesThreads
  <2> QED
    BY <2>1, <2>2, OwnersStay
<1>7. ASSUME NEW k \in Kinds, CloseSocket(k) PROVE OwnerInv'
  <2> DEFINE s == sockThread[k]
  <2>1. /\ pc[k] = "close" /\ pc' = [pc EXCEPT ![k] = "free"]
        /\ sock[k] = s /\ s \in Clients
        /\ UNCHANGED <<backlog, head, sockThread, lost>> /\ k \notin lost
        /\ \A c \in Clients : link'[c] = IF c = s THEN "idle" ELSE link[c]
    BY <1>7 DEF CloseSocket, Close, TableMatchesThreads
  <2>2. \A l \in Kinds, c \in Clients : Keeps(l, c)' <=> (l # k /\ Keeps(l, c))
    BY <2>1 DEF Running
  <2>3. Keeps(k, s)
    BY <2>1 DEF Running
  <2>4. ~InLine(s) /\ head # s
    BY <2>1, <2>3 DEF OwnerInv, Kept
  <2>5. \A c \in Clients : /\ Kept(c)' <=> (Kept(c) /\ c # s)
                           /\ InLine(c)' <=> InLine(c)
    BY <2>1, <2>2, <2>3 DEF Kept, OwnerInv, InLine
  <2>6. \A c \in Clients : \A l, m \in Kinds :
           Keeps(l, c)' /\ Keeps(m, c)' => l = m
    BY <2>2 DEF OwnerInv
  <2> QED
    BY <2>1, <2>4, <2>5, <2>6 DEF OwnerInv
<1>8. ASSUME NEW k \in Control, ControlCommand(k) PROVE OwnerInv'
  BY <1>8, OwnersStay DEF ControlCommand, SetFreqOrRate, SetMask, Commanded
<1>9. CASE SetPTT
  BY <1>9, OwnersStay DEF SetPTT, Commanded
<1>10. CASE Overflow
  <2>1. \A l \in Kinds, c \in Clients : Keeps(l, c)' <=> Keeps(l, c)
    BY <1>10 DEF Overflow, Running
  <2> QED
    BY <1>10, <2>1, OwnersStay DEF Overflow
<1>11. CASE Exit
  BY <1>11, WideAssumption DEF Exit, OwnerInv, InLine, Kept, Running
<1>12. CASE Restart
  BY <1>12, OwnersStay DEF Restart
<1>13. CASE UNCHANGED vars
  BY <1>13, OwnersStay DEF vars
<1> QED
  BY <1>1, <1>2, <1>3, <1>4, <1>5, <1>6, <1>7, <1>8, <1>9, <1>10, <1>11,
     <1>12, <1>13
  DEF Next, Main, Handler

-----------------------------------------------------------------------------
WideInv ==
    /\ TypeOK /\ TableMatchesThreads /\ OwnerInv
    /\ NothingLeftBehind /\ ResetStaysReleased

LEMMA WideInvariant == Spec => []WideInv
<1>1. Init => WideInv
  BY InitTypeOK, InitTable, InitOwners, InitDefaults, InitReleased DEF WideInv
<1>2. WideInv /\ [Next]_vars => WideInv'
  BY NextTypeOK, NextTable, NextOwners, NextDefaults, NextReleased DEF WideInv
<1> QED
  BY <1>1, <1>2, PTL DEF Spec

(* Every variable keeps its type; in particular the bytes of the shared    *)
(* word hold 0 or 1 although two threads add to what they loaded (TypeOK). *)
THEOREM WideTypes == Spec => []TypeOK
<1>1. WideInv => TypeOK
  BY DEF WideInv
<1> QED
  BY WideInvariant, <1>1, PTL

(* sock_thread[] and the threads agree, for any number of clients: main()  *)
(* never starts a second thread of a kind, a thread that is late to read   *)
(* its entry finds its own, and an entry without a thread is one whose     *)
(* pthread_create() failed (TableMatchesThreads).                          *)
THEOREM TableAlwaysMatches == Spec => []TableMatchesThreads
<1>1. WideInv => TableMatchesThreads
  BY DEF WideInv
<1> QED
  BY WideInvariant, <1>1, PTL

(* When a client has left, whenever that was, nothing it has set stays     *)
(* set, and the transmitter is not keyed (NothingLeftBehind).              *)
THEOREM NothingStaysSet == Spec => []NothingLeftBehind
<1>1. WideInv => NothingLeftBehind
  BY DEF WideInv
<1> QED
  BY WideInvariant, <1>1, PTL

(* Three threads that write bytes of one word without a lock do not put    *)
(* one another's FIFO back into reset (ResetStaysReleased).                *)
THEOREM ResetsDoNotInterfere == Spec => []ResetStaysReleased
<1>1. WideInv => ResetStaysReleased
  BY DEF WideInv
<1> QED
  BY WideInvariant, <1>1, PTL

(* With at most one element, a set has as many as one would say.           *)
LEMMA OneOrNone ==
    ASSUME NEW S, \A x, y \in S : x = y
    PROVE  Cardinality(S) = IF S = {} THEN 0 ELSE 1
<1>1. CASE S = {}
  BY <1>1, FS_EmptySet
<1>2. CASE S # {}
  <2>1. PICK x \in S : S = {x}
    BY <1>2
  <2> QED
    BY <2>1, FS_Singleton
<1> QED
  BY <1>1, <1>2

(* No connection is shared between handlers, used after it was closed, or  *)
(* lost other than by a failed pthread_create(), for any number of clients *)
(* that come and go and whatever thread could not be created (OneOwner).   *)
THEOREM EveryConnectionHasOneOwner == Spec => []OneOwner
<1>1. WideInv => OneOwner
  <2> SUFFICES ASSUME WideInv PROVE OneOwner
    OBVIOUS
  <2> USE DEF WideInv
  <2>1. ASSUME NEW c \in Clients, link[c] # "idle"
        PROVE  Cardinality({i \in DOMAIN backlog : backlog[i] = c})
                  + (IF head = c THEN 1 ELSE 0)
                  + Cardinality({k \in Kinds : Keeps(k, c)})
               = 1
    <3> DEFINE I == {i \in DOMAIN backlog : backlog[i] = c}
               K == {k \in Kinds : Keeps(k, c)}
    <3>1. /\ InLine(c) <=> I # {}
          /\ Kept(c) <=> K # {}
      BY DEF InLine, Kept
    <3>2. Cardinality(I) = IF InLine(c) THEN 1 ELSE 0
      <4>1. \A i, j \in I : i = j
        BY DEF OwnerInv
      <4> QED
        BY <4>1, <3>1, OneOrNone
    <3>3. Cardinality(K) = IF Kept(c) THEN 1 ELSE 0
      <4>1. \A k, l \in K : k = l
        BY DEF OwnerInv
      <4> QED
        BY <4>1, <3>1, OneOrNone
    <3>4. /\ InLine(c) \/ head = c \/ Kept(c)
          /\ InLine(c) => head # c /\ ~Kept(c)
          /\ head = c => ~Kept(c)
      BY <2>1 DEF OwnerInv
    <3> HIDE DEF I, K
    <3>5. Cardinality(I) + (IF head = c THEN 1 ELSE 0) + Cardinality(K) = 1
      BY <3>2, <3>3, <3>4
    <3> QED
      BY <3>5 DEF I, K
  <2>2. ASSUME NEW k \in Kinds, pc[k] \in Running
        PROVE  link[sockThread[k]] # "idle"
    <3>1. sockThread[k] \in Clients
      BY <2>2 DEF TypeOK, TableMatchesThreads, Running
    <3>2. Kept(sockThread[k])
      BY <2>2 DEF Kept, Keeps
    <3> QED
      BY <3>1, <3>2 DEF OwnerInv
  <2> QED
    BY <2>1, <2>2 DEF OneOwner
<1> QED
  BY WideInvariant, <1>1, PTL
=============================================================================
