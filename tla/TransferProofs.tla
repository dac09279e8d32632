--------------------------- MODULE TransferProofs ---------------------------
(***************************************************************************)
(* Proofs about Transfer, for every file, every size of the two windows    *)
(* and every set of network faults.                                        *)
(***************************************************************************)
EXTENDS Transfer, FiniteSetTheorems, TLAPS

\* What the assumptions say of the numbers the module computes with.
LEMMA Numbers ==
  /\ TotPkts \in Nat
  /\ Packets = 1..TotPkts
  /\ TRAN_WIN \in Nat /\ TRAN_WIN > 0
  /\ RECV_WIN \in Nat /\ RECV_WIN > 0
  /\ MaxCopies \in Nat /\ MaxCopies > 0
  /\ File \in [Packets -> Chunk]
  /\ NoChunk \notin Chunk
BY FileAssumption, WindowAssumption, CopiesAssumption DEF TotPkts, Packets

\* An added copy stays within the bound, and a socket that held none holds one.
LEMMA PutType ==
  ASSUME NEW copies \in 0..MaxCopies
  PROVE  Put(copies) \in 0..MaxCopies /\ Put(copies) > 0
BY Numbers DEF Put

\* The end of the transmission window lies in the file, at or after SendBase
\* while there is something left to acknowledge.
LEMMA SendWindowEndBounds ==
  ASSUME SendBase \in 1..(TotPkts + 1)
  PROVE  /\ SendWindowEnd \in 0..TotPkts
         /\ SendWindowEnd <= SendBase + TRAN_WIN - 1
         /\ SendBase <= TotPkts => SendBase <= SendWindowEnd
BY Numbers DEF SendWindowEnd, Min2

\* initialize_send and initialize_recv leave two sides that agree.
LEMMA InitIndInv == Init => IndInv
<1> SUFFICES ASSUME Init PROVE IndInv
  OBVIOUS
<1> USE Numbers DEF Init
<1>1. TypeOK
  <2>1. SenderTypeOK
    <3>1. SendBase \in 1..(TotPkts + 1) /\ NextSeqNum \in 1..(TotPkts + 1)
      OBVIOUS
    <3>2. check_pkt \in [Packets -> 0..2]
      OBVIOUS
    <3>3. /\ fileTransfer \in BOOLEAN /\ isTimerStarted \in BOOLEAN
          /\ timerArmed \in BOOLEAN /\ sigalrm \in BOOLEAN
      OBVIOUS
    <3>4. tot_acked \in 0..TotPkts /\ duplicate_ack_count \in 1..2
      OBVIOUS
    <3> QED BY <3>1, <3>2, <3>3, <3>4 DEF SenderTypeOK
  <2>2. NetworkTypeOK
    BY DEF NetworkTypeOK
  <2>3. ReceiverTypeOK
    <3>1. pkt \in [Packets -> Chunk \cup {NoChunk}]
      OBVIOUS
    <3>2. file \in Seq(Chunk \cup {NoChunk})
      OBVIOUS
    <3>3. receiver \in {"receiving", "junk", "returned"} /\ received \subseteq Packets
      OBVIOUS
    <3>4. ReceiveBase \in 1..(TotPkts + 1)
      OBVIOUS
    <3>5. WindowEnd \in Nat
      OBVIOUS
    <3>6. tot_pkts \in Nat /\ tot_received \in Nat
      OBVIOUS
    <3>7. allocated \in BOOLEAN
      OBVIOUS
    <3> HIDE DEF Init
    <3> QED BY <3>1, <3>2, <3>3, <3>4, <3>5, <3>6, <3>7 DEF ReceiverTypeOK
  <2> QED BY <2>1, <2>2, <2>3 DEF TypeOK
<1>2. CountersAgree
  BY FS_EmptySet DEF CountersAgree
<1>3. ReceiverInv
  BY DEF ReceiverInv
<1>4. NetworkInv
  BY DEF NetworkInv
<1>5. SenderInv
  BY DEF SenderInv
<1> QED BY <1>1, <1>2, <1>3, <1>4, <1>5 DEF IndInv

-----------------------------------------------------------------------------
(* Types.                                                                    *)

\* send_packet keeps its array and the packets in flight in range, puts into
\* the network no other packet than its own, and takes none out.
LEMMA SendPacket ==
  ASSUME SenderTypeOK, NetworkTypeOK, NEW s, NEW lost, send_packet(s, lost)
  PROVE  /\ check_pkt' \in [Packets -> 0..2]
         /\ dataNet' \in [Packets -> 0..MaxCopies]
         /\ \A t \in Packets : t # s => dataNet'[t] = dataNet[t]
<1>1. CASE s \notin Packets
  BY <1>1 DEF SenderTypeOK, NetworkTypeOK, send_packet
<1>2. CASE s \in Packets
  <2>1. check_pkt' \in [Packets -> 0..2]
    <3> DEFINE c(t) == IF t = s THEN (IF check_pkt[s] = 0 THEN 1 ELSE check_pkt[s])
                       ELSE check_pkt[t]
    <3>1. check_pkt' = [t \in Packets |-> c(t)]
      BY <1>2 DEF SenderTypeOK, send_packet
    <3>2. \A t \in Packets : c(t) \in 0..2
      BY DEF SenderTypeOK
    <3> QED BY <3>1, <3>2
  <2>2. CASE lost
    BY <1>2, <2>1, <2>2 DEF NetworkTypeOK, send_packet
  <2>3. CASE ~lost
    <3> DEFINE d(t) == IF t = s THEN Put(dataNet[s]) ELSE dataNet[t]
    <3>1. dataNet' = [t \in Packets |-> d(t)]
      BY <1>2, <2>3 DEF NetworkTypeOK, send_packet
    <3>2. \A t \in Packets : d(t) \in 0..MaxCopies
      BY PutType DEF NetworkTypeOK
    <3> QED BY <2>1, <3>1, <3>2
  <2> QED BY <2>2, <2>3
<1> QED BY <1>1, <1>2

\* Every step keeps the sender's counters, flags and array in their ranges.
LEMMA SenderTypes ==
  ASSUME IndInv, [Next]_vars
  PROVE  SenderTypeOK'
<1> USE Numbers
<1>0. SenderTypeOK /\ SenderInv /\ NetworkTypeOK
  BY DEF IndInv, TypeOK
<1>1. CASE UNCHANGED senderVars
  BY <1>0, <1>1 DEF SenderTypeOK, senderVars
<1>2. CASE SendWindow \/ LeaveWindow \/ EndTransmission
  BY <1>0, <1>2 DEF SenderTypeOK, SendWindow, LeaveWindow, EndTransmission
<1>8. CASE TimerExpires \/ StopTransfer \/ StopTimer
  BY <1>0, <1>8 DEF SenderTypeOK, TimerExpires, StopTransfer, StopTimer
<1>3. ASSUME NEW lost \in BOOLEAN, SendNext(lost)
      PROVE  SenderTypeOK'
  <2>1. NextSeqNum' \in 1..(TotPkts + 1)
    BY <1>0, <1>3, SendWindowEndBounds DEF SenderTypeOK, SendNext, start_timer
  <2>2. check_pkt' \in [Packets -> 0..2]
    BY <1>0, <1>3, SendPacket DEF SendNext, start_timer
  <2>3. timerArmed' \in BOOLEAN /\ isTimerStarted' \in BOOLEAN
    BY <1>0, <1>3 DEF SenderTypeOK, SendNext, start_timer
  <2> QED BY <1>0, <1>3, <2>1, <2>2, <2>3 DEF SenderTypeOK, SendNext, start_timer
<1>4. ASSUME NEW lost \in BOOLEAN, TimeoutRoutine(lost)
      PROVE  SenderTypeOK'
  <2>1. check_pkt' \in [Packets -> 0..2]
    BY <1>0, <1>4, SendPacket DEF TimeoutRoutine, retransmission
  <2> QED BY <1>0, <1>4, <2>1 DEF SenderTypeOK, TimeoutRoutine, retransmission
<1>5. ASSUME NEW a \in 1..(TotPkts + 1), AckThread(a)
      PROVE  SenderTypeOK'
  <2>1. CASE ReceiveNewAck(a)
    <3>1. check_pkt' \in [Packets -> 0..2]
      BY <1>0, <2>1 DEF SenderTypeOK, ReceiveNewAck, cumulative_ack
    <3>2. SendBase' \in 1..(TotPkts + 1) /\ tot_acked' \in 0..TotPkts
      BY <1>0, <2>1 DEF SenderTypeOK, ReceiveNewAck, cumulative_ack
    <3>3. ackThread' \in {"running", "acked", "stopping", "ended"}
      BY <1>0, <2>1 DEF SenderTypeOK, ReceiveNewAck
    <3> QED BY <1>0, <2>1, <3>1, <3>2, <3>3 DEF SenderTypeOK, ReceiveNewAck
  <2>2. CASE CountDuplicateAck(a)
    BY <1>0, <2>2 DEF SenderTypeOK, CountDuplicateAck
  <2>3. ASSUME NEW lost \in BOOLEAN, FastRetransmit(a, lost)
        PROVE  SenderTypeOK'
    <3>1. check_pkt' \in [Packets -> 0..2]
      BY <1>0, <2>3, SendPacket DEF FastRetransmit, retransmission
    <3> QED BY <1>0, <2>3, <3>1 DEF SenderTypeOK, FastRetransmit, retransmission
  <2> QED BY <1>5, <2>1, <2>2, <2>3 DEF AckThread
<1>6. CASE WriteFile \/ JunkTimeout \/ Network
  BY <1>1, <1>6 DEF WriteFile, JunkTimeout, Network, LoseData, LoseAck,
     DuplicateData, DuplicateAck
<1>7. ASSUME NEW s \in Packets, ReceivePacket(s) \/ ClearJunk(s)
      PROVE  SenderTypeOK'
  BY <1>1, <1>7 DEF ReceivePacket, ReceiveOutOfOrder, ReceiveExpected,
     DiscardPacket, ClearJunk
<1> QED
  BY <1>1, <1>2, <1>3, <1>4, <1>5, <1>6, <1>7, <1>8 DEF Next, MainThread, vars

\* Every step keeps the number of copies of each datagram within its bound.
LEMMA NetworkTypes ==
  ASSUME IndInv, [Next]_vars
  PROVE  NetworkTypeOK'
<1> USE Numbers
<1>0. SenderTypeOK /\ NetworkTypeOK /\ ReceiverTypeOK
  BY DEF IndInv, TypeOK
<1>1. CASE UNCHANGED <<dataNet, ackNet>>
  BY <1>0, <1>1 DEF NetworkTypeOK
<1>2. ASSUME NEW lost \in BOOLEAN, SendNext(lost) \/ TimeoutRoutine(lost)
      PROVE  NetworkTypeOK'
  <2>1. UNCHANGED ackNet /\ \E s : send_packet(s, lost)
    BY <1>2 DEF SendNext, start_timer, TimeoutRoutine, retransmission
  <2> QED BY <1>0, <2>1, SendPacket DEF NetworkTypeOK
<1>3. ASSUME NEW a \in 1..(TotPkts + 1), AckThread(a)
      PROVE  NetworkTypeOK'
  <2>1. ackNet[a] > 0 /\ ackNet' = [ackNet EXCEPT ![a] = @ - 1]
    BY <1>3 DEF AckThread, ReceiveNewAck, CountDuplicateAck, FastRetransmit
  <2>2. ackNet' \in [1..(TotPkts + 1) -> 0..MaxCopies]
    BY <1>0, <2>1 DEF NetworkTypeOK
  <2>3. UNCHANGED dataNet \/ \E lost \in BOOLEAN : \E s : send_packet(s, lost)
    BY <1>3 DEF AckThread, ReceiveNewAck, CountDuplicateAck, FastRetransmit, retransmission
  <2> QED BY <1>0, <2>2, <2>3, SendPacket DEF NetworkTypeOK
<1>4. ASSUME NEW s \in Packets, ReceivePacket(s)
      PROVE  NetworkTypeOK'
  <2>1. dataNet[s] > 0 /\ dataNet' = [dataNet EXCEPT ![s] = @ - 1]
    BY <1>4 DEF ReceivePacket, ReceiveOutOfOrder, ReceiveExpected, DiscardPacket, TakePacket
  <2>2. dataNet' \in [Packets -> 0..MaxCopies]
    BY <1>0, <2>1 DEF NetworkTypeOK
  <2>3. \E n : send_cumulative_ack(n)
    BY <1>4 DEF ReceivePacket, ReceiveOutOfOrder, ReceiveExpected, DiscardPacket
  <2>4. PICK n : ackNet' = [ackNet EXCEPT ![n] = Put(ackNet[n])]
    BY <2>3 DEF send_cumulative_ack
  <2>5. ackNet' \in [1..(TotPkts + 1) -> 0..MaxCopies]
    BY <1>0, <2>4, PutType DEF NetworkTypeOK
  <2> QED BY <2>2, <2>5 DEF NetworkTypeOK
<1>5. ASSUME NEW s \in Packets, ClearJunk(s) \/ LoseData(s) \/ DuplicateData(s)
      PROVE  NetworkTypeOK'
  <2>1. dataNet[s] \in 0..MaxCopies
    BY <1>0 DEF NetworkTypeOK
  <2>2. \E c \in 0..MaxCopies : dataNet' = [dataNet EXCEPT ![s] = c]
    BY <1>5, <2>1 DEF ClearJunk, LoseData, DuplicateData
  <2>3. dataNet' \in [Packets -> 0..MaxCopies]
    BY <1>0, <2>2 DEF NetworkTypeOK
  <2> QED BY <1>0, <1>5, <2>3 DEF NetworkTypeOK, ClearJunk, LoseData, DuplicateData
<1>6. ASSUME NEW a \in 1..(TotPkts + 1), LoseAck(a) \/ DuplicateAck(a)
      PROVE  NetworkTypeOK'
  <2>1. ackNet[a] \in 0..MaxCopies
    BY <1>0 DEF NetworkTypeOK
  <2>2. \E c \in 0..MaxCopies : ackNet' = [ackNet EXCEPT ![a] = c]
    BY <1>6, <2>1 DEF LoseAck, DuplicateAck
  <2>3. ackNet' \in [1..(TotPkts + 1) -> 0..MaxCopies]
    BY <1>0, <2>2 DEF NetworkTypeOK
  <2> QED BY <1>0, <1>6, <2>3 DEF NetworkTypeOK, LoseAck, DuplicateAck
<1>7. CASE \/ SendWindow \/ LeaveWindow \/ EndTransmission \/ WriteFile \/ JunkTimeout
           \/ TimerExpires \/ StopTransfer \/ StopTimer
  BY <1>1, <1>7 DEF SendWindow, LeaveWindow, EndTransmission, WriteFile, JunkTimeout,
     TimerExpires, StopTransfer, StopTimer
<1> QED
  BY <1>1, <1>2, <1>3, <1>4, <1>5, <1>6, <1>7 DEF Next, MainThread, Network, vars

\* What reading a packet does to the receiver, whichever branch it takes.
LEMMA Arrival ==
  ASSUME IndInv, NEW s \in Packets, ReceivePacket(s)
  PROVE  /\ allocated' = TRUE /\ tot_pkts' = TotPkts /\ TotPkts > 0
         /\ receiver = "receiving" /\ UNCHANGED <<senderVars, receiver, file>>
BY Numbers DEF IndInv, ReceiverInv, ReceivePacket, ReceiveOutOfOrder,
   ReceiveExpected, DiscardPacket, TakePacket

\* Taking a packet that was missing adds it to the buffer, with its content.
LEMMA MarkPacket ==
  ASSUME IndInv, NEW s \in Packets, s \notin received, mark_recvd(s), buffer(s)
  PROVE  /\ received' \subseteq Packets
         /\ tot_received' = Cardinality(received') /\ tot_received' \in Nat
         /\ pkt' \in [Packets -> Chunk \cup {NoChunk}]
         /\ \A t \in received' : pkt'[t] = File[t]
<1> USE Numbers
<1>0. ReceiverTypeOK /\ CountersAgree /\ ReceiverInv
  BY DEF IndInv, TypeOK
<1>1. received' \subseteq Packets
  BY <1>0 DEF mark_recvd, ReceiverTypeOK
<1>2. tot_received' = Cardinality(received') /\ tot_received' \in Nat
  <2>1. IsFiniteSet(received)
    <3>1. IsFiniteSet(1..TotPkts)
      BY FS_Interval
    <3> QED BY <1>0, <3>1, FS_Subset DEF ReceiverTypeOK
  <2>2. Cardinality(received \cup {s}) = Cardinality(received) + 1
    BY <2>1, FS_AddElement
  <2> QED BY <1>0, <2>2 DEF mark_recvd, ReceiverTypeOK, CountersAgree
<1>3. pkt' \in [Packets -> Chunk \cup {NoChunk}]
  BY <1>0 DEF buffer, ReceiverTypeOK
<1>4. \A t \in received' : pkt'[t] = File[t]
  BY <1>0 DEF buffer, mark_recvd, ReceiverTypeOK, ReceiverInv
<1> QED BY <1>1, <1>2, <1>3, <1>4

-----------------------------------------------------------------------------
(* The receiver: its counter, its base and its buffer agree.                 *)

\* When the counter reaches the size of the file, the whole file is buffered.
LEMMA AllReceived ==
  ASSUME IndInv, tot_received = TotPkts
  PROVE  received = Packets
<1> USE Numbers
<1>0. ReceiverTypeOK /\ CountersAgree
  BY DEF IndInv, TypeOK
<1>1. IsFiniteSet(1..TotPkts) /\ Cardinality(1..TotPkts) = TotPkts
  BY FS_Interval
<1>2. received \in SUBSET (1..TotPkts) /\ Cardinality(received) = TotPkts
  BY <1>0 DEF ReceiverTypeOK, CountersAgree
<1> QED BY <1>1, <1>2, FS_Subset

\* Every step keeps the receiver's counters, base, window and buffer in agreement
\* with the set of packets received, and the written file equal to the file.
LEMMA ReceiverStep ==
  ASSUME IndInv, [Next]_vars
  PROVE  (ReceiverTypeOK /\ CountersAgree /\ ReceiverInv)'
<1> DEFINE Good == ReceiverTypeOK /\ CountersAgree /\ ReceiverInv
<1> USE Numbers
<1>0. ReceiverTypeOK /\ CountersAgree /\ ReceiverInv
  BY DEF IndInv, TypeOK
<1>1. CASE UNCHANGED receiverVars
  BY <1>0, <1>1 DEF receiverVars, ReceiverTypeOK, CountersAgree, ReceiverInv
<1>2. ASSUME NEW s \in Packets, ReceiveOutOfOrder(s)
      PROVE  Good'
  <2>1. /\ s \notin received /\ s # ReceiveBase
        /\ mark_recvd(s) /\ buffer(s)
        /\ UNCHANGED <<ReceiveBase, WindowEnd>>
    BY <1>0, <1>2 DEF ReceiveOutOfOrder, is_fresh, ReceiverTypeOK
  <2>2. received' = received \cup {s}
    BY <2>1 DEF mark_recvd
  <2>3. allocated' = TRUE /\ tot_pkts' = TotPkts /\ TotPkts > 0 /\ UNCHANGED <<receiver, file>>
    BY <1>2, Arrival DEF ReceivePacket
  <2>4. ReceiverTypeOK'
    BY <1>0, <2>1, <2>3, MarkPacket DEF ReceiverTypeOK
  <2>5. CountersAgree'
    BY <1>0, <2>1, <2>2, MarkPacket DEF CountersAgree
  <2>6. ReceiverInv'
    <3>1. receiver = "receiving" /\ file = << >>
      BY <1>0, <1>2, Arrival DEF ReceivePacket, ReceiverInv
    <3> QED BY <1>0, <2>1, <2>3, <3>1, MarkPacket DEF ReceiverInv
  <2> QED BY <2>4, <2>5, <2>6
<1>3. ASSUME NEW s \in Packets, ReceiveExpected(s)
      PROVE  Good'
  <2>1. s = ReceiveBase /\ s \notin received /\ mark_recvd(s) /\ buffer(s) /\ move_window
    BY <1>0, <1>3 DEF ReceiveExpected, CountersAgree
  <2>2. received' = received \cup {s}
    BY <2>1 DEF mark_recvd
  <2>3. allocated' = TRUE /\ tot_pkts' = TotPkts /\ TotPkts > 0 /\ UNCHANGED <<receiver, file>>
    BY <1>3, Arrival DEF ReceivePacket
  <2>4. PICK k \in (ReceiveBase + 1)..(TotPkts + 1) :
             /\ \A j \in ReceiveBase..(k - 1) : j \in received'
             /\ k \notin received'
             /\ ReceiveBase' = k
             /\ WindowEnd' = Min2(k + RECV_WIN, tot_pkts')
    BY <2>1 DEF move_window
  <2>5. ReceiveBase \in 1..(TotPkts + 1)
    BY <1>0 DEF ReceiverTypeOK
  <2>6. ReceiveBase' \in 1..(TotPkts + 1) /\ ReceiveBase' # 1
    BY <2>4, <2>5
  <2>7. WindowEnd' = Min2(ReceiveBase' + RECV_WIN, TotPkts) /\ WindowEnd' \in Nat
    BY <2>3, <2>4, <2>6 DEF Min2
  <2>8. ReceiverTypeOK'
    BY <1>0, <2>1, <2>3, <2>6, <2>7, MarkPacket DEF ReceiverTypeOK
  <2>9. CountersAgree'
    <3>1. \A j \in 1..(ReceiveBase' - 1) : j \in received'
      BY <1>0, <2>2, <2>4, <2>5 DEF CountersAgree
    <3> QED BY <2>1, <2>4, <3>1, MarkPacket DEF CountersAgree
  <2>10. ReceiverInv'
    <3>1. receiver = "receiving" /\ file = << >>
      BY <1>0, <1>3, Arrival DEF ReceivePacket, ReceiverInv
    <3> QED BY <2>1, <2>3, <2>6, <2>7, <3>1, MarkPacket DEF ReceiverInv
  <2> QED BY <2>8, <2>9, <2>10
<1>4. ASSUME NEW s \in Packets, DiscardPacket(s)
      PROVE  Good'
  <2>1. UNCHANGED <<ReceiveBase, WindowEnd, received, tot_received, pkt, receiver, file>>
    BY <1>4 DEF DiscardPacket
  <2>2. allocated' = TRUE /\ tot_pkts' = TotPkts /\ TotPkts > 0 /\ receiver = "receiving"
    BY <1>4, Arrival DEF ReceivePacket
  <2> QED BY <1>0, <2>1, <2>2 DEF ReceiverTypeOK, CountersAgree, ReceiverInv
<1>5. CASE WriteFile
  <2>1. /\ tot_received = tot_pkts /\ receiver' = "junk"
        /\ file' = [s \in 1..tot_pkts |-> pkt[s]]
        /\ UNCHANGED <<ReceiveBase, WindowEnd, tot_pkts, allocated, received,
                       tot_received, pkt>>
    BY <1>5 DEF WriteFile
  <2>2. allocated /\ tot_pkts = TotPkts /\ TotPkts > 0
    <3>1. CASE ~allocated
      <4>1. received = {} /\ tot_pkts = 1 /\ tot_received = Cardinality(received)
        BY <1>0, <3>1 DEF ReceiverInv, CountersAgree
      <4> QED BY <2>1, <4>1, FS_EmptySet
    <3>2. CASE allocated
      BY <1>0, <3>2 DEF ReceiverInv
    <3> QED BY <3>1, <3>2
  <2>3. received = Packets
    BY <2>1, <2>2, AllReceived
  <2>4. file' = File
    <3>1. \A s \in Packets : pkt[s] = File[s]
      BY <1>0, <2>3 DEF ReceiverInv
    <3>2. file' = [s \in Packets |-> File[s]]
      BY <2>1, <2>2, <3>1
    <3> QED BY <3>2
  <2>5. file' \in Seq(Chunk \cup {NoChunk})
    BY <2>4, FileAssumption
  <2>6. ReceiverTypeOK'
    BY <1>0, <2>1, <2>5 DEF ReceiverTypeOK
  <2> QED BY <1>0, <2>1, <2>2, <2>3, <2>4, <2>6 DEF CountersAgree, ReceiverInv
<1>6. CASE JunkTimeout
  BY <1>0, <1>6 DEF JunkTimeout, ReceiverTypeOK, CountersAgree, ReceiverInv
<1>7. CASE MainThread \/ Network \/ TimerExpires \/ StopTransfer \/ StopTimer
  BY <1>1, <1>7 DEF TimerExpires, StopTransfer, StopTimer, MainThread, SendWindow, SendNext, start_timer, LeaveWindow, EndTransmission,
     Network, LoseData, LoseAck, DuplicateData, DuplicateAck
<1>8. ASSUME NEW lost \in BOOLEAN, TimeoutRoutine(lost)
      PROVE  Good'
  BY <1>1, <1>8 DEF TimeoutRoutine
<1>9. ASSUME NEW a \in 1..(TotPkts + 1), AckThread(a)
      PROVE  Good'
  BY <1>1, <1>9 DEF AckThread, ReceiveNewAck, CountDuplicateAck, FastRetransmit, receiverVars
<1>10. ASSUME NEW s \in Packets, ClearJunk(s)
       PROVE  Good'
  BY <1>1, <1>10 DEF ClearJunk
<1> QED
  BY <1>1, <1>2, <1>3, <1>4, <1>5, <1>6, <1>7, <1>8, <1>9, <1>10
  DEF Next, ReceivePacket, vars

-----------------------------------------------------------------------------
(* The two windows and what is in flight between them.                       *)

\* A packet put into the network lies in the transmission window.
LEMMA PutInWindow ==
  ASSUME IndInv, NEW s, NEW lost, send_packet(s, lost),
         s \in Packets => s <= SendWindowEnd, UNCHANGED SendBase
  PROVE  \A t \in Packets : dataNet'[t] > 0 => t <= SendWindowEnd'
<1>1. SenderTypeOK /\ NetworkTypeOK /\ NetworkInv
  BY DEF IndInv, TypeOK
<1>2. SendWindowEnd' = SendWindowEnd
  BY DEF SendWindowEnd
<1> QED BY <1>1, <1>2, SendPacket DEF NetworkInv

\* Every step keeps SendBase and the acknowledgements in flight behind
\* ReceiveBase, and the packets in flight inside the transmission window.
LEMMA NetworkStep ==
  ASSUME IndInv, [Next]_vars
  PROVE  NetworkInv'
<1> USE Numbers
<1>0. SenderTypeOK /\ NetworkTypeOK /\ ReceiverTypeOK /\ CountersAgree /\ NetworkInv
  BY DEF IndInv, TypeOK
<1>1. ASSUME UNCHANGED <<SendBase, ReceiveBase>>,
             \A s \in Packets : dataNet'[s] > 0 => dataNet[s] > 0,
             \A a \in DOMAIN ackNet' : ackNet'[a] > 0 => ackNet[a] > 0 \/ a = ReceiveBase,
             DOMAIN ackNet' = DOMAIN ackNet
      PROVE  NetworkInv'
  BY <1>0, <1>1 DEF NetworkInv, SendWindowEnd, ReceiverTypeOK, NetworkTypeOK
<1>2. CASE UNCHANGED <<SendBase, ReceiveBase, dataNet, ackNet>>
  BY <1>1, <1>2
<1>3. ASSUME NEW lost \in BOOLEAN, SendNext(lost)
      PROVE  NetworkInv'
  <2>1. /\ send_packet(NextSeqNum, lost) /\ NextSeqNum <= SendWindowEnd
        /\ UNCHANGED <<SendBase, ReceiveBase, ackNet>>
    BY <1>3 DEF SendNext, start_timer, receiverVars
  <2> QED BY <1>0, <2>1, PutInWindow DEF NetworkInv
<1>4. ASSUME NEW lost \in BOOLEAN, send_packet(SendBase, lost),
             UNCHANGED <<SendBase, ReceiveBase>>,
             \A a \in DOMAIN ackNet' : ackNet'[a] > 0 => ackNet[a] > 0,
             DOMAIN ackNet' = DOMAIN ackNet
      PROVE  NetworkInv'
  <2>1. SendBase \in Packets => SendBase <= SendWindowEnd
    BY <1>0, SendWindowEndBounds DEF SenderTypeOK
  <2>2. \A t \in Packets : dataNet'[t] > 0 => t <= SendWindowEnd'
    BY <1>4, <2>1, PutInWindow
  <2> QED BY <1>0, <1>4, <2>2 DEF NetworkInv
<1>5. ASSUME NEW lost \in BOOLEAN, TimeoutRoutine(lost)
      PROVE  NetworkInv'
  BY <1>4, <1>5 DEF TimeoutRoutine, retransmission, receiverVars
<1>6. ASSUME NEW a \in 1..(TotPkts + 1), AckThread(a)
      PROVE  NetworkInv'
  <2>1. ackNet[a] > 0 /\ ackNet' = [ackNet EXCEPT ![a] = ackNet[a] - 1]
        /\ UNCHANGED ReceiveBase
    BY <1>6 DEF AckThread, ReceiveNewAck, CountDuplicateAck, FastRetransmit, receiverVars
  <2>2. DOMAIN ackNet' = DOMAIN ackNet
    BY <2>1
  <2>3. \A b \in DOMAIN ackNet' : ackNet'[b] > 0 => ackNet[b] > 0
    BY <1>0, <2>1 DEF NetworkTypeOK
  <2>4. CASE ReceiveNewAck(a)
    <3>1. SendBase' = a /\ a > SendBase /\ UNCHANGED dataNet /\ a <= ReceiveBase
      BY <1>0, <2>1, <2>4 DEF ReceiveNewAck, NetworkInv, NetworkTypeOK
    <3>2. SendWindowEnd <= SendWindowEnd'
      BY <1>0, <3>1 DEF SendWindowEnd, Min2, SenderTypeOK
    <3>3. SendWindowEnd \in Int /\ SendWindowEnd' \in Int
      BY <1>0, <3>1 DEF SendWindowEnd, Min2, SenderTypeOK
    <3>4. \A s \in Packets : dataNet'[s] > 0 => s <= SendWindowEnd'
      BY <1>0, <3>1, <3>2, <3>3 DEF NetworkInv
    <3> QED BY <1>0, <2>1, <2>2, <2>3, <3>1, <3>4 DEF NetworkInv
  <2>5. CASE CountDuplicateAck(a)
    BY <1>1, <2>1, <2>2, <2>3, <2>5 DEF CountDuplicateAck
  <2>6. ASSUME NEW lost \in BOOLEAN, FastRetransmit(a, lost)
        PROVE  NetworkInv'
    BY <1>4, <2>1, <2>2, <2>3, <2>6 DEF FastRetransmit, retransmission
  <2> QED BY <1>6, <2>4, <2>5, <2>6 DEF AckThread
<1>7. ASSUME NEW s \in Packets, ReceivePacket(s)
      PROVE  NetworkInv'
  <2>1. UNCHANGED SendBase /\ dataNet[s] > 0 /\ dataNet' = [dataNet EXCEPT ![s] = dataNet[s] - 1]
    BY <1>7, Arrival DEF senderVars, ReceivePacket, ReceiveOutOfOrder, ReceiveExpected,
       DiscardPacket, TakePacket
  <2>2. ReceiveBase <= ReceiveBase' /\ send_cumulative_ack(ReceiveBase')
    BY <1>0, <1>7 DEF ReceivePacket, ReceiveOutOfOrder, ReceiveExpected, DiscardPacket,
       move_window, ReceiverTypeOK
  <2>3. ReceiveBase' \in Nat
    BY <1>7, ReceiverStep DEF Next, ReceiverTypeOK
  <2>4. \A t \in Packets : dataNet'[t] > 0 => dataNet[t] > 0
    BY <1>0, <2>1 DEF NetworkTypeOK
  <2>5. /\ DOMAIN ackNet' = DOMAIN ackNet
        /\ \A a \in DOMAIN ackNet : ackNet'[a] > 0 => ackNet[a] > 0 \/ a = ReceiveBase'
    BY <1>0, <2>2 DEF NetworkTypeOK, send_cumulative_ack
  <2>6. \A a \in DOMAIN ackNet' : ackNet'[a] > 0 => a <= ReceiveBase'
    BY <1>0, <2>2, <2>3, <2>5 DEF NetworkInv, NetworkTypeOK, ReceiverTypeOK
  <2>7. SendBase' <= ReceiveBase'
    BY <1>0, <2>1, <2>2, <2>3 DEF NetworkInv, SenderTypeOK, ReceiverTypeOK
  <2> QED BY <1>0, <2>1, <2>4, <2>6, <2>7 DEF NetworkInv, SendWindowEnd
<1>8. ASSUME NEW s \in Packets, ClearJunk(s) \/ LoseData(s) \/ DuplicateData(s)
      PROVE  NetworkInv'
  <2>1. UNCHANGED <<SendBase, ReceiveBase, ackNet>> /\ dataNet[s] > 0
        /\ \E c : dataNet' = [dataNet EXCEPT ![s] = c]
    BY <1>0, <1>8 DEF ClearJunk, LoseData, DuplicateData, senderVars, receiverVars, NetworkTypeOK
  <2>2. \A t \in Packets : dataNet'[t] > 0 => dataNet[t] > 0
    BY <1>0, <2>1 DEF NetworkTypeOK
  <2> QED BY <1>1, <2>1, <2>2
<1>9. ASSUME NEW a \in 1..(TotPkts + 1), LoseAck(a) \/ DuplicateAck(a)
      PROVE  NetworkInv'
  <2>1. UNCHANGED <<SendBase, ReceiveBase, dataNet>> /\ ackNet[a] > 0
        /\ \E c : ackNet' = [ackNet EXCEPT ![a] = c]
    BY <1>0, <1>9 DEF LoseAck, DuplicateAck, senderVars, receiverVars, NetworkTypeOK
  <2>2. /\ DOMAIN ackNet' = DOMAIN ackNet
        /\ \A b \in DOMAIN ackNet' : ackNet'[b] > 0 => ackNet[b] > 0
    BY <1>0, <2>1 DEF NetworkTypeOK
  <2> QED BY <1>1, <2>1, <2>2
<1>10. CASE \/ SendWindow \/ LeaveWindow \/ EndTransmission \/ WriteFile \/ JunkTimeout
            \/ TimerExpires \/ StopTransfer \/ StopTimer
  BY <1>2, <1>10 DEF SendWindow, LeaveWindow, EndTransmission, WriteFile, JunkTimeout,
     TimerExpires, StopTransfer, StopTimer, senderVars, receiverVars
<1> QED
  BY <1>2, <1>3, <1>5, <1>6, <1>7, <1>8, <1>9, <1>10
  DEF Next, MainThread, Network, vars, senderVars, receiverVars

-----------------------------------------------------------------------------
(* The timer, and the end of the transfer on the sender's side.              *)

\* Whatever is in flight, the timer has been started for it.
LEMMA InFlightStarted ==
  ASSUME IndInv
  PROVE  /\ \A s \in Packets : dataNet[s] > 0 => isTimerStarted
         /\ \A a \in DOMAIN ackNet : ackNet[a] > 0 => isTimerStarted
BY Numbers DEF IndInv, SenderInv

\* Every step keeps the timer, its flag, fileTransfer and the acknowledgement
\* thread in agreement with how far SendBase has come.
LEMMA SenderStep ==
  ASSUME IndInv, [Next]_vars
  PROVE  SenderInv'
<1> USE Numbers
<1>0. SenderTypeOK /\ NetworkTypeOK /\ SenderInv
  BY DEF IndInv, TypeOK
<1>1. CASE UNCHANGED <<senderVars, dataNet, ackNet>>
  BY <1>0, <1>1 DEF SenderInv, senderVars
<1>2. ASSUME UNCHANGED senderVars, isTimerStarted
      PROVE  SenderInv'
  BY <1>0, <1>2 DEF SenderInv, senderVars
<1>3. CASE SendWindow \/ LeaveWindow
  BY <1>0, <1>3 DEF SendWindow, LeaveWindow, SenderInv
<1>4. CASE EndTransmission
  BY <1>0, <1>4 DEF EndTransmission, SenderInv
<1>5. ASSUME NEW lost \in BOOLEAN, SendNext(lost)
      PROVE  SenderInv'
  <2>1. TotPkts > 0
    BY <1>0, <1>5, SendWindowEndBounds DEF SendNext, start_timer, SenderTypeOK
  <2>2. /\ isTimerStarted' = TRUE
        /\ timerArmed' = IF isTimerStarted THEN timerArmed ELSE TRUE
        /\ UNCHANGED <<SendBase, fileTransfer, ackThread, sender>>
    BY <1>5 DEF SendNext, start_timer
  <2>3. UNCHANGED sigalrm
    BY <1>5 DEF SendNext
  <2>4. fileTransfer => timerArmed' \/ sigalrm'
    <3>1. CASE isTimerStarted
      BY <1>0, <2>2, <2>3, <3>1 DEF SenderInv
    <3>2. CASE ~isTimerStarted
      BY <2>2, <3>2
    <3> QED BY <3>1, <3>2
  <2> QED BY <1>0, <2>1, <2>2, <2>3, <2>4 DEF SenderInv
<1>6. ASSUME NEW lost \in BOOLEAN, TimeoutRoutine(lost)
      PROVE  SenderInv'
  BY <1>0, <1>6 DEF TimeoutRoutine, retransmission, SenderInv
<1>11. CASE TimerExpires \/ StopTransfer \/ StopTimer
  BY <1>0, <1>11 DEF TimerExpires, StopTransfer, StopTimer, SenderInv
<1>7. ASSUME NEW a \in 1..(TotPkts + 1), AckThread(a)
      PROVE  SenderInv'
  <2>1. ackNet[a] > 0 /\ a \in DOMAIN ackNet
    BY <1>0, <1>7 DEF AckThread, ReceiveNewAck, CountDuplicateAck, FastRetransmit, NetworkTypeOK
  <2>2. isTimerStarted
    BY <2>1, InFlightStarted
  <2>3. CASE ReceiveNewAck(a)
    <3>1. /\ SendBase' = a /\ tot_acked' = a - 1
          /\ ackThread = "running" /\ ackThread' \in {"running", "acked"}
          /\ UNCHANGED <<fileTransfer, timerArmed, sigalrm, isTimerStarted, sender>>
      BY <1>0, <2>3 DEF ReceiveNewAck, cumulative_ack, SenderInv
    <3>2. TotPkts > 0 /\ fileTransfer /\ sender # "ended"
      BY <1>0, <2>2, <3>1 DEF SenderInv
    <3>3. ackThread' = "running" <=> SendBase' <= TotPkts
      <4>1. ackThread' = IF tot_acked' = TotPkts THEN "acked" ELSE "running"
        BY <2>3 DEF ReceiveNewAck
      <4> QED BY <3>1, <4>1
    <3> QED BY <1>0, <2>2, <3>1, <3>2, <3>3 DEF SenderInv
  <2>4. CASE CountDuplicateAck(a)
    BY <1>0, <2>2, <2>4 DEF CountDuplicateAck, SenderInv
  <2>5. ASSUME NEW lost \in BOOLEAN, FastRetransmit(a, lost)
        PROVE  SenderInv'
    BY <1>0, <2>2, <2>5 DEF FastRetransmit, retransmission, SenderInv
  <2> QED BY <1>7, <2>3, <2>4, <2>5 DEF AckThread
<1>8. ASSUME NEW s \in Packets, ReceivePacket(s) \/ ClearJunk(s) \/ LoseData(s) \/ DuplicateData(s)
      PROVE  SenderInv'
  <2>1. dataNet[s] > 0 /\ UNCHANGED senderVars
    BY <1>0, <1>8 DEF ReceivePacket, ReceiveOutOfOrder, ReceiveExpected, DiscardPacket,
       TakePacket, ClearJunk, LoseData, DuplicateData, NetworkTypeOK
  <2> QED BY <1>2, <2>1, InFlightStarted
<1>9. ASSUME NEW a \in 1..(TotPkts + 1), LoseAck(a) \/ DuplicateAck(a)
      PROVE  SenderInv'
  <2>1. ackNet[a] > 0 /\ UNCHANGED senderVars /\ a \in DOMAIN ackNet
    BY <1>0, <1>9 DEF LoseAck, DuplicateAck, NetworkTypeOK
  <2> QED BY <1>2, <2>1, InFlightStarted
<1>10. CASE WriteFile \/ JunkTimeout
  BY <1>1, <1>10 DEF WriteFile, JunkTimeout
<1> QED
  BY <1>1, <1>3, <1>4, <1>5, <1>6, <1>7, <1>8, <1>9, <1>10, <1>11
  DEF Next, MainThread, Network, vars

-----------------------------------------------------------------------------
(* The theorems.                                                             *)

\* The invariant of the transfer is inductive: it holds for every file, every
\* pair of windows and every behaviour of the network.
THEOREM Invariant == Spec => []IndInv
<1>1. ASSUME IndInv, [Next]_vars PROVE IndInv'
  BY <1>1, SenderTypes, NetworkTypes, ReceiverStep, NetworkStep, SenderStep
  DEF IndInv, TypeOK
<1> QED BY <1>1, InitIndInv, PTL DEF Spec

\* The sequence numbers, the counters and the arrays of both sides stay in the
\* file.
THEOREM TypeCorrect == Spec => []TypeOK
<1>1. IndInv => TypeOK
  BY DEF IndInv
<1> QED BY <1>1, Invariant, PTL

\* The receiver's loop, which stops on a counter, stops on a complete file.
THEOREM CountersCorrect == Spec => []CountersAgree
<1>1. IndInv => CountersAgree
  BY DEF IndInv
<1> QED BY <1>1, Invariant, PTL

\* What is acknowledged is buffered, with its content.
THEOREM AckedCorrect == Spec => []AckedIsBuffered
<1>1. ASSUME IndInv PROVE AckedIsBuffered
  <2> SUFFICES ASSUME NEW s \in Packets, s < SendBase
               PROVE  s \in received /\ pkt[s] = File[s]
    BY DEF AckedIsBuffered
  <2>1. s \in 1..(ReceiveBase - 1)
    BY <1>1, Numbers DEF IndInv, TypeOK, SenderTypeOK, ReceiverTypeOK, NetworkInv
  <2> QED BY <1>1, <2>1 DEF IndInv, CountersAgree, ReceiverInv
<1> QED BY <1>1, Invariant, PTL

\* A transmission window no wider than the reception window never sends a
\* packet the receiver must throw away for want of room.
THEOREM WindowsFit == Spec => []NoFreshPacketDiscarded
<1>1. ASSUME IndInv PROVE NoFreshPacketDiscarded
  <2> SUFFICES ASSUME TRAN_WIN <= RECV_WIN, NEW s \in Packets, dataNet[s] > 0
               PROVE  s <= WindowEnd
    BY DEF NoFreshPacketDiscarded
  <2>1. s <= TotPkts /\ s <= SendBase + TRAN_WIN - 1 /\ SendBase <= ReceiveBase
    BY <1>1, Numbers, SendWindowEndBounds DEF IndInv, TypeOK, SenderTypeOK, NetworkInv
  <2>2. SendBase \in Nat /\ ReceiveBase \in Nat /\ ReceiveBase >= 1
    BY <1>1, Numbers DEF IndInv, TypeOK, SenderTypeOK, ReceiverTypeOK
  <2>3. WindowEnd = IF ReceiveBase = 1 THEN RECV_WIN ELSE Min2(ReceiveBase + RECV_WIN, TotPkts)
    BY <1>1 DEF IndInv, ReceiverInv
  <2> QED BY <2>1, <2>2, <2>3, Numbers DEF Min2
<1> QED BY <1>1, Invariant, PTL

\* A packet outstanding is covered by a running timer, or by its signal.
THEOREM TimerCorrect == Spec => []TimerCovers
<1>1. ASSUME IndInv PROVE TimerCovers
  <2> SUFFICES ASSUME fileTransfer, SendBase < NextSeqNum PROVE timerArmed \/ sigalrm
    BY DEF TimerCovers
  <2>1. isTimerStarted
    BY <1>1 DEF IndInv, SenderInv
  <2> QED BY <1>1, <2>1 DEF IndInv, SenderInv
<1> QED BY <1>1, Invariant, PTL

\* The transfer implements FileDelivery: the file is written once, whole and in
\* order, and the sender reports the end only when the receiver holds it all.
THEOREM Refinement == Spec => Implements
<1> DEFINE Held == allocated /\ tot_received = tot_pkts
<1> USE Numbers
<1>1. Init => Delivery!Init
  BY DEF Init, Delivery!Init
<1>2. ASSUME IndInv, IndInv', [Next]_vars PROVE [Delivery!Next]_(Delivery!vars)
  <2>0. ReceiverInv /\ SenderInv /\ ReceiverTypeOK /\ CountersAgree
    BY <1>2 DEF IndInv, TypeOK
  <2>1. CASE UNCHANGED <<allocated, tot_pkts, tot_received, receiver, file, sender>>
    BY <2>1 DEF Delivery!vars
  <2>2. ASSUME NEW s \in Packets, ReceivePacket(s)
        PROVE  [Delivery!Next]_(Delivery!vars)
    <3>1. receiver = "receiving" /\ UNCHANGED <<receiver, file, sender>> /\ ~Held
      BY <2>2, Arrival, <1>2 DEF senderVars, ReceivePacket, ReceiveOutOfOrder,
         ReceiveExpected, DiscardPacket, TakePacket
    <3>2. CASE Held'
      BY <3>1, <3>2 DEF Delivery!Next, Delivery!Complete
    <3>3. CASE ~Held'
      BY <3>1, <3>3 DEF Delivery!vars
    <3> QED BY <3>2, <3>3
  <2>3. CASE WriteFile
    <3>1. receiver = "receiving" /\ receiver' = "junk" /\ tot_received = tot_pkts
          /\ UNCHANGED sender
      BY <2>3 DEF WriteFile, senderVars
    <3>2. allocated
      <4>1. ~allocated => tot_pkts = 1 /\ tot_received = 0
        BY <2>0, FS_EmptySet DEF ReceiverInv, CountersAgree
      <4> QED BY <3>1, <4>1
    <3>3. file' = File
      BY <1>2, <3>1 DEF IndInv, ReceiverInv
    <3> QED BY <3>1, <3>2, <3>3 DEF Delivery!Next, Delivery!Write
  <2>4. CASE JunkTimeout
    <3>1. receiver = "junk" /\ receiver' = "returned" /\ UNCHANGED <<file, sender>>
      BY <2>4 DEF JunkTimeout, senderVars
    <3> QED BY <3>1 DEF Delivery!vars
  <2>5. CASE EndTransmission
    <3>1. /\ sender = "loop" /\ sender' = "ended" /\ ~fileTransfer
          /\ UNCHANGED <<allocated, tot_pkts, tot_received, receiver, file>>
      BY <2>5 DEF EndTransmission, receiverVars
    <3>2. receiver = "receiving" => Held
      <4>1. SendBase = TotPkts + 1 /\ TotPkts > 0
        BY <1>2, <2>0, <3>1 DEF SenderInv, IndInv, TypeOK, SenderTypeOK
      <4>2. ReceiveBase = TotPkts + 1
        BY <1>2, <2>0, <4>1 DEF IndInv, NetworkInv, ReceiverTypeOK
      <4>3. received = Packets
        <5>1. \A s \in Packets : s \in 1..(ReceiveBase - 1)
          BY <4>2
        <5> QED BY <2>0, <5>1 DEF CountersAgree, ReceiverTypeOK
      <4>4. tot_received = TotPkts
        BY <2>0, <4>3, FS_Interval DEF CountersAgree
      <4>5. allocated
        BY <2>0, <4>1, <4>3 DEF ReceiverInv
      <4> QED BY <2>0, <4>4, <4>5 DEF ReceiverInv
    <3> QED BY <3>1, <3>2 DEF Delivery!Next, Delivery!Report
  <2>6. ASSUME NEW lost \in BOOLEAN,
               SendWindow \/ LeaveWindow \/ SendNext(lost) \/ TimeoutRoutine(lost)
        PROVE  [Delivery!Next]_(Delivery!vars)
    <3>1. CASE SendWindow \/ LeaveWindow
      <4>1. /\ UNCHANGED <<allocated, tot_pkts, tot_received, receiver, file>>
            /\ sender # "ended" /\ sender' # "ended"
        BY <3>1 DEF SendWindow, LeaveWindow, receiverVars
      <4> QED BY <4>1 DEF Delivery!vars
    <3>2. CASE SendNext(lost) \/ TimeoutRoutine(lost)
      BY <2>1, <3>2 DEF SendNext, start_timer, TimeoutRoutine, receiverVars
    <3> QED BY <2>6, <3>1, <3>2
  <2>7. ASSUME NEW a \in 1..(TotPkts + 1), AckThread(a)
        PROVE  [Delivery!Next]_(Delivery!vars)
    BY <2>1, <2>7 DEF AckThread, ReceiveNewAck, CountDuplicateAck, FastRetransmit, receiverVars
  <2>8. ASSUME NEW s \in Packets, ClearJunk(s)
        PROVE  [Delivery!Next]_(Delivery!vars)
    BY <2>1, <2>8 DEF ClearJunk, senderVars, receiverVars
  <2>9. CASE Network
    BY <2>1, <2>9 DEF Network, LoseData, LoseAck, DuplicateData, DuplicateAck,
       senderVars, receiverVars
  <2>10. CASE TimerExpires \/ StopTransfer \/ StopTimer
    BY <2>1, <2>10 DEF TimerExpires, StopTransfer, StopTimer, receiverVars
  <2> QED
    BY <1>2, <2>1, <2>2, <2>3, <2>4, <2>5, <2>6, <2>7, <2>8, <2>9, <2>10
    DEF Next, MainThread, vars, senderVars, receiverVars
<1> QED BY <1>1, <1>2, Invariant, PTL DEF Spec, Delivery!Spec, Implements
=============================================================================
