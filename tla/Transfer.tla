------------------------------ MODULE Transfer ------------------------------
(***************************************************************************)
(* One file transfer between sender() (src/lib/sender.c) and receiver()    *)
(* (src/lib/receiver.c), two processes that share nothing but two UDP      *)
(* sockets.  The sender runs two threads and a signal handler, the         *)
(* receiver one thread; here every iteration of their loops and every run  *)
(* of the handler is one step (module SenderThreads opens them up).        *)
(*                                                                         *)
(* An acknowledgement n says: every packet below n has arrived, n is the   *)
(* one expected (src/lib/sender.c:29).  Packet numbers count from 1; the   *)
(* arrays of the code count from 0, so index i is packet i + 1.            *)
(***************************************************************************)
EXTENDS Integers, Sequences, FiniteSets

CONSTANTS
  Chunk,        \* the contents a packet can carry
  NoChunk,      \* a buffer that calloc has zeroed
  File,         \* the file sent: File[s] is the content of packet s
  TRAN_WIN,     \* transmission window, in packets
  RECV_WIN,     \* reception window, in packets
  MaxCopies,    \* bound: copies of one datagram in flight at a time
  NetFaults     \* what the network does besides reordering

ASSUME FileAssumption == File \in Seq(Chunk) /\ NoChunk \notin Chunk
ASSUME WindowAssumption == TRAN_WIN \in Nat \ {0} /\ RECV_WIN \in Nat \ {0}
ASSUME CopiesAssumption == MaxCopies \in Nat \ {0}
ASSUME FaultAssumption == 
  NetFaults \subseteq {"loseData", "loseAck", "loseLastAck", "duplicate"}

TotPkts == Len(File)
Packets == 1..TotPkts

VARIABLES
  \* the sending process
  SendBase,             \* oldest packet not acknowledged
  NextSeqNum,           \* next packet the main thread sends for the first time
  check_pkt,            \* 0 to send, 1 sent, 2 acknowledged
  tot_acked,            \* packets acknowledged so far
  duplicate_ack_count,  \* local of the acknowledgement thread
  fileTransfer,         \* cleared by the acknowledgement thread at the end
  isTimerStarted,       \* what the program believes of its timer
  timerArmed,           \* whether the interval timer is running
  sigalrm,              \* the timer has expired, its handler has not run yet
  sender,               \* main thread: "loop", "window" (in send_window), "ended"
  ackThread,            \* "running"; the whole file acknowledged: "acked",
                        \* "stopping" (fileTransfer cleared), "ended"
  \* the network: copies in flight, unordered
  dataNet,              \* of each packet
  ackNet,               \* of each acknowledgement
  \* the receiving process
  ReceiveBase,          \* next packet expected in order
  WindowEnd,            \* last packet accepted out of order
  tot_pkts,             \* size of the file as the receiver knows it
  allocated,            \* buffers allocated (on the first packet)
  received,             \* the packets s with check_pkt_received[s-1] = 1
  tot_received,         \* counter the receiver's loop ends on
  pkt,                  \* the buffered contents
  receiver,             \* "receiving", "junk" (in clear_junk), "returned"
  file                  \* what has been written to the descriptor

senderVars == <<SendBase, NextSeqNum, check_pkt, tot_acked, duplicate_ack_count,
                fileTransfer, isTimerStarted, timerArmed, sigalrm, sender, ackThread>>
receiverVars == <<ReceiveBase, WindowEnd, tot_pkts, allocated, received,
                  tot_received, pkt, receiver, file>>
vars == <<senderVars, dataNet, ackNet, receiverVars>>

-----------------------------------------------------------------------------
(* The network.  A copy more than MaxCopies of the same datagram is dropped, *)
(* as a full socket buffer would.                                            *)

Put(copies) == IF copies < MaxCopies THEN copies + 1 ELSE copies

LoseData(s) ==
  /\ "loseData" \in NetFaults
  /\ dataNet[s] > 0
  /\ dataNet' = [dataNet EXCEPT ![s] = @ - 1]
  /\ UNCHANGED <<senderVars, ackNet, receiverVars>>

\* The acknowledgement of the whole file is sent once: a fault of its own.
LoseAck(a) ==
  /\ (IF a <= TotPkts THEN "loseAck" ELSE "loseLastAck") \in NetFaults
  /\ ackNet[a] > 0
  /\ ackNet' = [ackNet EXCEPT ![a] = @ - 1]
  /\ UNCHANGED <<senderVars, dataNet, receiverVars>>

DuplicateData(s) ==
  /\ "duplicate" \in NetFaults
  /\ dataNet[s] \in 1..(MaxCopies - 1)
  /\ dataNet' = [dataNet EXCEPT ![s] = @ + 1]
  /\ UNCHANGED <<senderVars, ackNet, receiverVars>>

DuplicateAck(a) ==
  /\ "duplicate" \in NetFaults
  /\ ackNet[a] \in 1..(MaxCopies - 1)
  /\ ackNet' = [ackNet EXCEPT ![a] = @ + 1]
  /\ UNCHANGED <<senderVars, dataNet, receiverVars>>

-----------------------------------------------------------------------------
(* The sender.                                                               *)

Min2(a, b) == IF a < b THEN a ELSE b

\* Mutant of SendWindowEnd: one packet too many.
SendWindowEnd_wide == Min2(TotPkts, SendBase + TRAN_WIN)

\* WindowEnd of the sender, recomputed from SendBase wherever it is used.
SendWindowEnd == Min2(TotPkts, SendBase + TRAN_WIN - 1)

\* send_packet(s - 1): marks the packet, then drops it on purpose (`lost') or
\* hands it to the socket; a failed sendto loses it just the same.  Beyond the
\* file (a SIGALRM after the last acknowledgement) it sends no packet of it, and
\* the receiver, whose loop is over by then, never looks at what it gets; what
\* the access beyond the arrays does to the sender is not modelled.
send_packet(s, lost) ==
  \/ /\ s \in Packets
     /\ check_pkt' = [check_pkt EXCEPT ![s] = IF @ = 0 THEN 1 ELSE @]
     /\ dataNet' = IF lost THEN dataNet ELSE [dataNet EXCEPT ![s] = Put(@)]
  \/ /\ s \notin Packets
     /\ UNCHANGED <<check_pkt, dataNet>>

\* while (fileTransfer) send_window(...): enters the function.
SendWindow ==
  /\ sender = "loop"
  /\ fileTransfer
  /\ sender' = "window"
  /\ UNCHANGED <<SendBase, NextSeqNum, check_pkt, tot_acked, duplicate_ack_count,
                 fileTransfer, isTimerStarted, timerArmed, sigalrm, ackThread,
                 dataNet, ackNet, receiverVars>>

\* Mutant of start_timer: believes the timer started without starting it.
start_timer_flag == isTimerStarted' = TRUE /\ UNCHANGED timerArmed

\* if (!isTimerStarted): the timer of the oldest packet in flight.
start_timer ==
  /\ timerArmed' = IF isTimerStarted THEN timerArmed ELSE TRUE
  /\ isTimerStarted' = TRUE

\* One iteration of the loop of send_window. It does not look at fileTransfer.
SendNext(lost) ==
  /\ sender = "window"
  /\ NextSeqNum <= SendWindowEnd
  /\ start_timer
  /\ send_packet(NextSeqNum, lost)
  /\ NextSeqNum' = NextSeqNum + 1
  /\ UNCHANGED <<SendBase, tot_acked, duplicate_ack_count, fileTransfer, sigalrm,
                 sender, ackThread, ackNet, receiverVars>>

\* The window is full: send_window returns to the loop of sender.
LeaveWindow ==
  /\ sender = "window"
  /\ NextSeqNum > SendWindowEnd
  /\ sender' = "loop"
  /\ UNCHANGED <<SendBase, NextSeqNum, check_pkt, tot_acked, duplicate_ack_count,
                 fileTransfer, isTimerStarted, timerArmed, sigalrm, ackThread,
                 dataNet, ackNet, receiverVars>>

\* sender leaves its loop, runs end_transmission and returns.
EndTransmission ==
  /\ sender = "loop"
  /\ ~fileTransfer
  /\ sender' = "ended"
  /\ timerArmed' = FALSE
  /\ UNCHANGED <<SendBase, NextSeqNum, check_pkt, tot_acked, duplicate_ack_count,
                 fileTransfer, isTimerStarted, sigalrm, ackThread,
                 dataNet, ackNet, receiverVars>>

\* Mutant of retransmission: the one-shot timer is not started again.
retransmission_once(lost) ==
  /\ send_packet(SendBase, lost)
  /\ timerArmed' = FALSE
  /\ isTimerStarted' = TRUE

\* retransmission(SendBase - 1, ...): sends the oldest unacknowledged packet
\* again, or for the first time when the main thread has not come to it yet.
retransmission(lost) ==
  /\ send_packet(SendBase, lost)
  /\ timerArmed' = TRUE
  /\ isTimerStarted' = TRUE

\* The one-shot timer expires: SIGALRM is raised.
TimerExpires ==
  /\ timerArmed
  /\ timerArmed' = FALSE
  /\ sigalrm' = TRUE
  /\ UNCHANGED <<SendBase, NextSeqNum, check_pkt, tot_acked, duplicate_ack_count,
                 fileTransfer, isTimerStarted, sender, ackThread,
                 dataNet, ackNet, receiverVars>>

\* timeout_routine runs, at any moment after SIGALRM: an acknowledgement may have
\* moved SendBase in between, and set_timer(0) does not take the signal back.
TimeoutRoutine(lost) ==
  /\ sigalrm
  /\ sigalrm' = FALSE
  /\ retransmission(lost)
  /\ UNCHANGED <<SendBase, NextSeqNum, tot_acked, duplicate_ack_count, fileTransfer,
                 sender, ackThread, ackNet, receiverVars>>

\* Mutant of cumulative_ack: counts the packet expected as acknowledged.
cumulative_ack_inclusive(base, received_ack) ==
  /\ tot_acked' = received_ack
  /\ check_pkt' = [s \in Packets |->
                     IF s \in base..(received_ack - 1) THEN 2 ELSE check_pkt[s]]

\* cumulative_ack(received_ack) runs when SendBase is already received_ack: its
\* loop goes from SendBase - 1 to received_ack - 2.
cumulative_ack(base, received_ack) ==
  /\ tot_acked' = received_ack - 1
  /\ check_pkt' = [s \in Packets |->
                     IF s \in base..(received_ack - 1) THEN 2 ELSE check_pkt[s]]

\* receive_ack: an acknowledgement that moves the window.
ReceiveNewAck(a) ==
  /\ ackThread = "running"
  /\ ackNet[a] > 0
  /\ a > SendBase
  /\ ackNet' = [ackNet EXCEPT ![a] = @ - 1]
  /\ SendBase' = a
  /\ duplicate_ack_count' = 1
  /\ cumulative_ack(SendBase', a)
  /\ ackThread' = IF tot_acked' = TotPkts THEN "acked" ELSE "running"
  /\ UNCHANGED <<NextSeqNum, fileTransfer, isTimerStarted, timerArmed, sigalrm, sender,
                 dataNet, receiverVars>>

\* The whole file is acknowledged: fileTransfer = false.
StopTransfer ==
  /\ ackThread = "acked"
  /\ ackThread' = "stopping"
  /\ fileTransfer' = FALSE
  /\ UNCHANGED <<SendBase, NextSeqNum, check_pkt, tot_acked, duplicate_ack_count,
                 isTimerStarted, timerArmed, sigalrm, sender, dataNet, ackNet,
                 receiverVars>>

\* set_timer(0), and the end of the acknowledgement thread.
StopTimer ==
  /\ ackThread = "stopping"
  /\ ackThread' = "ended"
  /\ timerArmed' = FALSE
  /\ UNCHANGED <<SendBase, NextSeqNum, check_pkt, tot_acked, duplicate_ack_count,
                 fileTransfer, isTimerStarted, sigalrm, sender, dataNet, ackNet,
                 receiverVars>>

\* receive_ack: any other acknowledgement counts as a duplicate.
CountDuplicateAck(a) ==
  /\ ackThread = "running"
  /\ ackNet[a] > 0
  /\ a <= SendBase
  /\ duplicate_ack_count + 1 < 3
  /\ ackNet' = [ackNet EXCEPT ![a] = @ - 1]
  /\ duplicate_ack_count' = duplicate_ack_count + 1
  /\ UNCHANGED <<SendBase, NextSeqNum, check_pkt, tot_acked, fileTransfer,
                 isTimerStarted, timerArmed, sigalrm, sender, ackThread, dataNet,
                 receiverVars>>

\* receive_ack: the count reaches three, fast retransmission.
FastRetransmit(a, lost) ==
  /\ ackThread = "running"
  /\ ackNet[a] > 0
  /\ a <= SendBase
  /\ duplicate_ack_count + 1 = 3
  /\ ackNet' = [ackNet EXCEPT ![a] = @ - 1]
  /\ duplicate_ack_count' = 1
  /\ retransmission(lost)
  /\ UNCHANGED <<SendBase, NextSeqNum, tot_acked, fileTransfer, sigalrm, sender,
                 ackThread, receiverVars>>

-----------------------------------------------------------------------------
(* The receiver.                                                             *)

\* recvfrom in the loop of receiver; the first packet allocates the buffers.
TakePacket(s) ==
  /\ receiver = "receiving"
  /\ tot_received # tot_pkts
  /\ dataNet[s] > 0
  /\ dataNet' = [dataNet EXCEPT ![s] = @ - 1]
  /\ tot_pkts' = IF allocated THEN tot_pkts ELSE TotPkts
  /\ allocated' = TRUE

mark_recvd(s) ==
  /\ received' = received \cup {s}
  /\ tot_received' = tot_received + 1

\* Mutant of buffer: stores in the place of the packet expected.
buffer_at_base(s) == pkt' = [pkt EXCEPT ![ReceiveBase] = File[s]]

\* pkt[new_pkt.seq_num - 1] = new_pkt
buffer(s) == pkt' = [pkt EXCEPT ![s] = File[s]]

\* Mutant of move_window: does not stop at a packet that is missing.
move_window_over_holes ==
  \E k \in (ReceiveBase + 1)..(TotPkts + 1) :
    /\ k - 1 \in received'
    /\ \A j \in k..TotPkts : j \notin received'
    /\ ReceiveBase' = k
    /\ WindowEnd' = Min2(k + RECV_WIN, tot_pkts')

\* ReceiveBase goes to the first packet not received yet, at tot_pkts + 1 when
\* there is none.
move_window ==
  \E k \in (ReceiveBase + 1)..(TotPkts + 1) :
    /\ \A j \in ReceiveBase..(k - 1) : j \in received'
    /\ k \notin received'
    /\ ReceiveBase' = k
    /\ WindowEnd' = Min2(k + RECV_WIN, tot_pkts')

send_cumulative_ack(n) == ackNet' = [ackNet EXCEPT ![n] = Put(@)]

\* Mutant of is_fresh: a packet received already is taken again.
is_fresh_again(s) == ReceiveBase < s /\ s <= WindowEnd

is_fresh(s) == ReceiveBase < s /\ s <= WindowEnd /\ s \notin received

\* A packet inside the window, ahead of the one expected.
ReceiveOutOfOrder(s) ==
  /\ TakePacket(s)
  /\ is_fresh(s)
  /\ mark_recvd(s)
  /\ buffer(s)
  /\ send_cumulative_ack(ReceiveBase)
  /\ UNCHANGED <<senderVars, ReceiveBase, WindowEnd, receiver, file>>

\* The packet expected: the window moves over all that follow it.
ReceiveExpected(s) ==
  /\ TakePacket(s)
  /\ s = ReceiveBase
  /\ mark_recvd(s)
  /\ move_window
  /\ buffer(s)
  /\ send_cumulative_ack(ReceiveBase')
  /\ UNCHANGED <<senderVars, receiver, file>>

\* Already received, or beyond the window: dropped, and acknowledged again.
DiscardPacket(s) ==
  /\ TakePacket(s)
  /\ ~is_fresh(s)
  /\ s # ReceiveBase
  /\ send_cumulative_ack(ReceiveBase)
  /\ UNCHANGED <<senderVars, ReceiveBase, WindowEnd, received, tot_received,
                 pkt, receiver, file>>

\* The loop is over: the packets are written in order, clear_junk is entered.
WriteFile ==
  /\ receiver = "receiving"
  /\ tot_received = tot_pkts
  /\ file' = [s \in 1..tot_pkts |-> pkt[s]]
  /\ receiver' = "junk"
  /\ UNCHANGED <<senderVars, dataNet, ackNet, ReceiveBase, WindowEnd, tot_pkts,
                 allocated, received, tot_received, pkt>>

\* clear_junk throws away what still arrives, and acknowledges nothing.
ClearJunk(s) ==
  /\ receiver = "junk"
  /\ dataNet[s] > 0
  /\ dataNet' = [dataNet EXCEPT ![s] = @ - 1]
  /\ UNCHANGED <<senderVars, ackNet, receiverVars>>

\* Half a second without a packet: clear_junk, and receiver, return.
JunkTimeout ==
  /\ receiver = "junk"
  /\ receiver' = "returned"
  /\ UNCHANGED <<senderVars, dataNet, ackNet, ReceiveBase, WindowEnd, tot_pkts,
                 allocated, received, tot_received, pkt, file>>

-----------------------------------------------------------------------------

\* initialize_send and initialize_recv.
Init ==
  /\ SendBase = 1 /\ NextSeqNum = 1
  /\ check_pkt = [s \in Packets |-> 0]
  /\ tot_acked = 0
  /\ duplicate_ack_count = 1
  /\ fileTransfer = TRUE
  /\ isTimerStarted = FALSE /\ timerArmed = FALSE /\ sigalrm = FALSE
  /\ sender = "loop" /\ ackThread = "running"
  /\ dataNet = [s \in Packets |-> 0]
  /\ ackNet = [a \in 1..(TotPkts + 1) |-> 0]
  /\ ReceiveBase = 1 /\ WindowEnd = RECV_WIN
  /\ tot_pkts = 1 /\ allocated = FALSE
  /\ received = {} /\ tot_received = 0
  /\ pkt = [s \in Packets |-> NoChunk]
  /\ receiver = "receiving"
  /\ file = << >>

MainThread ==
  \/ SendWindow \/ LeaveWindow \/ EndTransmission
  \/ \E lost \in BOOLEAN : SendNext(lost)

AckThread(a) ==
  \/ ReceiveNewAck(a) \/ CountDuplicateAck(a)
  \/ \E lost \in BOOLEAN : FastRetransmit(a, lost)

ReceivePacket(s) == ReceiveOutOfOrder(s) \/ ReceiveExpected(s) \/ DiscardPacket(s)

Network ==
  \/ \E s \in Packets : LoseData(s) \/ DuplicateData(s)
  \/ \E a \in 1..(TotPkts + 1) : LoseAck(a) \/ DuplicateAck(a)

Next ==
  \/ MainThread
  \/ TimerExpires
  \/ \E lost \in BOOLEAN : TimeoutRoutine(lost)
  \/ \E a \in 1..(TotPkts + 1) : AckThread(a)
  \/ StopTransfer \/ StopTimer
  \/ \E s \in Packets : ReceivePacket(s) \/ ClearJunk(s)
  \/ WriteFile \/ JunkTimeout
  \/ Network

Spec == Init /\ [][Next]_vars

\* The processor runs every thread, a timer that is running expires, its handler
\* runs, a packet sent again and again is not dropped for ever (LOST_PROB is
\* below 100), and a datagram that is in the socket again and again is read in
\* the end.
Fairness ==
  /\ WF_vars(SendWindow) /\ WF_vars(LeaveWindow) /\ WF_vars(EndTransmission)
  /\ WF_vars(\E lost \in BOOLEAN : SendNext(lost))
  /\ WF_vars(TimerExpires) /\ SF_vars(TimeoutRoutine(FALSE))
  /\ WF_vars(StopTransfer) /\ WF_vars(StopTimer)
  /\ \A a \in 1..(TotPkts + 1) : SF_vars(AckThread(a))
  /\ \A s \in Packets : SF_vars(ReceivePacket(s))
  /\ WF_vars(WriteFile) /\ WF_vars(JunkTimeout)

FairSpec == Spec /\ Fairness

-----------------------------------------------------------------------------
(* What the transfer promises.                                               *)

\* Every variable stays in the range the code's arrays and counters allow.
SenderTypeOK ==
  /\ SendBase \in 1..(TotPkts + 1) /\ NextSeqNum \in 1..(TotPkts + 1)
  /\ check_pkt \in [Packets -> 0..2]
  /\ tot_acked \in 0..TotPkts
  /\ duplicate_ack_count \in 1..2
  /\ fileTransfer \in BOOLEAN /\ isTimerStarted \in BOOLEAN
  /\ timerArmed \in BOOLEAN /\ sigalrm \in BOOLEAN
  /\ sender \in {"loop", "window", "ended"}
  /\ ackThread \in {"running", "acked", "stopping", "ended"}

NetworkTypeOK ==
  /\ dataNet \in [Packets -> 0..MaxCopies]
  /\ ackNet \in [1..(TotPkts + 1) -> 0..MaxCopies]

ReceiverTypeOK ==
  /\ ReceiveBase \in 1..(TotPkts + 1) /\ WindowEnd \in Nat
  /\ tot_pkts \in Nat /\ allocated \in BOOLEAN
  /\ received \subseteq Packets /\ tot_received \in Nat
  /\ pkt \in [Packets -> Chunk \cup {NoChunk}]
  /\ receiver \in {"receiving", "junk", "returned"}
  /\ file \in Seq(Chunk \cup {NoChunk})

TypeOK == SenderTypeOK /\ NetworkTypeOK /\ ReceiverTypeOK

\* Nothing the sender takes for acknowledged is missing from the receiver's
\* buffer, and it is there with its own content: the sender may forget it.
AckedIsBuffered ==
  \A s \in Packets : s < SendBase => s \in received /\ pkt[s] = File[s]

\* With a transmission window no wider than the reception window, no packet in
\* flight that the receiver has not got yet can fall beyond its window and be
\* thrown away, however late it is and however far the two windows are apart.
NoFreshPacketDiscarded ==
  (TRAN_WIN <= RECV_WIN /\ receiver = "receiving") =>
    \A s \in Packets : dataNet[s] > 0 => s <= WindowEnd

\* The loop of receiver ends on a counter, not on the packets themselves: the
\* counter is their number, and the base is the first one missing.
CountersAgree ==
  /\ tot_received = Cardinality(received)
  /\ ReceiveBase \notin received
  /\ \A s \in 1..(ReceiveBase - 1) : s \in received

\* While a packet is outstanding the timer runs, or its signal is still to be
\* handled, whichever of the main thread, the acknowledgement thread and the
\* handler touched it last: without it a lost packet would never be sent again.
TimerCovers ==
  (fileTransfer /\ SendBase < NextSeqNum) => timerArmed \/ sigalrm

\* The transfer implements what FileDelivery promises.
Delivery == INSTANCE FileDelivery WITH
  stage <- IF receiver # "receiving" THEN "written"
           ELSE IF allocated /\ tot_received = tot_pkts THEN "held"
           ELSE "receiving",
  reported <- sender = "ended"

Implements == Delivery!Spec

\* What makes the properties above inductive: what the two windows, the packets
\* and acknowledgements in flight and the timer have to do with one another.
ReceiverInv ==
  /\ tot_pkts = IF allocated THEN TotPkts ELSE 1
  /\ allocated \/ (received = {} /\ receiver = "receiving")
  /\ allocated => TotPkts > 0
  /\ \A s \in received : pkt[s] = File[s]
  /\ WindowEnd = IF ReceiveBase = 1 THEN RECV_WIN
                 ELSE Min2(ReceiveBase + RECV_WIN, TotPkts)
  /\ IF receiver = "receiving" THEN file = << >>
     ELSE received = Packets /\ file = File

NetworkInv ==
  /\ SendBase <= ReceiveBase
  /\ \A a \in DOMAIN ackNet : ackNet[a] > 0 => a <= ReceiveBase
  /\ \A s \in Packets : dataNet[s] > 0 => s <= SendWindowEnd

SenderInv ==
  /\ timerArmed \/ sigalrm => isTimerStarted
  /\ isTimerStarted /\ fileTransfer => timerArmed \/ sigalrm
  /\ ackThread = "running" <=> (SendBase <= TotPkts \/ TotPkts = 0)
  /\ fileTransfer <=> (ackThread \in {"running", "acked"})
  /\ sender = "ended" => ~fileTransfer
  /\ isTimerStarted => TotPkts > 0
  /\ isTimerStarted \/ ( /\ SendBase = 1 /\ NextSeqNum = 1
                         /\ \A s \in Packets : dataNet[s] = 0
                         /\ \A a \in DOMAIN ackNet : ackNet[a] = 0 )

IndInv == TypeOK /\ CountersAgree /\ ReceiverInv /\ NetworkInv /\ SenderInv

\* Both sides come back from the transfer, and the file has been copied.
Termination == <>(sender = "ended" /\ receiver = "returned" /\ file = File)
=============================================================================
