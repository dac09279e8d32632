---------------------------- MODULE SenderThreads ----------------------------
(***************************************************************************)
(* The sending process of src/lib/sender.c, statement by statement: the    *)
(* main thread in sender(), the thread that runs receive_ack(), and        *)
(* timeout_routine(), which SIGALRM makes run on top of either of them.    *)
(* They share plain global variables, without a lock.  sender() does not   *)
(* join the thread it creates, so that the thread of one transfer may      *)
(* still have a statement to run when the next transfer begins.            *)
(*                                                                         *)
(* One step is one access to the shared state.  The peer is reduced to     *)
(* what it answers: every packet that is not lost is acknowledged, in      *)
(* order, with the first packet missing, and nothing is acknowledged once  *)
(* the file is complete (clear_junk, src/lib/receiver.c).  A signal of the *)
(* transfer before can make the process send a packet that is not of the   *)
(* file; what a peer that takes one acknowledges from then on is left      *)
(* open, and no transfer after that one is modelled.                       *)
(***************************************************************************)
EXTENDS Integers, Sequences

CONSTANTS
  TotPkts,        \* packets of every file sent
  TRAN_WIN,       \* transmission window
  MaxTransfers,   \* bound: calls of sender()
  MaxAcks,        \* bound: acknowledgements waiting in the socket
  MaxConfused     \* bound: the same, with one of a confused peer among them

ASSUME SizeAssumption ==
  TotPkts \in Nat \ {0} /\ TRAN_WIN \in Nat \ {0}
ASSUME BoundAssumption ==
  /\ MaxTransfers \in Nat \ {0} /\ MaxAcks \in Nat \ {0}
  /\ MaxConfused \in 1..MaxAcks

VARIABLES
  transfer,        \* calls of sender() so far: the current one
  mainPc,          \* next statement of the main thread, "idle" outside sender()
  ackPc,           \* next statement of the acknowledgement thread of each call
  handlerPc,       \* next statement of timeout_routine on top of each thread
  seen,            \* SendBase as the main thread last read it for WindowEnd
  duplicate_ack_count,  \* a local of each acknowledgement thread
  SendBase, NextSeqNum, WindowEnd, ack_num, tot_acked, tot_pkts,
  fileTransfer, isTimerStarted,
  timer,           \* the interval timer is running
  sigalrm,         \* SIGALRM has been raised and not been handled
  delivered,       \* packets of this transfer that have reached the peer
  acks,            \* acknowledgements in the socket, oldest first
  spoiled,         \* the peer has taken, in this transfer, a packet not of its file
  stray            \* a packet too late for this transfer may meet the peer's next

pcs == <<mainPc, ackPc, handlerPc>>
shared == <<SendBase, NextSeqNum, WindowEnd, ack_num, tot_acked, tot_pkts,
            fileTransfer, isTimerStarted>>
alarm == <<timer, sigalrm>>
peer == <<delivered, acks, spoiled, stray>>
vars == <<transfer, pcs, seen, duplicate_ack_count, shared, alarm, peer>>

Calls == 1..MaxTransfers
Threads == {0} \cup Calls      \* 0 is the main thread, k the k-th receive_ack
Min2(a, b) == IF a < b THEN a ELSE b

\* A thread runs its own code only when no handler runs on top of it.
MainAt(pc) == mainPc = pc /\ handlerPc[0] = "none"
AckAt(k, pc) == ackPc[k] = pc /\ handlerPc[k] = "none"
MainTo(pc) == mainPc' = pc /\ UNCHANGED <<ackPc, handlerPc>>
AckTo(k, pc) == ackPc' = [ackPc EXCEPT ![k] = pc] /\ UNCHANGED <<mainPc, handlerPc>>
HandlerTo(t, pc) == handlerPc' = [handlerPc EXCEPT ![t] = pc] /\ UNCHANGED <<mainPc, ackPc>>

\* The first packet the peer misses: what it acknowledges.
FirstMissing(have) ==
  CHOOSE n \in 1..(TotPkts + 1) : n \notin have /\ \A m \in 1..(n - 1) : m \in have

\* Whether pkt[s - 1] can hold packet s of this file, and whether it can hold
\* anything else: the array of the file before, until the new one is allocated; a
\* packet zeroed or half filled, until it is filled; what lies beyond the array.
OfThisFile(s) == s \in 1..TotPkts /\ mainPc \notin {"create", "size", "alloc"}
OfNoFile(s) == s \notin 1..TotPkts \/ mainPc \in {"create", "size", "alloc", "fill"}

\* The peer waits for the packet: it takes it, and answers.
PeerTakes(s) ==
  /\ Len(acks) < MaxAcks
  /\ delivered' = delivered \cup {s}
  /\ acks' = Append(acks, FirstMissing(delivered'))
  /\ UNCHANGED <<spoiled, stray>>

\* The peer takes a packet that is not of the file, or has taken one: it answers
\* as its buffers, of another size or overwritten, make it answer, or not at all.
\* What it has of the file does not matter any more.
PeerConfused ==
  /\ spoiled' = TRUE
  /\ \/ UNCHANGED acks
     \/ /\ Len(acks) < MaxConfused
        /\ \E a \in 1..(TotPkts + 1) : acks' = Append(acks, a)
  /\ delivered' = {}
  /\ UNCHANGED stray

\* The peer has the whole file: clear_junk throws the packet away, or has returned
\* by then, and the packet waits for whatever the peer reads next.
PeerDone ==
  /\ stray' \in {stray, TRUE}
  /\ UNCHANGED <<delivered, acks, spoiled>>

\* send_packet(s - 1).  A packet is lost when the program drops it on purpose
\* or the socket is full.
send_packet(s, lost) ==
  \/ lost /\ UNCHANGED peer
  \/ ~lost /\ ~spoiled /\ delivered = 1..TotPkts /\ PeerDone
  \/ ~lost /\ ~spoiled /\ delivered # 1..TotPkts /\ OfThisFile(s) /\ PeerTakes(s)
  \/ ~lost /\ ~spoiled /\ delivered # 1..TotPkts /\ OfNoFile(s) /\ PeerConfused
  \/ ~lost /\ spoiled /\ PeerConfused

-----------------------------------------------------------------------------
(* The main thread.                                                          *)

\* Mutant of initialize_send: fileTransfer keeps its value.
initialize_send_stale ==
  /\ SendBase' = 1 /\ NextSeqNum' = 1
  /\ ack_num' = 0 /\ tot_acked' = 0 /\ tot_pkts' = 0
  /\ isTimerStarted' = FALSE
  /\ UNCHANGED <<WindowEnd, fileTransfer>>

initialize_send ==
  /\ SendBase' = 1 /\ NextSeqNum' = 1
  /\ ack_num' = 0 /\ tot_acked' = 0 /\ tot_pkts' = 0
  /\ fileTransfer' = TRUE /\ isTimerStarted' = FALSE
  /\ UNCHANGED WindowEnd

\* A command of the user, or of a client, calls sender().  The peer enters
\* receiver(), which takes a stray packet, if no other recvfrom has taken it.
CallSender ==
  /\ MainAt("idle")
  /\ transfer < MaxTransfers
  /\ ~spoiled
  /\ transfer' = transfer + 1
  /\ initialize_send
  /\ delivered' = {} /\ stray' = FALSE
  /\ \/ acks' = << >> /\ spoiled' = FALSE
     \/ /\ stray
        /\ spoiled' = TRUE
        /\ acks' \in {<< >>} \cup {<<a>> : a \in 1..(TotPkts + 1)}
  /\ MainTo("create")
  /\ UNCHANGED <<seen, duplicate_ack_count, alarm>>

\* pthread_create(&thread, NULL, receive_ack, ...)
CreateThread ==
  /\ MainAt("create")
  /\ mainPc' = "size"
  /\ ackPc' = [ackPc EXCEPT ![transfer] = "recv"]
  /\ UNCHANGED <<handlerPc, transfer, seen, duplicate_ack_count, shared, alarm, peer>>

\* tot_pkts is computed; pkt is still the array of the file before.
CountPackets ==
  /\ MainAt("size")
  /\ tot_pkts' = TotPkts
  /\ MainTo("alloc")
  /\ UNCHANGED <<transfer, seen, duplicate_ack_count, SendBase, NextSeqNum, WindowEnd,
                 ack_num, tot_acked, fileTransfer, isTimerStarted, alarm, peer>>

\* pkt = calloc(tot_pkts, sizeof(packet))
AllocatePackets ==
  /\ MainAt("alloc")
  /\ MainTo("fill")
  /\ UNCHANGED <<transfer, seen, duplicate_ack_count, shared, alarm, peer>>

\* The last packet is filled.
FillPackets ==
  /\ MainAt("fill")
  /\ MainTo("loop")
  /\ UNCHANGED <<transfer, seen, duplicate_ack_count, shared, alarm, peer>>

\* while (fileTransfer)
TestFileTransfer ==
  /\ MainAt("loop")
  /\ MainTo(IF fileTransfer THEN "read" ELSE "stop")
  /\ UNCHANGED <<transfer, seen, duplicate_ack_count, shared, alarm, peer>>

\* WindowEnd = MIN(tot_pkts, SendBase + TRAN_WIN - 1), at the entry of send_window
\* ("read") and in its loop ("reread"): SendBase is read, then WindowEnd written.
ReadSendBase ==
  /\ \E pc \in {"read", "reread"} :
       /\ MainAt(pc)
       /\ MainTo(IF pc = "read" THEN "write" ELSE "rewrite")
  /\ seen' = SendBase
  /\ UNCHANGED <<transfer, duplicate_ack_count, shared, alarm, peer>>

WriteWindowEnd ==
  /\ \E pc \in {"write", "rewrite"} :
       /\ MainAt(pc)
       /\ MainTo(IF pc = "write" THEN "for" ELSE "timer")
  /\ WindowEnd' = Min2(tot_pkts, seen + TRAN_WIN - 1)
  /\ UNCHANGED <<transfer, seen, duplicate_ack_count, SendBase, NextSeqNum, ack_num,
                 tot_acked, tot_pkts, fileTransfer, isTimerStarted, alarm, peer>>

\* Mutant of TestWindow: the bound is taken as included.
TestWindow_inclusive ==
  /\ MainAt("for")
  /\ MainTo(IF NextSeqNum - 1 <= WindowEnd THEN "reread" ELSE "loop")
  /\ UNCHANGED <<transfer, seen, duplicate_ack_count, shared, alarm, peer>>

\* for (i = NextSeqNum - 1; i < WindowEnd; ...)
TestWindow ==
  /\ MainAt("for")
  /\ MainTo(IF NextSeqNum - 1 < WindowEnd THEN "reread" ELSE "loop")
  /\ UNCHANGED <<transfer, seen, duplicate_ack_count, shared, alarm, peer>>

\* if (!isTimerStarted)
TestTimer ==
  /\ MainAt("timer")
  /\ MainTo(IF isTimerStarted THEN "send" ELSE "arm")
  /\ UNCHANGED <<transfer, seen, duplicate_ack_count, shared, alarm, peer>>

\* set_timer(timeoutInterval)
MainArms ==
  /\ MainAt("arm")
  /\ timer' = TRUE
  /\ MainTo("flag")
  /\ UNCHANGED <<transfer, seen, duplicate_ack_count, shared, sigalrm, peer>>

MainFlags ==
  /\ MainAt("flag")
  /\ isTimerStarted' = TRUE
  /\ MainTo("send")
  /\ UNCHANGED <<transfer, seen, duplicate_ack_count, SendBase, NextSeqNum, WindowEnd,
                 ack_num, tot_acked, tot_pkts, fileTransfer, alarm, peer>>

MainSends(lost) ==
  /\ MainAt("send")
  /\ send_packet(NextSeqNum, lost)
  /\ MainTo("count")
  /\ UNCHANGED <<transfer, seen, duplicate_ack_count, shared, alarm>>

MainCounts ==
  /\ MainAt("count")
  /\ NextSeqNum' = NextSeqNum + 1
  /\ MainTo("for")
  /\ UNCHANGED <<transfer, seen, duplicate_ack_count, SendBase, WindowEnd, ack_num,
                 tot_acked, tot_pkts, fileTransfer, isTimerStarted, alarm, peer>>

\* end_transmission: set_timer(0). A SIGALRM already raised stays raised.
EndTransmission ==
  /\ MainAt("stop")
  /\ timer' = FALSE
  /\ MainTo("idle")
  /\ UNCHANGED <<transfer, seen, duplicate_ack_count, shared, sigalrm, peer>>

-----------------------------------------------------------------------------
(* The acknowledgement thread of call k.                                     *)

\* recvfrom(..., &ack_num, ...), and the comparison with SendBase.
ReceiveAck(k) ==
  /\ AckAt(k, "recv")
  /\ acks # << >>
  /\ acks' = Tail(acks)
  /\ ack_num' = Head(acks)
  /\ \/ /\ ack_num' > SendBase
        /\ AckTo(k, "base")
        /\ UNCHANGED duplicate_ack_count
     \/ /\ ack_num' <= SendBase
        /\ duplicate_ack_count' = [duplicate_ack_count EXCEPT ![k] = @ + 1]
        /\ AckTo(k, IF duplicate_ack_count'[k] = 3 THEN "resend" ELSE "recv")
  /\ UNCHANGED <<transfer, seen, SendBase, NextSeqNum, WindowEnd, tot_acked, tot_pkts,
                 fileTransfer, isTimerStarted, alarm, delivered, spoiled, stray>>

AckMovesBase(k) ==
  /\ AckAt(k, "base")
  /\ SendBase' = ack_num
  /\ duplicate_ack_count' = [duplicate_ack_count EXCEPT ![k] = 1]
  /\ AckTo(k, "window")
  /\ UNCHANGED <<transfer, seen, NextSeqNum, WindowEnd, ack_num, tot_acked, tot_pkts,
                 fileTransfer, isTimerStarted, alarm, peer>>

\* WindowEnd, cumulative_ack, and the test of the end of the file.
AckMovesWindow(k) ==
  /\ AckAt(k, "window")
  /\ WindowEnd' = Min2(tot_pkts, SendBase + TRAN_WIN - 1)
  /\ tot_acked' = ack_num - 1
  /\ AckTo(k, IF tot_acked' = tot_pkts THEN "finish" ELSE "recv")
  /\ UNCHANGED <<transfer, seen, duplicate_ack_count, SendBase, NextSeqNum, ack_num,
                 tot_pkts, fileTransfer, isTimerStarted, alarm, peer>>

\* fileTransfer = false
AckFinishes(k) ==
  /\ AckAt(k, "finish")
  /\ fileTransfer' = FALSE
  /\ AckTo(k, "disarm")
  /\ UNCHANGED <<transfer, seen, duplicate_ack_count, SendBase, NextSeqNum, WindowEnd,
                 ack_num, tot_acked, tot_pkts, isTimerStarted, alarm, peer>>

\* set_timer(0), and the thread is over.
AckDisarms(k) ==
  /\ AckAt(k, "disarm")
  /\ timer' = FALSE
  /\ AckTo(k, "ended")
  /\ UNCHANGED <<transfer, seen, duplicate_ack_count, shared, sigalrm, peer>>

\* Fast retransmission: send, set_timer(timeoutInterval), isTimerStarted = true.
AckResends(k, lost) ==
  /\ AckAt(k, "resend")
  /\ send_packet(SendBase, lost)
  /\ AckTo(k, "rearm")
  /\ UNCHANGED <<transfer, seen, duplicate_ack_count, shared, alarm>>

AckRearms(k) ==
  /\ AckAt(k, "rearm")
  /\ timer' = TRUE
  /\ AckTo(k, "reflag")
  /\ UNCHANGED <<transfer, seen, duplicate_ack_count, shared, sigalrm, peer>>

AckReflags(k) ==
  /\ AckAt(k, "reflag")
  /\ isTimerStarted' = TRUE
  /\ duplicate_ack_count' = [duplicate_ack_count EXCEPT ![k] = 1]
  /\ AckTo(k, "recv")
  /\ UNCHANGED <<transfer, seen, SendBase, NextSeqNum, WindowEnd, ack_num, tot_acked,
                 tot_pkts, fileTransfer, alarm, peer>>

-----------------------------------------------------------------------------
(* The timer and its handler.                                                *)

\* The one-shot timer expires.
TimerExpires ==
  /\ timer
  /\ timer' = FALSE
  /\ sigalrm' = TRUE
  /\ UNCHANGED <<transfer, pcs, seen, duplicate_ack_count, shared, peer>>

Alive == {0} \cup {k \in Calls : ackPc[k] \notin {"none", "ended"}}

\* The system makes a thread of the process run timeout_routine. The handler
\* is installed by the first send_window and stays, even after sender returns.
Deliver(t) ==
  /\ sigalrm
  /\ t \in Alive
  /\ handlerPc[t] = "none"
  /\ sigalrm' = FALSE
  /\ HandlerTo(t, "clear")
  /\ UNCHANGED <<transfer, seen, duplicate_ack_count, shared, timer, peer>>

HandlerClears(t) ==
  /\ handlerPc[t] = "clear"
  /\ isTimerStarted' = FALSE
  /\ HandlerTo(t, "send")
  /\ UNCHANGED <<transfer, seen, duplicate_ack_count, SendBase, NextSeqNum, WindowEnd,
                 ack_num, tot_acked, tot_pkts, fileTransfer, alarm, peer>>

HandlerSends(t, lost) ==
  /\ handlerPc[t] = "send"
  /\ send_packet(SendBase, lost)
  /\ HandlerTo(t, "arm")
  /\ UNCHANGED <<transfer, seen, duplicate_ack_count, shared, alarm>>

\* Mutant of HandlerArms: the one-shot timer is not started again.
HandlerArms_once(t) ==
  /\ handlerPc[t] = "arm"
  /\ HandlerTo(t, "flag")
  /\ UNCHANGED <<transfer, seen, duplicate_ack_count, shared, alarm, peer>>

HandlerArms(t) ==
  /\ handlerPc[t] = "arm"
  /\ timer' = TRUE
  /\ HandlerTo(t, "flag")
  /\ UNCHANGED <<transfer, seen, duplicate_ack_count, shared, sigalrm, peer>>

HandlerFlags(t) ==
  /\ handlerPc[t] = "flag"
  /\ isTimerStarted' = TRUE
  /\ HandlerTo(t, "none")
  /\ UNCHANGED <<transfer, seen, duplicate_ack_count, SendBase, NextSeqNum, WindowEnd,
                 ack_num, tot_acked, tot_pkts, fileTransfer, alarm, peer>>

-----------------------------------------------------------------------------

Init ==
  /\ transfer = 0
  /\ mainPc = "idle"
  /\ ackPc = [k \in Calls |-> "none"]
  /\ handlerPc = [t \in Threads |-> "none"]
  /\ seen = 1
  /\ duplicate_ack_count = [k \in Calls |-> 1]
  /\ SendBase = 0 /\ NextSeqNum = 0 /\ WindowEnd = 0 /\ ack_num = 0
  /\ tot_acked = 0 /\ tot_pkts = 0
  /\ fileTransfer = TRUE /\ isTimerStarted = FALSE
  /\ timer = FALSE /\ sigalrm = FALSE
  /\ delivered = {} /\ acks = << >> /\ spoiled = FALSE /\ stray = FALSE

Main ==
  \/ CallSender \/ CreateThread \/ CountPackets \/ AllocatePackets \/ FillPackets
  \/ TestFileTransfer \/ ReadSendBase \/ WriteWindowEnd \/ TestWindow \/ TestTimer
  \/ MainArms \/ MainFlags \/ MainCounts \/ EndTransmission
  \/ \E lost \in BOOLEAN : MainSends(lost)

AckThread(k) ==
  \/ ReceiveAck(k) \/ AckMovesBase(k) \/ AckMovesWindow(k)
  \/ AckFinishes(k) \/ AckDisarms(k) \/ AckRearms(k) \/ AckReflags(k)
  \/ \E lost \in BOOLEAN : AckResends(k, lost)

Handler(t) ==
  \/ HandlerClears(t) \/ HandlerArms(t) \/ HandlerFlags(t)
  \/ \E lost \in BOOLEAN : HandlerSends(t, lost)

Next ==
  \/ Main
  \/ \E k \in Calls : AckThread(k)
  \/ TimerExpires
  \/ \E t \in Threads : Deliver(t) \/ Handler(t)

Spec == Init /\ [][Next]_vars

\* Both threads and the handler are scheduled, the timer expires, a signal is
\* delivered, and a packet sent again and again is not lost every time.  The
\* handler suspends the thread it runs on, but the interval of the timer leaves
\* that thread time to go on between two of its runs: strong fairness.
Fairness ==
  /\ SF_vars(Main) /\ WF_vars(TimerExpires)
  /\ \A k \in Calls : SF_vars(AckThread(k))
  /\ WF_vars(\E t \in Threads : Deliver(t))
  /\ \A t \in Threads : WF_vars(Handler(t)) /\ SF_vars(HandlerSends(t, FALSE))

FairSpec == Spec /\ Fairness

-----------------------------------------------------------------------------
(* Properties.                                                               *)

InTransfer == mainPc \notin {"idle", "create", "size", "alloc", "fill"}

\* The program counters, the counters and the socket stay in range.
TypeOK ==
  /\ transfer \in 0..MaxTransfers
  /\ mainPc \in {"idle", "create", "size", "alloc", "fill", "loop", "read", "write", "for",
                 "reread", "rewrite", "timer", "arm", "flag", "send", "count", "stop"}
  /\ ackPc \in [Calls -> {"none", "recv", "base", "window", "finish", "disarm",
                          "resend", "rearm", "reflag", "ended"}]
  /\ handlerPc \in [Threads -> {"none", "clear", "send", "arm", "flag"}]
  /\ SendBase \in 0..(TotPkts + 1) /\ NextSeqNum \in 0..(TotPkts + 1)
  /\ WindowEnd \in 0..TotPkts /\ seen \in 1..(TotPkts + 1)
  /\ tot_acked \in 0..TotPkts /\ tot_pkts \in {0, TotPkts}
  /\ duplicate_ack_count \in [Calls -> 1..3]
  /\ delivered \subseteq 1..TotPkts
  /\ acks \in Seq(1..(TotPkts + 1)) /\ Len(acks) <= MaxAcks
  /\ spoiled \in BOOLEAN /\ stray \in BOOLEAN

\* The main thread sends a packet for the first time only inside the window,
\* though it decides so on a WindowEnd that the acknowledgement thread may write
\* between its reading of SendBase and its own writing.
MainSendsInWindow ==
  mainPc = "send" => NextSeqNum <= Min2(tot_pkts, SendBase + TRAN_WIN - 1)

\* sender returns, and announces the end, only when the peer has every packet
\* of this transfer.  Nothing the thread or the signals of the transfer before do,
\* however late, makes it give up early, unless one of those signals has put a
\* packet that is not of this file into the peer's hands, which they can do only
\* from the second transfer on.
EndsOnlyWhenDelivered ==
  /\ mainPc = "stop" \/ (mainPc = "idle" /\ transfer > 0)
  /\ transfer = 1 \/ ~spoiled
  => delivered = 1..TotPkts

\* isTimerStarted is true when the timer of a packet is running
\* (src/lib/sender.c:42): during a transfer, the flag is never left set with the
\* timer off, unless SIGALRM is on its way or its handler about to start the timer.
FlagTellsTimer ==
  (InTransfer /\ fileTransfer /\ isTimerStarted) =>
    \/ timer \/ sigalrm
    \/ \E t \in Threads : handlerPc[t] \in {"clear", "send", "arm"}

\* end_transmission stops the timer (src/lib/sender.c:241): after it, and until
\* the next call, the timer does not run.
TimerStopped == (mainPc = "idle" /\ handlerPc[0] = "none") => ~timer

\* The transfer ends: the main thread, which waits by spinning on fileTransfer,
\* sees it cleared.
Returns == <>(transfer = 1 /\ mainPc = "idle")
=============================================================================
