------------------------- MODULE SenderThreadsProofs -------------------------
(***************************************************************************)
(* Proofs about SenderThreads, for files, windows and sockets of any size  *)
(* and any number of transfers: what the threads and signals of a transfer *)
(* do to the next, however late, does not send out of the window, and does *)
(* not end it early unless a signal's packet has reached its peer.         *)
(***************************************************************************)
EXTENDS SenderThreads, SequenceTheorems, WellFoundedInduction, TLAPS

-----------------------------------------------------------------------------
(* The first packet that is missing.                                         *)

\* A set of numbers that is not empty has a least one.
LEMMA LeastNumber ==
  ASSUME NEW S \in SUBSET Nat, S # {}
  PROVE  \E n \in S : \A m \in S : n <= m
<1> DEFINE R == OpToRel(<, Nat)
<1>1. IsWellFoundedOn(R, Nat)
  BY NatLessThanWellFounded
<1>2. \A x, y \in Nat : x < y => <<x, y>> \in R
  BY DEF OpToRel
<1> HIDE DEF R
<1>3. PICK n \in S : \A m \in S : <<m, n>> \notin R
  BY <1>1, WFMin
<1>4. \A m \in S : ~(m < n)
  BY <1>2, <1>3
<1>5. \A m \in S : n <= m
  BY <1>4
<1> QED
  BY <1>5

LEMMA FirstMissingIs ==
  ASSUME NEW have \in SUBSET (1 .. TotPkts)
  PROVE  /\ FirstMissing(have) \in 1 .. TotPkts + 1
         /\ FirstMissing(have) \notin have
         /\ \A m \in 1 .. FirstMissing(have) - 1 : m \in have
<1> DEFINE S == (1 .. TotPkts + 1) \ have
           Is(n) == n \notin have /\ \A m \in 1 .. n - 1 : m \in have
<1>1. TotPkts \in Nat
  BY SizeAssumption
<1>2. S \in SUBSET Nat /\ TotPkts + 1 \in S
  BY <1>1
<1>3. PICK n \in S : \A m \in S : n <= m
  BY <1>2, LeastNumber
<1>4. \A m \in 1 .. n - 1 : m \in have
  <2> TAKE m \in 1 .. n - 1
  <2>1. m \in 1 .. TotPkts + 1 /\ ~(n <= m)
    BY <1>1, <1>3
  <2> QED
    BY <1>3, <2>1
<1>5. \E k \in 1 .. TotPkts + 1 : Is(k)
  BY <1>3, <1>4
<1>6. FirstMissing(have) = CHOOSE k \in 1 .. TotPkts + 1 : Is(k)
  BY DEF FirstMissing
<1> HIDE DEF Is
<1>7. FirstMissing(have) \in 1 .. TotPkts + 1 /\ Is(FirstMissing(have))
  BY <1>5, <1>6
<1> QED
  BY <1>7 DEF Is

\* With more packets delivered it is no earlier.
LEMMA FirstMissingGrows ==
  ASSUME NEW have \in SUBSET (1 .. TotPkts), NEW more \in SUBSET (1 .. TotPkts),
         have \subseteq more
  PROVE  FirstMissing(have) <= FirstMissing(more)
<1> DEFINE a == FirstMissing(have)
           b == FirstMissing(more)
<1>1. TotPkts \in Nat /\ a \in 1 .. TotPkts + 1 /\ b \in 1 .. TotPkts + 1
  BY SizeAssumption, FirstMissingIs
<1>2. b \notin have /\ \A m \in 1 .. a - 1 : m \in have
  BY FirstMissingIs
<1> HIDE DEF a, b
<1>3. ~(b < a)
  BY <1>1, <1>2
<1> QED
  BY <1>1, <1>3 DEF a, b

\* It is beyond the file when all are there.
LEMMA NothingMissing ==
  ASSUME NEW have \in SUBSET (1 .. TotPkts), FirstMissing(have) = TotPkts + 1
  PROVE  have = 1 .. TotPkts
<1>1. TotPkts \in Nat
  BY SizeAssumption
<1>2. \A m \in 1 .. TotPkts : m \in have
  BY <1>1, FirstMissingIs
<1> QED
  BY <1>2

-----------------------------------------------------------------------------
(* The inductive invariant.                                                  *)

\* Places of the main thread where it has prepared the packets; where WindowEnd has
\* been written since; where it has found NextSeqNum in the window.
Prepared == {"loop", "read", "write", "for", "reread", "rewrite", "timer", "arm", "flag",
             "send", "count", "stop"}
WindowSet == {"for", "reread", "rewrite", "timer", "arm", "flag", "send", "count"}
InLoop == {"reread", "rewrite", "timer", "arm", "flag", "send", "count"}
Over == {"disarm", "ended"}
Preparing == {"create", "size", "alloc", "fill"}

Bound == Min2(tot_pkts, SendBase + TRAN_WIN - 1)

MoreTypes ==
  /\ TypeOK
  /\ ack_num \in 0 .. TotPkts + 1
  /\ \A k \in Calls : ackPc[k] \in {"none", "recv", "window"} => duplicate_ack_count[k] <= 2

\* Only the thread of the current transfer does more than stop the timer, and it has
\* cleared fileTransfer exactly when it is about to do so or over.
ThreadsInv ==
  /\ mainPc # "idle" => transfer > 0
  /\ \A k \in Calls :
       /\ k < transfer => ackPc[k] \in Over
       /\ k > transfer => ackPc[k] = "none"
       /\ k = transfer => (mainPc = "create" <=> ackPc[k] = "none")
       /\ k = transfer => (ackPc[k] \in Over <=> fileTransfer = FALSE)
  /\ mainPc \in {"stop", "idle"} /\ transfer > 0 => fileTransfer = FALSE
  /\ fileTransfer = TRUE \/ fileTransfer = FALSE

\* What the thread is doing about an acknowledgement.  While the peer has taken no
\* packet but its own, what is acknowledged has been delivered, and the transfer is
\* over when all is.
DeliveryInv ==
  /\ \A k \in Calls :
       /\ ackPc[k] = "base" => ack_num > SendBase
       /\ ackPc[k] = "window" => ack_num = SendBase /\ ack_num >= 2
  /\ spoiled = FALSE =>
       /\ \A j \in 1 .. Len(acks) : acks[j] <= FirstMissing(delivered)
       /\ SendBase <= FirstMissing(delivered)
       /\ \A k \in Calls :
            /\ ackPc[k] = "base" => ack_num <= FirstMissing(delivered)
            /\ ackPc[k] = "finish" => delivered = 1 .. TotPkts
       /\ fileTransfer = FALSE => delivered = 1 .. TotPkts

\* WindowEnd and NextSeqNum where the main thread relies on them.
WindowInv ==
  /\ mainPc # "idle" => SendBase >= 1 /\ NextSeqNum >= 1
  /\ mainPc \in {"write", "rewrite"} => seen <= SendBase
  /\ mainPc \in Prepared \cup {"alloc", "fill"} => tot_pkts = TotPkts
  /\ mainPc \in {"create", "size"} => tot_pkts = 0
  /\ mainPc \in WindowSet => WindowEnd <= Bound
  /\ mainPc \in InLoop => NextSeqNum <= Bound
  /\ transfer = 0 => tot_pkts = 0

\* No timer runs, no signal is pending, no handler is at work.
Quiet == timer = FALSE /\ sigalrm = FALSE /\ \A t \in Threads : handlerPc[t] = "none"

\* The first transfer has no signal of one before it to fear.
FirstInv ==
  /\ transfer = 0 => Quiet /\ stray = FALSE
  /\ transfer \in {0, 1} => spoiled = FALSE
  /\ transfer = 1 /\ mainPc \in Preparing =>
       Quiet /\ acks = << >> /\ \A k \in Calls : ackPc[k] \in {"none", "recv"}

Core == MoreTypes /\ ThreadsInv /\ DeliveryInv /\ WindowInv

IInv == Core /\ FirstInv

LEMMA InitInv == Init => IInv
<1> SUFFICES ASSUME Init PROVE IInv
  OBVIOUS
<1>1. TotPkts \in Nat /\ MaxAcks \in Nat /\ MaxTransfers \in Nat /\ TotPkts >= 1
  BY SizeAssumption, BoundAssumption
<1>2. FirstMissing({}) \in 1 .. TotPkts + 1
  BY FirstMissingIs
<1>3. MoreTypes
  <2>1. acks \in Seq(1 .. TotPkts + 1) /\ Len(acks) <= MaxAcks
    BY <1>1 DEF Init
  <2>2. delivered \subseteq 1 .. TotPkts /\ spoiled \in BOOLEAN /\ stray \in BOOLEAN
    BY DEF Init
  <2>3. /\ ackPc = [k \in Calls |-> "none"] /\ handlerPc = [t \in Threads |-> "none"]
        /\ duplicate_ack_count = [k \in Calls |-> 1] /\ mainPc = "idle"
    BY DEF Init
  <2>4. /\ transfer \in 0 .. MaxTransfers /\ SendBase \in 0 .. TotPkts + 1
        /\ NextSeqNum \in 0 .. TotPkts + 1 /\ WindowEnd \in 0 .. TotPkts
        /\ seen \in 1 .. TotPkts + 1 /\ tot_acked \in 0 .. TotPkts
        /\ tot_pkts \in {0, TotPkts} /\ ack_num \in 0 .. TotPkts + 1
    BY <1>1 DEF Init
  <2> QED
    BY <2>1, <2>2, <2>3, <2>4 DEF MoreTypes, TypeOK
<1>4. ThreadsInv /\ WindowInv
  BY <1>1 DEF Init, ThreadsInv, WindowInv, Calls, Prepared, WindowSet, InLoop
<1>5. DeliveryInv
  BY <1>1, <1>2 DEF Init, DeliveryInv, Calls
<1>6. FirstInv
  BY DEF Init, FirstInv, Quiet, Threads
<1> QED
  BY <1>3, <1>4, <1>5, <1>6 DEF IInv, Core

\* What sending a packet does to the peer and the socket.
LEMMA SendPacket ==
  ASSUME IInv, NEW s, NEW lost, send_packet(s, lost)
  PROVE  /\ delivered' \subseteq 1 .. TotPkts
         /\ acks' \in Seq(1 .. TotPkts + 1) /\ Len(acks') <= MaxAcks
         /\ spoiled' \in BOOLEAN /\ stray' \in BOOLEAN
         /\ spoiled' = FALSE =>
              /\ spoiled = FALSE
              /\ \A j \in 1 .. Len(acks') : acks'[j] <= FirstMissing(delivered')
              /\ FirstMissing(delivered) <= FirstMissing(delivered')
              /\ delivered = 1 .. TotPkts => delivered' = delivered
         /\ spoiled' # spoiled => OfNoFile(s) /\ delivered # 1 .. TotPkts
<1>1. /\ delivered \in SUBSET (1 .. TotPkts) /\ acks \in Seq(1 .. TotPkts + 1)
      /\ Len(acks) <= MaxAcks /\ spoiled \in BOOLEAN /\ stray \in BOOLEAN
      /\ spoiled = FALSE => \A j \in 1 .. Len(acks) : acks[j] <= FirstMissing(delivered)
      /\ TotPkts \in Nat /\ MaxAcks \in Nat /\ MaxConfused \in Nat /\ MaxConfused <= MaxAcks
  BY SizeAssumption, BoundAssumption DEF IInv, Core, MoreTypes, TypeOK, DeliveryInv
<1>2. FirstMissing(delivered) \in 1 .. TotPkts + 1
  BY <1>1, FirstMissingIs
<1>3. CASE UNCHANGED peer
  BY <1>1, <1>2, <1>3 DEF peer
<1>4. CASE OfThisFile(s) /\ spoiled = FALSE /\ delivered # 1 .. TotPkts /\ PeerTakes(s)
  <2>0. /\ s \in 1 .. TotPkts /\ Len(acks) < MaxAcks
        /\ delivered' = delivered \cup {s}
        /\ acks' = Append(acks, FirstMissing(delivered'))
        /\ UNCHANGED <<spoiled, stray>>
    BY <1>4 DEF OfThisFile, PeerTakes
  <2>1. delivered' \in SUBSET (1 .. TotPkts) /\ delivered \subseteq delivered'
    BY <1>1, <2>0
  <2>2. FirstMissing(delivered') \in 1 .. TotPkts + 1
    BY <2>1, FirstMissingIs
  <2>3. FirstMissing(delivered) <= FirstMissing(delivered')
    BY <1>1, <2>1, FirstMissingGrows
  <2>4. acks' \in Seq(1 .. TotPkts + 1) /\ Len(acks') = Len(acks) + 1
    BY <1>1, <2>0, <2>2
  <2>5. \A j \in 1 .. Len(acks') : acks'[j] <= FirstMissing(delivered')
    <3> TAKE j \in 1 .. Len(acks')
    <3>1. CASE j = Len(acks) + 1
      <4>1. acks'[j] = FirstMissing(delivered')
        BY <1>1, <2>0, <2>2, <3>1
      <4> QED
        BY <2>2, <4>1
    <3>2. CASE j \in 1 .. Len(acks)
      <4>1. acks'[j] = acks[j] /\ acks[j] \in 1 .. TotPkts + 1
        BY <1>1, <2>0, <2>2, <3>2
      <4>2. acks[j] <= FirstMissing(delivered)
        BY <1>1, <1>4, <3>2
      <4> QED
        BY <1>2, <2>2, <2>3, <4>1, <4>2
    <3> QED
      BY <1>1, <2>4, <3>1, <3>2
  <2>6. Len(acks') <= MaxAcks
    BY <1>1, <2>0, <2>4
  <2> QED
    BY <1>1, <1>4, <2>0, <2>1, <2>3, <2>4, <2>5, <2>6
<1>5. CASE PeerConfused /\ (spoiled = TRUE \/ (OfNoFile(s) /\ delivered # 1 .. TotPkts))
  <2>1. spoiled' = TRUE /\ delivered' = {} /\ stray' = stray
    BY <1>5 DEF PeerConfused
  <2>2. acks' \in Seq(1 .. TotPkts + 1) /\ Len(acks') <= MaxAcks
    <3>1. CASE acks' = acks
      BY <1>1, <3>1
    <3>2. CASE acks' # acks
      <4>1. PICK a \in 1 .. TotPkts + 1 : acks' = Append(acks, a) /\ Len(acks) < MaxConfused
        BY <1>5, <3>2 DEF PeerConfused
      <4>2. acks' \in Seq(1 .. TotPkts + 1) /\ Len(acks') = Len(acks) + 1 /\ Len(acks) \in Nat
        BY <1>1, <4>1
      <4> QED
        BY <1>1, <4>1, <4>2
    <3> QED
      BY <3>1, <3>2
  <2> QED
    BY <1>1, <1>5, <2>1, <2>2
<1>6. CASE PeerDone
  <2>1. delivered' = delivered /\ acks' = acks /\ spoiled' = spoiled /\ stray' \in BOOLEAN
    BY <1>1, <1>6 DEF PeerDone
  <2> QED
    BY <1>1, <1>2, <2>1
<1> QED
  BY <1>1, <1>3, <1>4, <1>5, <1>6 DEF send_packet

\* A thread that receives or answers is the one of the current transfer, and the
\* transfer is not over.
LEMMA CurrentThread ==
  ASSUME IInv, NEW k \in Calls, ackPc[k] \notin {"none", "disarm", "ended"}
  PROVE  /\ k = transfer /\ fileTransfer = TRUE /\ mainPc \notin {"stop", "idle", "create"}
         /\ \A j \in Calls \ {k} : ackPc[j] \in {"none", "disarm", "ended"}
<1>1. transfer \in 0 .. MaxTransfers /\ MaxTransfers \in Nat
  BY BoundAssumption DEF IInv, Core, MoreTypes, TypeOK
<1>2. k = transfer
  BY <1>1 DEF IInv, Core, ThreadsInv, Over, Calls
<1>3. fileTransfer = TRUE
  BY <1>2 DEF IInv, Core, ThreadsInv, Over
<1>4. \A j \in Calls \ {k} : ackPc[j] \in {"none", "disarm", "ended"}
  BY <1>1, <1>2 DEF IInv, Core, ThreadsInv, Over, Calls
<1>5. mainPc \notin {"stop", "idle", "create"}
  BY <1>1, <1>2, <1>3 DEF IInv, Core, ThreadsInv, Calls
<1> QED
  BY <1>2, <1>3, <1>4, <1>5

\* A step of the main thread that sends nothing.
LEMMA MainStep ==
  ASSUME IInv,
         CallSender \/ CreateThread \/ CountPackets \/ AllocatePackets \/ FillPackets
         \/ TestFileTransfer \/ ReadSendBase \/ WriteWindowEnd \/ TestWindow \/ TestTimer \/ MainArms \/ MainFlags
         \/ MainCounts \/ EndTransmission
  PROVE  Core'
<1>0. TotPkts \in Nat /\ TotPkts >= 1 /\ TRAN_WIN \in Nat /\ TRAN_WIN >= 1
      /\ MaxAcks \in Nat /\ MaxTransfers \in Nat
  BY SizeAssumption, BoundAssumption
<1>1. delivered \in SUBSET (1 .. TotPkts) /\ FirstMissing(delivered) \in 1 .. TotPkts + 1
  BY FirstMissingIs DEF IInv, Core, MoreTypes, TypeOK
<1>2. CASE CallSender
  <2>1. FirstMissing({}) \in 1 .. TotPkts + 1 /\ transfer \in Nat
        /\ \A k \in Calls : ackPc[k] \in {"none", "disarm", "ended"}
    BY <1>0, <1>2, FirstMissingIs
    DEF IInv, Core, MoreTypes, TypeOK, ThreadsInv, Over, Calls, CallSender, MainAt
  <2>2. MoreTypes'
    <3>1. /\ acks' = << >> \/ \E a \in 1 .. TotPkts + 1 : acks' = <<a>>
          /\ spoiled' \in BOOLEAN /\ stray' \in BOOLEAN
      BY <1>2 DEF CallSender
    <3>2. acks' \in Seq(1 .. TotPkts + 1) /\ Len(acks') <= MaxAcks
      <4>1. CASE acks' = << >>
        BY <1>0, <4>1
      <4>2. ASSUME NEW a \in 1 .. TotPkts + 1, acks' = <<a>>
            PROVE  acks' \in Seq(1 .. TotPkts + 1) /\ Len(acks') <= MaxAcks
        <5>1. MaxAcks >= 1
          BY BoundAssumption
        <5> QED
          BY <1>0, <4>2, <5>1
      <4> QED
        BY <3>1, <4>1, <4>2
    <3> QED
      BY <1>0, <1>2, <3>1, <3>2
      DEF IInv, Core, MoreTypes, TypeOK, CallSender, MainTo, initialize_send
  <2>3. ThreadsInv'
    BY <1>2, <2>1 DEF IInv, Core, ThreadsInv, Over, Calls, CallSender, MainAt, MainTo, initialize_send
  <2>4. DeliveryInv'
    <3>1. /\ delivered' = {} /\ SendBase' = 1 /\ fileTransfer' = TRUE
          /\ ackPc' = ackPc /\ (spoiled' = FALSE => acks' = << >>)
      BY <1>2 DEF CallSender, initialize_send, MainTo
    <3>2. FirstMissing(delivered') >= 1
      BY <2>1, <3>1
    <3> QED
      BY <2>1, <3>1, <3>2 DEF DeliveryInv
  <2>5. WindowInv'
    BY <1>2
    DEF IInv, Core, WindowInv, Prepared, WindowSet, InLoop, CallSender, MainTo, initialize_send
  <2> QED BY <2>2, <2>3, <2>4, <2>5 DEF Core
<1>3. CASE CreateThread
  <2>1. MoreTypes'
    BY <1>3 DEF IInv, Core, MoreTypes, TypeOK, ThreadsInv, CreateThread, MainAt, MainTo, shared, peer
  <2>2. ThreadsInv'
    BY <1>3 DEF IInv, Core, MoreTypes, TypeOK, ThreadsInv, Over, CreateThread, MainAt, MainTo, shared
  <2>3. DeliveryInv'
    BY <1>3 DEF IInv, Core, DeliveryInv, CreateThread, MainTo, shared, peer
  <2>4. WindowInv'
    BY <1>3
    DEF IInv, Core, WindowInv, Prepared, WindowSet, InLoop, CreateThread, MainAt, MainTo, shared
  <2> QED BY <2>1, <2>2, <2>3, <2>4 DEF Core
<1>4. CASE CountPackets
  <2>1. MoreTypes'
    BY <1>4 DEF IInv, Core, MoreTypes, TypeOK, CountPackets, MainTo, peer
  <2>2. ThreadsInv'
    BY <1>4 DEF IInv, Core, ThreadsInv, CountPackets, MainAt, MainTo
  <2>3. DeliveryInv'
    BY <1>0, <1>4 DEF IInv, Core, DeliveryInv, CountPackets, MainTo, peer
  <2>4. WindowInv'
    BY <1>4 DEF IInv, Core, WindowInv, ThreadsInv, Prepared, WindowSet, InLoop, CountPackets,
                MainAt, MainTo
  <2> QED BY <2>1, <2>2, <2>3, <2>4 DEF Core
<1>14. CASE AllocatePackets \/ FillPackets
  <2>1. MoreTypes'
    BY <1>14 DEF IInv, Core, MoreTypes, TypeOK, AllocatePackets, FillPackets, MainTo, shared, peer
  <2>2. ThreadsInv'
    BY <1>14 DEF IInv, Core, ThreadsInv, AllocatePackets, FillPackets, MainAt, MainTo, shared
  <2>3. DeliveryInv'
    BY <1>14 DEF IInv, Core, DeliveryInv, AllocatePackets, FillPackets, MainTo, shared, peer
  <2>4. WindowInv'
    BY <1>14 DEF IInv, Core, WindowInv, Prepared, WindowSet, InLoop, AllocatePackets,
                 FillPackets, MainAt, MainTo, shared
  <2> QED BY <2>1, <2>2, <2>3, <2>4 DEF Core
<1>5. CASE TestFileTransfer
  <2>1. MoreTypes'
    BY <1>5 DEF IInv, Core, MoreTypes, TypeOK, TestFileTransfer, MainTo, shared, peer
  <2>2. ThreadsInv'
    BY <1>5 DEF IInv, Core, ThreadsInv, TestFileTransfer, MainAt, MainTo, shared
  <2>3. DeliveryInv'
    BY <1>5 DEF IInv, Core, DeliveryInv, TestFileTransfer, MainTo, shared, peer
  <2>4. WindowInv'
    BY <1>5
    DEF IInv, Core, WindowInv, Prepared, WindowSet, InLoop, TestFileTransfer, MainAt, MainTo, shared
  <2> QED BY <2>1, <2>2, <2>3, <2>4 DEF Core
<1>6. CASE ReadSendBase
  <2>1. MoreTypes'
    BY <1>6 DEF IInv, Core, MoreTypes, TypeOK, WindowInv, ReadSendBase, MainAt, MainTo, shared, peer
  <2>2. ThreadsInv'
    BY <1>6 DEF IInv, Core, ThreadsInv, ReadSendBase, MainAt, MainTo, shared
  <2>3. DeliveryInv'
    BY <1>6 DEF IInv, Core, DeliveryInv, ReadSendBase, MainTo, shared, peer
  <2>4. WindowInv'
    BY <1>6
    DEF IInv, Core, MoreTypes, TypeOK, WindowInv, Prepared, WindowSet, InLoop, Bound, ReadSendBase,
        MainAt, MainTo, shared
  <2> QED BY <2>1, <2>2, <2>3, <2>4 DEF Core
<1>7. CASE WriteWindowEnd
  <2>1. MoreTypes'
    BY <1>0, <1>7 DEF IInv, Core, MoreTypes, TypeOK, Min2, WriteWindowEnd, MainTo, peer
  <2>2. ThreadsInv'
    BY <1>7 DEF IInv, Core, ThreadsInv, WriteWindowEnd, MainAt, MainTo
  <2>3. DeliveryInv'
    BY <1>7 DEF IInv, Core, DeliveryInv, WriteWindowEnd, MainTo, peer
  <2>4. WindowInv'
    BY <1>0, <1>7
    DEF IInv, Core, MoreTypes, TypeOK, WindowInv, Prepared, InLoop, Bound, Min2, WriteWindowEnd,
        MainAt, MainTo
  <2> QED BY <2>1, <2>2, <2>3, <2>4 DEF Core
<1>8. CASE TestWindow
  <2>1. MoreTypes'
    BY <1>8 DEF IInv, Core, MoreTypes, TypeOK, TestWindow, MainTo, shared, peer
  <2>2. ThreadsInv'
    BY <1>8 DEF IInv, Core, ThreadsInv, TestWindow, MainAt, MainTo, shared
  <2>3. DeliveryInv'
    BY <1>8 DEF IInv, Core, DeliveryInv, TestWindow, MainTo, shared, peer
  <2>4. WindowInv'
    BY <1>0, <1>8
    DEF IInv, Core, MoreTypes, TypeOK, WindowInv, Prepared, WindowSet, InLoop, Bound, Min2,
        TestWindow, MainAt, MainTo, shared
  <2> QED BY <2>1, <2>2, <2>3, <2>4 DEF Core
<1>9. CASE TestTimer
  <2>1. MoreTypes'
    BY <1>9 DEF IInv, Core, MoreTypes, TypeOK, TestTimer, MainTo, shared, peer
  <2>2. ThreadsInv'
    BY <1>9 DEF IInv, Core, ThreadsInv, TestTimer, MainAt, MainTo, shared
  <2>3. DeliveryInv'
    BY <1>9 DEF IInv, Core, DeliveryInv, TestTimer, MainTo, shared, peer
  <2>4. WindowInv'
    BY <1>9
    DEF IInv, Core, WindowInv, Prepared, WindowSet, InLoop, Bound, TestTimer, MainAt, MainTo, shared
  <2> QED BY <2>1, <2>2, <2>3, <2>4 DEF Core
<1>10. CASE MainArms
  <2>1. MoreTypes'
    BY <1>10 DEF IInv, Core, MoreTypes, TypeOK, MainArms, MainTo, shared, peer
  <2>2. ThreadsInv'
    BY <1>10 DEF IInv, Core, ThreadsInv, MainArms, MainAt, MainTo, shared
  <2>3. DeliveryInv'
    BY <1>10 DEF IInv, Core, DeliveryInv, MainArms, MainTo, shared, peer
  <2>4. WindowInv'
    BY <1>10
    DEF IInv, Core, WindowInv, Prepared, WindowSet, InLoop, Bound, MainArms, MainAt, MainTo, shared
  <2> QED BY <2>1, <2>2, <2>3, <2>4 DEF Core
<1>11. CASE MainFlags
  <2>1. MoreTypes'
    BY <1>11 DEF IInv, Core, MoreTypes, TypeOK, MainFlags, MainTo, peer
  <2>2. ThreadsInv'
    BY <1>11 DEF IInv, Core, ThreadsInv, MainFlags, MainAt, MainTo
  <2>3. DeliveryInv'
    BY <1>11 DEF IInv, Core, DeliveryInv, MainFlags, MainTo, peer
  <2>4. WindowInv'
    BY <1>11 DEF IInv, Core, WindowInv, Prepared, WindowSet, InLoop, Bound, MainFlags, MainAt, MainTo
  <2> QED BY <2>1, <2>2, <2>3, <2>4 DEF Core
<1>12. CASE MainCounts
  <2>1. MoreTypes'
    BY <1>0, <1>12
    DEF IInv, Core, MoreTypes, TypeOK, WindowInv, InLoop, Bound, Min2, MainCounts, MainAt, MainTo,
        peer
  <2>2. ThreadsInv'
    BY <1>12 DEF IInv, Core, ThreadsInv, MainCounts, MainAt, MainTo
  <2>3. DeliveryInv'
    BY <1>12 DEF IInv, Core, DeliveryInv, MainCounts, MainTo, peer
  <2>4. WindowInv'
    BY <1>12
    DEF IInv, Core, MoreTypes, TypeOK, WindowInv, Prepared, WindowSet, InLoop, Bound, MainCounts,
        MainAt, MainTo
  <2> QED BY <2>1, <2>2, <2>3, <2>4 DEF Core
<1>13. CASE EndTransmission
  <2>1. MoreTypes'
    BY <1>13 DEF IInv, Core, MoreTypes, TypeOK, EndTransmission, MainTo, shared, peer
  <2>2. ThreadsInv'
    BY <1>13 DEF IInv, Core, ThreadsInv, EndTransmission, MainAt, MainTo, shared
  <2>3. DeliveryInv'
    BY <1>13 DEF IInv, Core, DeliveryInv, EndTransmission, MainTo, shared, peer
  <2>4. WindowInv'
    BY <1>13 DEF IInv, Core, WindowInv, Prepared, WindowSet, InLoop, EndTransmission, MainTo, shared
  <2> QED BY <2>1, <2>2, <2>3, <2>4 DEF Core
<1> QED
  BY <1>2, <1>3, <1>4, <1>5, <1>6, <1>7, <1>8, <1>9, <1>10, <1>11, <1>12, <1>13,
     <1>14

\* A step of an acknowledgement thread that sends nothing.
LEMMA AckStep ==
  ASSUME IInv, NEW k \in Calls,
         ReceiveAck(k) \/ AckMovesBase(k) \/ AckMovesWindow(k) \/ AckFinishes(k)
         \/ AckDisarms(k) \/ AckRearms(k) \/ AckReflags(k)
  PROVE  Core'
<1>0. TotPkts \in Nat /\ TotPkts >= 1 /\ TRAN_WIN \in Nat /\ TRAN_WIN >= 1
      /\ MaxAcks \in Nat /\ MaxTransfers \in Nat
  BY SizeAssumption, BoundAssumption
<1>1. delivered \in SUBSET (1 .. TotPkts) /\ FirstMissing(delivered) \in 1 .. TotPkts + 1
  BY FirstMissingIs DEF IInv, Core, MoreTypes, TypeOK
<1>2. CASE ReceiveAck(k)
  <2>1. /\ k = transfer /\ fileTransfer = TRUE /\ mainPc \notin {"stop", "idle", "create"}
        /\ \A j \in Calls \ {k} : ackPc[j] \in {"none", "disarm", "ended"}
    BY <1>2, CurrentThread DEF ReceiveAck, AckAt
  <2>2. /\ acks' \in Seq(1 .. TotPkts + 1) /\ Len(acks') = Len(acks) - 1 /\ Len(acks) <= MaxAcks
        /\ ack_num' \in 1 .. TotPkts + 1 /\ spoiled' = spoiled
        /\ spoiled = FALSE => /\ \A j \in 1 .. Len(acks') : acks'[j] <= FirstMissing(delivered)
                              /\ ack_num' <= FirstMissing(delivered)
    <3>1. /\ acks \in Seq(1 .. TotPkts + 1) /\ acks # << >> /\ acks' = Tail(acks)
          /\ ack_num' = Head(acks) /\ Len(acks) <= MaxAcks /\ spoiled' = spoiled
      BY <1>2 DEF ReceiveAck, IInv, Core, MoreTypes, TypeOK
    <3>2. \A j \in 1 .. Len(acks) : acks[j] \in 1 .. TotPkts + 1
      BY <3>1, ElementOfSeq
    <3>3. spoiled = FALSE => \A j \in 1 .. Len(acks) : acks[j] <= FirstMissing(delivered)
      BY DEF IInv, Core, DeliveryInv
    <3>4. Len(acks) >= 1 /\ ack_num' = acks[1]
      BY <3>1
    <3>5. /\ acks' \in Seq(1 .. TotPkts + 1) /\ Len(acks') = Len(acks) - 1
          /\ \A j \in 1 .. Len(acks') : acks'[j] = acks[j + 1] /\ j + 1 \in 1 .. Len(acks)
      BY <3>1
    <3> QED
      BY <3>1, <3>2, <3>3, <3>4, <3>5
  <2>3. MoreTypes'
    <3>1. /\ ackPc[k] = "recv" /\ DOMAIN ackPc = Calls
          /\ duplicate_ack_count \in [Calls -> 1 .. 3] /\ duplicate_ack_count[k] \in 1 .. 2
      BY <1>2 DEF ReceiveAck, AckAt, IInv, Core, MoreTypes, TypeOK
    <3>2. \/ /\ ackPc' = [ackPc EXCEPT ![k] = "base"]
             /\ duplicate_ack_count' = duplicate_ack_count
          \/ /\ ackPc' = [ackPc EXCEPT ![k] = "recv"]
             /\ duplicate_ack_count' = [duplicate_ack_count EXCEPT ![k] = @ + 1]
             /\ duplicate_ack_count'[k] # 3
          \/ /\ ackPc' = [ackPc EXCEPT ![k] = "resend"]
             /\ duplicate_ack_count' = [duplicate_ack_count EXCEPT ![k] = @ + 1]
      BY <1>2 DEF ReceiveAck, AckTo
    <3>3. /\ duplicate_ack_count' \in [Calls -> 1 .. 3]
          /\ duplicate_ack_count'[k] = 3 => ackPc'[k] \in {"base", "resend"}
          /\ \A j \in Calls \ {k} : duplicate_ack_count'[j] = duplicate_ack_count[j]
      <4>1. CASE duplicate_ack_count' = duplicate_ack_count
        BY <3>1, <4>1
      <4>2. CASE duplicate_ack_count' = [duplicate_ack_count EXCEPT ![k] = @ + 1]
        <5>1. duplicate_ack_count[k] + 1 \in 1 .. 3
          BY <3>1
        <5>2. duplicate_ack_count' \in [Calls -> 1 .. 3]
          BY <3>1, <4>2, <5>1
        <5> QED
          BY <3>1, <3>2, <4>2, <5>2
      <4> QED
        BY <3>2, <4>1, <4>2
    <3>4. ackPc' \in [Calls -> {"none", "recv", "base", "window", "finish", "disarm",
                               "resend", "rearm", "reflag", "ended"}]
      BY <3>1, <3>2 DEF IInv, Core, MoreTypes, TypeOK
    <3>5. \A j \in Calls : ackPc'[j] \in {"none", "recv", "window"}
                           => duplicate_ack_count'[j] <= 2
      <4>1. duplicate_ack_count'[k] \in 1 .. 2 \/ ackPc'[k] \in {"base", "resend"}
        BY <3>3
      <4>2. \A j \in Calls \ {k} : ackPc'[j] = ackPc[j]
        BY <3>1, <3>2
      <4> QED
        BY <3>3, <4>1, <4>2 DEF IInv, Core, MoreTypes
    <3> QED
      BY <1>0, <1>2, <3>3, <3>4, <3>5 DEF IInv, Core, MoreTypes, TypeOK, ReceiveAck, AckTo
  <2>4. ThreadsInv'
    BY <1>2 DEF IInv, Core, MoreTypes, TypeOK, ThreadsInv, Over, ReceiveAck, AckAt, AckTo
  <2>5. DeliveryInv'
    BY <1>2, <2>1, <2>2 DEF IInv, Core, MoreTypes, TypeOK, DeliveryInv, ReceiveAck, AckTo
  <2>6. WindowInv'
    BY <1>2 DEF IInv, Core, WindowInv, Bound, ReceiveAck, AckTo
  <2> QED BY <2>3, <2>4, <2>5, <2>6 DEF Core
<1>3. CASE AckMovesBase(k)
  <2>1. /\ k = transfer /\ fileTransfer = TRUE /\ mainPc \notin {"stop", "idle", "create"}
        /\ \A j \in Calls \ {k} : ackPc[j] \in {"none", "disarm", "ended"}
    BY <1>3, CurrentThread DEF AckMovesBase, AckAt
  <2>2. /\ SendBase' \in 1 .. TotPkts + 1 /\ SendBase < SendBase'
        /\ spoiled = FALSE => SendBase' <= FirstMissing(delivered)
        /\ SendBase' = ack_num /\ SendBase \in 1 .. TotPkts + 1 /\ Bound <= Bound'
        /\ Bound \in Nat /\ Bound' \in Nat
    BY <1>0, <1>1, <1>3, <2>1
    DEF AckMovesBase, AckAt, IInv, Core, MoreTypes, TypeOK, DeliveryInv, WindowInv, Bound, Min2
  <2>3. MoreTypes'
    BY <1>3 DEF IInv, Core, MoreTypes, TypeOK, AckMovesBase, AckTo, peer
  <2>4. ThreadsInv'
    BY <1>3 DEF IInv, Core, ThreadsInv, Over, AckMovesBase, AckAt, AckTo
  <2>5. DeliveryInv'
    BY <1>0, <1>3, <2>1, <2>2
    DEF IInv, Core, MoreTypes, TypeOK, DeliveryInv, AckMovesBase, AckAt, AckTo, peer
  <2>6. WindowInv'
    BY <1>3, <2>2 DEF IInv, Core, MoreTypes, TypeOK, WindowInv, AckMovesBase, AckTo
  <2> QED BY <2>3, <2>4, <2>5, <2>6 DEF Core
<1>4. CASE AckMovesWindow(k)
  <2>1. /\ k = transfer /\ fileTransfer = TRUE /\ mainPc \notin {"stop", "idle", "create"}
        /\ \A j \in Calls \ {k} : ackPc[j] \in {"none", "disarm", "ended"}
    BY <1>4, CurrentThread DEF AckMovesWindow, AckAt
  <2>2. spoiled = FALSE /\ ack_num = TotPkts + 1 => delivered = 1 .. TotPkts
    BY <1>0, <1>1, <1>4, NothingMissing
    DEF AckMovesWindow, AckAt, IInv, Core, MoreTypes, TypeOK, DeliveryInv
  <2>3. /\ SendBase \in 1 .. TotPkts + 1 /\ ack_num = SendBase /\ ack_num >= 2
        /\ tot_pkts \in {0, TotPkts} /\ tot_acked' = ack_num - 1
        /\ tot_acked' \in 0 .. TotPkts /\ WindowEnd' \in 0 .. TotPkts /\ WindowEnd' <= Bound
    BY <1>0, <1>4, <2>1
    DEF AckMovesWindow, AckAt, IInv, Core, MoreTypes, TypeOK, DeliveryInv, WindowInv, Bound, Min2
  <2>4. MoreTypes'
    <3>1. /\ ackPc' = [ackPc EXCEPT ![k] = "finish"] \/ ackPc' = [ackPc EXCEPT ![k] = "recv"]
          /\ duplicate_ack_count' = duplicate_ack_count
          /\ duplicate_ack_count[k] <= 2
      BY <1>4 DEF AckMovesWindow, AckAt, AckTo, IInv, Core, MoreTypes
    <3>2. ackPc' \in [Calls -> {"none", "recv", "base", "window", "finish", "disarm",
                               "resend", "rearm", "reflag", "ended"}]
      BY <3>1 DEF IInv, Core, MoreTypes, TypeOK
    <3>3. \A j \in Calls : ackPc'[j] \in {"none", "recv", "window"}
                           => duplicate_ack_count'[j] <= 2
      BY <3>1 DEF IInv, Core, MoreTypes, TypeOK
    <3> QED
      BY <1>4, <2>3, <3>2, <3>3 DEF IInv, Core, MoreTypes, TypeOK, AckMovesWindow, AckTo, peer
  <2>5. ThreadsInv'
    BY <1>4, <2>3 DEF IInv, Core, ThreadsInv, Over, AckMovesWindow, AckAt, AckTo
  <2>6. DeliveryInv'
    BY <1>4, <2>2, <2>3 DEF IInv, Core, DeliveryInv, AckMovesWindow, AckTo, peer
  <2>7. WindowInv'
    BY <1>4, <2>3 DEF IInv, Core, WindowInv, Bound, AckMovesWindow, AckTo
  <2> QED BY <2>4, <2>5, <2>6, <2>7 DEF Core
<1>5. CASE AckFinishes(k)
  <2>1. /\ k = transfer /\ fileTransfer = TRUE /\ mainPc \notin {"stop", "idle", "create"}
        /\ \A j \in Calls \ {k} : ackPc[j] \in {"none", "disarm", "ended"}
    BY <1>5, CurrentThread DEF AckFinishes, AckAt
  <2>2. MoreTypes'
    BY <1>5 DEF IInv, Core, MoreTypes, TypeOK, AckFinishes, AckTo, peer
  <2>3. ThreadsInv'
    BY <1>5 DEF IInv, Core, MoreTypes, TypeOK, ThreadsInv, Over, Calls, AckFinishes, AckAt, AckTo
  <2>4. DeliveryInv'
    BY <1>5 DEF IInv, Core, DeliveryInv, AckFinishes, AckAt, AckTo, peer
  <2>5. WindowInv'
    BY <1>5 DEF IInv, Core, WindowInv, Bound, AckFinishes, AckTo
  <2> QED BY <2>2, <2>3, <2>4, <2>5 DEF Core
<1>6. CASE AckDisarms(k)
  <2>1. MoreTypes'
    BY <1>6 DEF IInv, Core, MoreTypes, TypeOK, AckDisarms, AckTo, shared, peer
  <2>2. ThreadsInv'
    BY <1>6 DEF IInv, Core, ThreadsInv, Over, AckDisarms, AckAt, AckTo, shared
  <2>3. DeliveryInv'
    BY <1>6 DEF IInv, Core, DeliveryInv, AckDisarms, AckTo, shared, peer
  <2>4. WindowInv'
    BY <1>6 DEF IInv, Core, WindowInv, Bound, AckDisarms, AckTo, shared
  <2> QED BY <2>1, <2>2, <2>3, <2>4 DEF Core
<1>7. CASE AckRearms(k)
  <2>1. MoreTypes'
    BY <1>7 DEF IInv, Core, MoreTypes, TypeOK, AckRearms, AckTo, shared, peer
  <2>2. ThreadsInv'
    BY <1>7 DEF IInv, Core, ThreadsInv, Over, AckRearms, AckAt, AckTo, shared
  <2>3. DeliveryInv'
    BY <1>7 DEF IInv, Core, DeliveryInv, AckRearms, AckTo, shared, peer
  <2>4. WindowInv'
    BY <1>7 DEF IInv, Core, WindowInv, Bound, AckRearms, AckTo, shared
  <2> QED BY <2>1, <2>2, <2>3, <2>4 DEF Core
<1>8. CASE AckReflags(k)
  <2>1. MoreTypes'
    BY <1>8 DEF IInv, Core, MoreTypes, TypeOK, AckReflags, AckTo, peer
  <2>2. ThreadsInv'
    BY <1>8 DEF IInv, Core, ThreadsInv, Over, AckReflags, AckAt, AckTo
  <2>3. DeliveryInv'
    BY <1>8 DEF IInv, Core, DeliveryInv, AckReflags, AckTo, peer
  <2>4. WindowInv'
    BY <1>8 DEF IInv, Core, WindowInv, Bound, AckReflags, AckTo
  <2> QED BY <2>1, <2>2, <2>3, <2>4 DEF Core
<1> QED
  BY <1>2, <1>3, <1>4, <1>5, <1>6, <1>7, <1>8

\* A step of the timer or of a handler that sends nothing.
LEMMA HandlerStep ==
  ASSUME IInv, NEW t \in Threads,
         TimerExpires \/ Deliver(t) \/ HandlerClears(t) \/ HandlerArms(t) \/ HandlerFlags(t)
  PROVE  Core'
<1>0. TotPkts \in Nat /\ TotPkts >= 1 /\ TRAN_WIN \in Nat /\ TRAN_WIN >= 1
      /\ MaxAcks \in Nat /\ MaxTransfers \in Nat
  BY SizeAssumption, BoundAssumption
<1>1. delivered \in SUBSET (1 .. TotPkts) /\ FirstMissing(delivered) \in 1 .. TotPkts + 1
  BY FirstMissingIs DEF IInv, Core, MoreTypes, TypeOK
<1>2. CASE TimerExpires
  <2>1. MoreTypes'
    BY <1>2 DEF IInv, Core, MoreTypes, TypeOK, TimerExpires, HandlerTo, shared, peer, pcs
  <2>2. ThreadsInv'
    BY <1>2 DEF IInv, Core, ThreadsInv, TimerExpires, HandlerTo, shared, pcs
  <2>3. DeliveryInv'
    BY <1>2 DEF IInv, Core, DeliveryInv, TimerExpires, HandlerTo, shared, peer, pcs
  <2>4. WindowInv'
    BY <1>2 DEF IInv, Core, WindowInv, Bound, TimerExpires, HandlerTo, shared, pcs
  <2> QED BY <2>1, <2>2, <2>3, <2>4 DEF Core
<1>3. CASE Deliver(t)
  <2>1. MoreTypes'
    BY <1>3 DEF IInv, Core, MoreTypes, TypeOK, Deliver, HandlerTo, shared, peer, pcs
  <2>2. ThreadsInv'
    BY <1>3 DEF IInv, Core, ThreadsInv, Deliver, HandlerTo, shared, pcs
  <2>3. DeliveryInv'
    BY <1>3 DEF IInv, Core, DeliveryInv, Deliver, HandlerTo, shared, peer, pcs
  <2>4. WindowInv'
    BY <1>3 DEF IInv, Core, WindowInv, Bound, Deliver, HandlerTo, shared, pcs
  <2> QED BY <2>1, <2>2, <2>3, <2>4 DEF Core
<1>4. CASE HandlerClears(t)
  <2>1. MoreTypes'
    BY <1>4 DEF IInv, Core, MoreTypes, TypeOK, HandlerClears, HandlerTo, peer, pcs
  <2>2. ThreadsInv'
    BY <1>4 DEF IInv, Core, ThreadsInv, HandlerClears, HandlerTo, pcs
  <2>3. DeliveryInv'
    BY <1>4 DEF IInv, Core, DeliveryInv, HandlerClears, HandlerTo, peer, pcs
  <2>4. WindowInv'
    BY <1>4 DEF IInv, Core, WindowInv, Bound, HandlerClears, HandlerTo, pcs
  <2> QED BY <2>1, <2>2, <2>3, <2>4 DEF Core
<1>5. CASE HandlerArms(t)
  <2>1. MoreTypes'
    BY <1>5 DEF IInv, Core, MoreTypes, TypeOK, HandlerArms, HandlerTo, shared, peer, pcs
  <2>2. ThreadsInv'
    BY <1>5 DEF IInv, Core, ThreadsInv, HandlerArms, HandlerTo, shared, pcs
  <2>3. DeliveryInv'
    BY <1>5 DEF IInv, Core, DeliveryInv, HandlerArms, HandlerTo, shared, peer, pcs
  <2>4. WindowInv'
    BY <1>5 DEF IInv, Core, WindowInv, Bound, HandlerArms, HandlerTo, shared, pcs
  <2> QED BY <2>1, <2>2, <2>3, <2>4 DEF Core
<1>6. CASE HandlerFlags(t)
  <2>1. MoreTypes'
    BY <1>6 DEF IInv, Core, MoreTypes, TypeOK, HandlerFlags, HandlerTo, peer, pcs
  <2>2. ThreadsInv'
    BY <1>6 DEF IInv, Core, ThreadsInv, HandlerFlags, HandlerTo, pcs
  <2>3. DeliveryInv'
    BY <1>6 DEF IInv, Core, DeliveryInv, HandlerFlags, HandlerTo, peer, pcs
  <2>4. WindowInv'
    BY <1>6 DEF IInv, Core, WindowInv, Bound, HandlerFlags, HandlerTo, pcs
  <2> QED BY <2>1, <2>2, <2>3, <2>4 DEF Core
<1> QED
  BY <1>2, <1>3, <1>4, <1>5, <1>6

\* A step that sends a packet.
LEMMA SendStep ==
  ASSUME IInv, NEW k \in Calls, NEW t \in Threads, NEW lost \in BOOLEAN,
         MainSends(lost) \/ AckResends(k, lost) \/ HandlerSends(t, lost)
  PROVE  Core'
<1>0. TotPkts \in Nat /\ TotPkts >= 1 /\ TRAN_WIN \in Nat /\ TRAN_WIN >= 1
      /\ MaxAcks \in Nat /\ MaxTransfers \in Nat
  BY SizeAssumption, BoundAssumption
<1>1. delivered \in SUBSET (1 .. TotPkts) /\ FirstMissing(delivered) \in 1 .. TotPkts + 1
  BY FirstMissingIs DEF IInv, Core, MoreTypes, TypeOK
<1>2. CASE MainSends(lost)
  <2>1. /\ delivered' \in SUBSET (1 .. TotPkts)
        /\ acks' \in Seq(1 .. TotPkts + 1) /\ Len(acks') <= MaxAcks
        /\ spoiled' \in BOOLEAN /\ stray' \in BOOLEAN
        /\ FirstMissing(delivered') \in 1 .. TotPkts + 1
        /\ spoiled' = FALSE =>
             /\ spoiled = FALSE
             /\ \A j \in 1 .. Len(acks') : acks'[j] <= FirstMissing(delivered')
             /\ FirstMissing(delivered) <= FirstMissing(delivered')
             /\ delivered = 1 .. TotPkts => delivered' = delivered
    BY <1>2, SendPacket, FirstMissingIs DEF MainSends
  <2>2. MoreTypes'
    BY <1>2, <2>1 DEF IInv, Core, MoreTypes, TypeOK, MainSends, MainTo, shared
  <2>3. ThreadsInv'
    BY <1>2 DEF IInv, Core, ThreadsInv, MainSends, MainAt, MainTo, shared
  <2>4. DeliveryInv'
    BY <1>1, <1>2, <2>1 DEF IInv, Core, MoreTypes, TypeOK, DeliveryInv, MainSends, MainTo, shared
  <2>5. WindowInv'
    BY <1>2
    DEF IInv, Core, WindowInv, Prepared, WindowSet, InLoop, Bound, MainSends, MainAt, MainTo, shared
  <2> QED BY <2>2, <2>3, <2>4, <2>5 DEF Core
<1>3. CASE AckResends(k, lost)
  <2>1. /\ delivered' \in SUBSET (1 .. TotPkts)
        /\ acks' \in Seq(1 .. TotPkts + 1) /\ Len(acks') <= MaxAcks
        /\ spoiled' \in BOOLEAN /\ stray' \in BOOLEAN
        /\ FirstMissing(delivered') \in 1 .. TotPkts + 1
        /\ spoiled' = FALSE =>
             /\ spoiled = FALSE
             /\ \A j \in 1 .. Len(acks') : acks'[j] <= FirstMissing(delivered')
             /\ FirstMissing(delivered) <= FirstMissing(delivered')
             /\ delivered = 1 .. TotPkts => delivered' = delivered
    BY <1>3, SendPacket, FirstMissingIs DEF AckResends
  <2>2. MoreTypes'
    BY <1>3, <2>1 DEF IInv, Core, MoreTypes, TypeOK, AckResends, AckTo, shared
  <2>3. ThreadsInv'
    BY <1>3 DEF IInv, Core, ThreadsInv, Over, AckResends, AckAt, AckTo, shared
  <2>4. DeliveryInv'
    BY <1>1, <1>3, <2>1 DEF IInv, Core, MoreTypes, TypeOK, DeliveryInv, AckResends, AckTo, shared
  <2>5. WindowInv'
    BY <1>3 DEF IInv, Core, WindowInv, Bound, AckResends, AckTo, shared
  <2> QED BY <2>2, <2>3, <2>4, <2>5 DEF Core
<1>4. CASE HandlerSends(t, lost)
  <2>1. /\ delivered' \in SUBSET (1 .. TotPkts)
        /\ acks' \in Seq(1 .. TotPkts + 1) /\ Len(acks') <= MaxAcks
        /\ spoiled' \in BOOLEAN /\ stray' \in BOOLEAN
        /\ FirstMissing(delivered') \in 1 .. TotPkts + 1
        /\ spoiled' = FALSE =>
             /\ spoiled = FALSE
             /\ \A j \in 1 .. Len(acks') : acks'[j] <= FirstMissing(delivered')
             /\ FirstMissing(delivered) <= FirstMissing(delivered')
             /\ delivered = 1 .. TotPkts => delivered' = delivered
    BY <1>4, SendPacket, FirstMissingIs DEF HandlerSends
  <2>2. MoreTypes'
    BY <1>4, <2>1 DEF IInv, Core, MoreTypes, TypeOK, HandlerSends, HandlerTo, shared
  <2>3. ThreadsInv'
    BY <1>4 DEF IInv, Core, ThreadsInv, HandlerSends, HandlerTo, shared
  <2>4. DeliveryInv'
    BY <1>1, <1>4, <2>1
    DEF IInv, Core, MoreTypes, TypeOK, DeliveryInv, HandlerSends, HandlerTo, shared
  <2>5. WindowInv'
    BY <1>4 DEF IInv, Core, WindowInv, Bound, HandlerSends, HandlerTo, shared
  <2> QED BY <2>2, <2>3, <2>4, <2>5 DEF Core
<1> QED
  BY <1>2, <1>3, <1>4

LEMMA StutterStep == IInv /\ UNCHANGED vars => Core'
BY DEF IInv, Core, MoreTypes, TypeOK, ThreadsInv, DeliveryInv, WindowInv, Bound, vars, pcs,
       shared, alarm, peer

\* In the first transfer no signal is handled before the packets are ready, and what is
\* sent later, to a peer that still misses something, is a packet of the file.
LEMMA FirstStep ==
  ASSUME IInv, [Next]_vars
  PROVE  FirstInv'
<1>0. /\ transfer \in 0 .. MaxTransfers /\ MaxTransfers \in Nat /\ spoiled \in BOOLEAN
      /\ DOMAIN handlerPc = Threads /\ DOMAIN ackPc = Calls /\ TotPkts \in Nat
  BY SizeAssumption, BoundAssumption DEF IInv, Core, MoreTypes, TypeOK
<1>1. CASE UNCHANGED vars
  BY <1>1 DEF IInv, FirstInv, Quiet, vars, pcs, alarm, peer
<1>2. CASE CallSender
  <2>1. CASE transfer = 0
    <3>1. /\ transfer' = 1 /\ acks' = << >> /\ spoiled' = FALSE
          /\ UNCHANGED <<ackPc, handlerPc, timer, sigalrm>>
      BY <1>2, <2>1 DEF IInv, FirstInv, CallSender, MainTo, alarm
    <3>2. \A k \in Calls : ackPc[k] = "none"
      BY <1>0, <2>1 DEF IInv, Core, ThreadsInv, Calls
    <3> QED
      BY <2>1, <3>1, <3>2 DEF IInv, FirstInv, Quiet
  <2>2. CASE transfer # 0
    <3>1. transfer' \notin {0, 1}
      BY <1>0, <1>2, <2>2 DEF CallSender
    <3> QED
      BY <3>1 DEF FirstInv
  <2> QED
    BY <2>1, <2>2
<1>3. CASE Next /\ ~CallSender /\ transfer = 0
  <2>1. mainPc = "idle" /\ Quiet /\ \A k \in Calls : ackPc[k] = "none"
    BY <1>0, <1>3 DEF IInv, Core, ThreadsInv, FirstInv, Calls
  <2>2. ~TimerExpires /\ (\A t \in Threads : ~Deliver(t) /\ ~Handler(t))
    BY <2>1 DEF Quiet, TimerExpires, Deliver, Handler, HandlerClears, HandlerSends,
                HandlerArms, HandlerFlags
  <2>3. \A k \in Calls : ~AckThread(k)
    BY <2>1 DEF AckThread, ReceiveAck, AckMovesBase, AckMovesWindow, AckFinishes, AckDisarms,
                AckRearms, AckReflags, AckResends, AckAt
  <2> QED
    BY <1>3, <2>1, <2>2, <2>3
    DEF Next, Main, CreateThread, CountPackets, AllocatePackets, FillPackets, TestFileTransfer,
        ReadSendBase, WriteWindowEnd, TestWindow, TestTimer, MainArms, MainFlags, MainCounts,
        EndTransmission, MainSends, MainAt
<1>4. CASE Next /\ ~CallSender /\ transfer # 0
  <2>1. transfer' = transfer
    BY <1>4 DEF Next, Main, CreateThread, CountPackets, AllocatePackets, FillPackets,
       TestFileTransfer, ReadSendBase, WriteWindowEnd, TestWindow, TestTimer, MainArms,
       MainFlags, MainCounts, EndTransmission, MainSends, AckThread, ReceiveAck, AckMovesBase,
       AckMovesWindow, AckFinishes, AckDisarms, AckRearms, AckReflags, AckResends,
       TimerExpires, Deliver, Handler, HandlerClears, HandlerSends, HandlerArms, HandlerFlags
  <2>2. SUFFICES ASSUME transfer = 1
                 PROVE  FirstInv'
    BY <1>4, <2>1 DEF FirstInv
  <2>3. CASE mainPc \in Preparing
    <3>1. Quiet /\ acks = << >> /\ spoiled = FALSE
          /\ \A k \in Calls : ackPc[k] \in {"none", "recv"}
      BY <2>2, <2>3 DEF IInv, FirstInv
    <3>2. ~TimerExpires /\ (\A t \in Threads : ~Deliver(t) /\ ~Handler(t))
      BY <3>1 DEF Quiet, TimerExpires, Deliver, Handler, HandlerClears, HandlerSends,
                  HandlerArms, HandlerFlags
    <3>3. \A k \in Calls : ~AckThread(k)
      BY <3>1 DEF AckThread, ReceiveAck, AckMovesBase, AckMovesWindow, AckFinishes, AckDisarms,
                  AckRearms, AckReflags, AckResends, AckAt
    <3>4. CreateThread \/ CountPackets \/ AllocatePackets \/ FillPackets
      BY <1>4, <2>3, <3>2, <3>3
      DEF Preparing, Next, Main, TestFileTransfer, ReadSendBase, WriteWindowEnd, TestWindow,
          TestTimer, MainArms, MainFlags, MainCounts, EndTransmission, MainSends, MainAt
    <3>5. /\ UNCHANGED <<timer, sigalrm, handlerPc, acks, spoiled>>
          /\ ackPc' = ackPc \/ ackPc' = [ackPc EXCEPT ![transfer] = "recv"]
      BY <3>4 DEF CreateThread, CountPackets, AllocatePackets, FillPackets, MainTo, alarm, peer
    <3>6. \A k \in Calls : ackPc'[k] \in {"none", "recv"}
      BY <1>0, <3>1, <3>5
    <3>7. Quiet'
      BY <3>1, <3>5 DEF Quiet
    <3> QED
      BY <2>1, <2>2, <3>1, <3>5, <3>6, <3>7 DEF FirstInv
  <2>4. CASE mainPc \notin Preparing
    <3>1. spoiled = FALSE
      BY <2>2 DEF IInv, FirstInv
    <3>2. mainPc' \notin Preparing
      BY <1>4, <2>4
      DEF Preparing, Next, Main, CreateThread, CountPackets, AllocatePackets, FillPackets,
          TestFileTransfer, ReadSendBase, WriteWindowEnd, TestWindow, TestTimer, MainArms,
          MainFlags, MainCounts, EndTransmission, MainSends, AckThread, ReceiveAck,
          AckMovesBase, AckMovesWindow, AckFinishes, AckDisarms, AckRearms, AckReflags,
          AckResends, TimerExpires, Deliver, Handler, HandlerClears, HandlerSends, HandlerArms,
          HandlerFlags, MainAt, MainTo, AckTo, HandlerTo, pcs
    <3>3. spoiled' = FALSE
      <4>1. ASSUME NEW s \in {SendBase, NextSeqNum}, NEW lost \in BOOLEAN,
                   send_packet(s, lost), s = NextSeqNum => mainPc = "send" \/ s = SendBase
            PROVE  spoiled' = FALSE
        <5>4. CASE delivered = 1 .. TotPkts
          BY <3>1, <4>1, <5>4, SendPacket
        <5>5. SUFFICES ASSUME delivered # 1 .. TotPkts
                       PROVE  spoiled' = FALSE
          BY <5>4
        <5>1. SendBase \in 1 .. TotPkts + 1 /\ FirstMissing(delivered) \in 1 .. TotPkts + 1
              /\ SendBase <= FirstMissing(delivered) /\ delivered \in SUBSET (1 .. TotPkts)
          <6>1. delivered \in SUBSET (1 .. TotPkts)
            BY DEF IInv, Core, MoreTypes, TypeOK
          <6>2. SendBase <= FirstMissing(delivered)
            BY <3>1 DEF IInv, Core, DeliveryInv
          <6>3. SendBase >= 1
            <7>1. fileTransfer # FALSE
              BY <3>1, <5>5 DEF IInv, Core, DeliveryInv
            <7>2. mainPc = "idle" /\ transfer > 0 => fileTransfer = FALSE
              BY DEF IInv, Core, ThreadsInv
            <7>3. transfer > 0
              BY <2>2
            <7>4. mainPc # "idle"
              BY <7>1, <7>2, <7>3
            <7> QED
              BY <7>4 DEF IInv, Core, WindowInv
          <6> QED
            BY <1>0, <6>1, <6>2, <6>3, FirstMissingIs DEF IInv, Core, MoreTypes, TypeOK
        <5>2. CASE s = SendBase
          <6>1. s \in 1 .. TotPkts \/ delivered = 1 .. TotPkts
            BY <1>0, <5>1, <5>2, NothingMissing
          <6>2. OfNoFile(s) => delivered = 1 .. TotPkts
            BY <2>4, <6>1 DEF OfNoFile, Preparing
          <6> QED
            BY <3>1, <4>1, <6>2, SendPacket
        <5>3. CASE s # SendBase
          <6>1. s = NextSeqNum /\ mainPc = "send"
            BY <4>1, <5>3
          <6>2. s \in 1 .. TotPkts
            BY <1>0, <6>1, SizeAssumption
            DEF IInv, Core, MoreTypes, TypeOK, WindowInv, InLoop, Bound, Min2
          <6>3. ~OfNoFile(s)
            BY <2>4, <6>2 DEF OfNoFile, Preparing
          <6> QED
            BY <3>1, <4>1, <6>3, SendPacket
        <5> QED
          BY <5>2, <5>3
      <4>2. \/ UNCHANGED spoiled
            \/ \E lost \in BOOLEAN : \/ mainPc = "send" /\ send_packet(NextSeqNum, lost)
                                     \/ send_packet(SendBase, lost)
        BY <1>4
        DEF Next, Main, CreateThread, CountPackets, AllocatePackets, FillPackets,
            TestFileTransfer, ReadSendBase, WriteWindowEnd, TestWindow, TestTimer, MainArms,
            MainFlags, MainCounts, EndTransmission, MainSends, AckThread, ReceiveAck,
            AckMovesBase, AckMovesWindow, AckFinishes, AckDisarms, AckRearms, AckReflags,
            AckResends, TimerExpires, Deliver, Handler, HandlerClears, HandlerSends,
            HandlerArms, HandlerFlags, MainAt, peer
      <4> QED
        BY <3>1, <4>1, <4>2
    <3> QED
      BY <2>1, <2>2, <3>2, <3>3 DEF FirstInv
  <2> QED
    BY <2>3, <2>4
<1> QED
  BY <1>1, <1>2, <1>3, <1>4

LEMMA Inductive == IInv /\ [Next]_vars => IInv'
<1>1. 1 \in Calls /\ 0 \in Threads
  BY BoundAssumption DEF Calls, Threads
<1>2. ASSUME IInv, Main PROVE Core'
  BY <1>1, <1>2, MainStep, SendStep DEF Main
<1>3. ASSUME IInv, NEW k \in Calls, AckThread(k) PROVE Core'
  BY <1>1, <1>3, AckStep, SendStep DEF AckThread
<1>4. ASSUME IInv, NEW t \in Threads, TimerExpires \/ Deliver(t) \/ Handler(t) PROVE Core'
  BY <1>1, <1>4, HandlerStep, SendStep DEF Handler
<1>5. ASSUME IInv, [Next]_vars PROVE Core'
  BY <1>1, <1>2, <1>3, <1>4, <1>5, StutterStep DEF Next
<1> QED
  BY <1>5, FirstStep DEF IInv

-----------------------------------------------------------------------------
(* The timer and its flag within one transfer.                               *)

\* The timer runs, or the signal it has raised is on its way, or its handler is about to
\* start it again.
Covered ==
  timer = TRUE \/ sigalrm = TRUE \/ \E t \in Threads : handlerPc[t] \in {"clear", "send", "arm"}

\* No activity has set the flag or is about to.
Unflagged ==
  /\ isTimerStarted = FALSE /\ mainPc # "flag"
  /\ \A k \in Calls : ackPc[k] # "reflag"
  /\ \A t \in Threads : handlerPc[t] # "flag"

FlagInv ==
  /\ fileTransfer = TRUE => Covered \/ Unflagged
  /\ transfer = 0 => /\ mainPc = "idle" /\ isTimerStarted = FALSE
                     /\ timer = FALSE /\ sigalrm = FALSE
                     /\ \A t \in Threads : handlerPc[t] = "none"

LEMMA FlagInit == Init => FlagInv
BY DEF Init, FlagInv, Unflagged, Calls, Threads

\* Before the first call of sender() nothing else can happen.
LEMMA FlagFirst ==
  ASSUME IInv, FlagInv, Next, transfer = 0
  PROVE  FlagInv'
<1>1. /\ \A k \in Calls : ackPc[k] = "none"
      /\ mainPc = "idle" /\ timer = FALSE /\ sigalrm = FALSE
      /\ \A t \in Threads : handlerPc[t] = "none"
  BY DEF IInv, Core, MoreTypes, TypeOK, ThreadsInv, FlagInv, Calls
<1>2. ~TimerExpires /\ (\A t \in Threads : ~Deliver(t) /\ ~Handler(t))
  BY <1>1 DEF TimerExpires, Deliver, Handler, HandlerClears, HandlerSends, HandlerArms,
              HandlerFlags
<1>3. \A k \in Calls : ~AckThread(k)
  BY <1>1 DEF AckThread, ReceiveAck, AckMovesBase, AckMovesWindow, AckFinishes, AckDisarms,
              AckRearms, AckReflags, AckResends, AckAt
<1>4. CallSender
  BY <1>1, <1>2, <1>3 DEF Next, Main, CreateThread, CountPackets, AllocatePackets,
     FillPackets, TestFileTransfer,
     ReadSendBase, WriteWindowEnd, TestWindow, TestTimer, MainArms, MainFlags, MainCounts,
     EndTransmission, MainSends, MainAt
<1> QED
  BY <1>1, <1>4 DEF CallSender, initialize_send, MainTo, FlagInv, Unflagged

\* With one transfer, the timer is uncovered only at the end of the file.
LEMMA FlagStep ==
  ASSUME MaxTransfers = 1, IInv, FlagInv, Next, transfer # 0
  PROVE  FlagInv'
<1>1. transfer = 1 /\ ~CallSender /\ Calls = {1}
  BY DEF IInv, Core, MoreTypes, TypeOK, CallSender, Calls
<1>2. transfer' = transfer /\ (fileTransfer' = fileTransfer \/ fileTransfer' = FALSE)
  BY <1>1 DEF Next, Main, CreateThread, CountPackets, AllocatePackets,
     FillPackets, TestFileTransfer,
     ReadSendBase, WriteWindowEnd, TestWindow, TestTimer, MainArms, MainFlags, MainCounts,
     EndTransmission, MainSends, AckThread, ReceiveAck, AckMovesBase, AckMovesWindow,
     AckFinishes, AckDisarms, AckRearms, AckReflags, AckResends, TimerExpires, Deliver,
     Handler, HandlerClears, HandlerSends, HandlerArms, HandlerFlags, shared
<1>3. SUFFICES ASSUME fileTransfer = TRUE, Covered \/ Unflagged
               PROVE  Covered' \/ Unflagged'
  BY <1>1, <1>2 DEF FlagInv
<1>4. ~EndTransmission /\ \A k \in Calls : ~AckDisarms(k)
  BY <1>1, <1>3 DEF EndTransmission, AckDisarms, MainAt, AckAt, IInv, Core, ThreadsInv, Over
<1>5. CASE Main
  <2>1. CASE MainArms
    BY <2>1 DEF MainArms, Covered
  <2>2. CASE MainFlags
    BY <1>3, <2>2 DEF MainFlags, MainAt, MainTo, alarm, Covered, Unflagged
  <2>3. CASE ~MainArms /\ ~MainFlags
    <3>1. /\ timer' = timer /\ sigalrm' = sigalrm /\ handlerPc' = handlerPc
          /\ isTimerStarted' = isTimerStarted /\ mainPc' # "flag"
          /\ \A k \in Calls : ackPc'[k] = ackPc[k] \/ ackPc'[k] = "recv"
      BY <1>1, <1>4, <1>5, <2>3 DEF Main, CreateThread, CountPackets, AllocatePackets,
     FillPackets, TestFileTransfer,
         ReadSendBase, WriteWindowEnd, TestWindow, TestTimer, MainCounts, MainSends, MainTo,
         shared, alarm, IInv, Core, MoreTypes, TypeOK
    <3> QED
      BY <1>3, <3>1 DEF Covered, Unflagged
  <2> QED
    BY <2>1, <2>2, <2>3
<1>6. ASSUME NEW k \in Calls, AckThread(k) PROVE Covered' \/ Unflagged'
  <2>1. CASE AckRearms(k)
    BY <2>1 DEF AckRearms, Covered
  <2>2. CASE AckReflags(k)
    BY <1>3, <2>2 DEF AckReflags, AckAt, AckTo, alarm, Covered, Unflagged
  <2>3. CASE ~AckRearms(k) /\ ~AckReflags(k)
    <3>1. /\ timer' = timer /\ sigalrm' = sigalrm /\ handlerPc' = handlerPc
          /\ isTimerStarted' = isTimerStarted /\ mainPc' = mainPc
          /\ \A j \in Calls : ackPc'[j] = ackPc[j] \/ ackPc'[j] # "reflag"
      BY <1>1, <1>4, <1>6, <2>3 DEF AckThread, ReceiveAck, AckMovesBase, AckMovesWindow,
         AckFinishes, AckResends, AckTo, shared, alarm, IInv, Core, MoreTypes, TypeOK
    <3> QED
      BY <1>3, <3>1 DEF Covered, Unflagged
  <2> QED
    BY <2>1, <2>2, <2>3
<1>7. CASE TimerExpires
  BY <1>7 DEF TimerExpires, Covered
<1>8. ASSUME NEW t \in Threads, Deliver(t) \/ Handler(t) PROVE Covered' \/ Unflagged'
  <2>0. DOMAIN handlerPc = Threads
    BY DEF IInv, Core, MoreTypes, TypeOK
  <2>1. CASE Deliver(t)
    BY <2>0, <2>1 DEF Deliver, HandlerTo, Covered
  <2>2. CASE HandlerClears(t)
    BY <2>0, <2>2 DEF HandlerClears, HandlerTo, Covered
  <2>3. ASSUME NEW lost \in BOOLEAN, HandlerSends(t, lost) PROVE Covered'
    BY <2>0, <2>3 DEF HandlerSends, HandlerTo, Covered
  <2>4. CASE HandlerArms(t)
    BY <2>4 DEF HandlerArms, Covered
  <2>5. CASE HandlerFlags(t)
    <3>1. Covered /\ timer' = timer /\ sigalrm' = sigalrm
      BY <1>3, <2>5 DEF HandlerFlags, Unflagged, alarm
    <3>2. \A u \in Threads : handlerPc[u] \in {"clear", "send", "arm"}
                             => handlerPc'[u] = handlerPc[u]
      BY <2>0, <2>5 DEF HandlerFlags, HandlerTo
    <3> QED
      BY <3>1, <3>2 DEF Covered
  <2> QED
    BY <1>8, <2>1, <2>2, <2>3, <2>4, <2>5 DEF Handler
<1> QED
  BY <1>5, <1>6, <1>7, <1>8 DEF Next

-----------------------------------------------------------------------------
(* Theorems.                                                                 *)

\* The counters, the program counters and the socket stay in range, however late the
\* thread and the signals of earlier transfers are.
THEOREM TypeCorrect == Spec => []TypeOK
<1>1. IInv => TypeOK
  BY DEF IInv, Core, MoreTypes
<1> QED
  BY <1>1, InitInv, Inductive, PTL DEF Spec

\* The main thread never sends a packet for the first time outside the window, though
\* WindowEnd has two writers and no lock (sender.c:110, :185, :192).
THEOREM SendsInWindow == Spec => []MainSendsInWindow
<1>1. IInv => MainSendsInWindow
  BY DEF IInv, Core, WindowInv, MainSendsInWindow, InLoop, Bound
<1> QED
  BY <1>1, InitInv, Inductive, PTL DEF Spec

\* sender() returns only when the peer has every packet of this transfer, in the first
\* transfer of a process always, in a later one unless its peer has taken a packet that a
\* signal of the transfer before has sent from the wrong array.
THEOREM EndsWhenDelivered == Spec => []EndsOnlyWhenDelivered
<1>1. IInv => EndsOnlyWhenDelivered
  BY DEF IInv, Core, MoreTypes, TypeOK, ThreadsInv, DeliveryInv, FirstInv,
         EndsOnlyWhenDelivered
<1> QED
  BY <1>1, InitInv, Inductive, PTL DEF Spec

\* In the first transfer of a process, isTimerStarted is never left set with nothing to
\* retransmit for it, in any interleaving of the two threads and the handler. (With a
\* second transfer it may be: the thread of the first still has its set_timer(0) to do.)
THEOREM FlagCorrect ==
  ASSUME MaxTransfers = 1
  PROVE  Spec => []FlagTellsTimer
<1>1. IInv /\ FlagInv /\ UNCHANGED vars => FlagInv'
  BY DEF FlagInv, Covered, Unflagged, vars, pcs, shared, alarm
<1>2. IInv /\ FlagInv /\ [Next]_vars => FlagInv'
  BY <1>1, FlagFirst, FlagStep
<1>3. IInv /\ FlagInv => FlagTellsTimer
  BY DEF FlagInv, Covered, Unflagged, FlagTellsTimer
<1> QED
  BY <1>2, <1>3, InitInv, FlagInit, Inductive, PTL DEF Spec
=============================================================================
