--------------------------- MODULE SelectiveRepeat ---------------------------
(***************************************************************************)
(* The earlier protocol: sender (src/jacSender.c) and receiver             *)
(* (src/jacReceiver.c), one thread each.  Packets are numbered modulo N    *)
(* and acknowledged one by one; both windows are N \div 2 slots of an      *)
(* array of N, and go round.  A side gives up after MAX_ERR timeouts in a  *)
(* row, and the receiver's caller then removes the file.                   *)
(*                                                                         *)
(* The header basic.h is not in the repository: N (FLYING) and MAX_ERR are *)
(* constants here, correct_send is the choice `lost', and since the values *)
(* of the timeouts are unknown any recvfrom may time out at any time.  The *)
(* network keeps order and does not duplicate.  A packet is a slot number, *)
(* seq, and its index in the file, standing for its data.                  *)
(***************************************************************************)
EXTENDS Integers, Sequences, FiniteSets, SequencesExt

CONSTANTS
  N,        \* slots of the arrays
  tot_pkts, \* packets of the file
  MAX_ERR,  \* consecutive timeouts after which a side gives up
  Capacity  \* bound: datagrams on their way in one direction, more are lost

\* With windows of one slot the test base < max of the code would take every
\* window for one that wraps.
ASSUME WindowAssumption ==
  N \in Nat /\ N >= 4 /\ tot_pkts \in Nat
  /\ MAX_ERR \in Nat \ {0} /\ Capacity \in Nat

window == N \div 2
Slots == 0 .. N - 1

VARIABLES
  snd,        \* sender: "loop", "recv_ack", "finished" or "failed"
  base,       \* first slot of its window
  check_pkt,  \* per slot: 0 to send, 1 sent, 2 acknowledged
  pkt,        \* per slot: the packet of the file that is loaded
  read,       \* packets read from the file, those beyond its end included
  tot_sent, tot_ack, err_count,
  rcv,        \* receiver: "recv", "received" or "failed" (the file is removed)
  rbase,      \* its base
  held,       \* its check_pkt, as the set of slots marked 1
  buffer,     \* its pkt
  written,    \* packets written to the file
  error_count,
  packets, acks  \* in flight

senderVars == <<snd, base, check_pkt, pkt, read, tot_sent, tot_ack, err_count>>
receiverVars == <<rcv, rbase, held, buffer, written, error_count>>
vars == <<senderVars, receiverVars, packets, acks>>

Packet(seq, index) == [seq |-> seq, index |-> index]
EndPacket == Packet(-1, 0)

Slot(b, k) == (b + k) % N
\* The slots from b to max: both cases of the test base < max.
InWindow(b, s) == s \in {Slot(b, k) : k \in 0 .. window - 1}

\* How many slots the window moves: those marked, from its base to the first that is not.
Advance(b, marked) ==
  CHOOSE n \in 0 .. window :
    /\ \A k \in 0 .. n - 1 : Slot(b, k) \in marked
    /\ n < window => Slot(b, n) \notin marked
Passed(b, n) == {Slot(b, k) : k \in 0 .. n - 1}

-----------------------------------------------------------------------------
(* Sender.                                                                   *)

MoreToSend == tot_ack < tot_pkts /\ err_count < MAX_ERR

\* How far a slot is from the base.
Offset(s) == (s - base) % N

ToSend == {s \in Slots : InWindow(base, s) /\ check_pkt[s] = 0}

\* Mutant of Unsent: without the test of tot_sent.
Unsent_all == ToSend

\* The slots send_window sends: those to send, from the base on, as long as there are
\* packets of the file that are not out.
Unsent ==
  {s \in ToSend :
     Cardinality({t \in ToSend : Offset(t) < Offset(s)}) < tot_pkts - tot_sent}

InOrder(sent) ==
  {f \in [1 .. Cardinality(sent) -> sent] :
     \A j, k \in DOMAIN f : j < k => Offset(f[j]) < Offset(f[k])}

\* Some of the packets are lost, on purpose or by the network.
send_window ==
  /\ snd = "loop" /\ MoreToSend
  /\ \E sent \in SUBSET Unsent : \E f \in InOrder(sent) :
       packets' = packets \o [k \in 1 .. Cardinality(sent) |-> Packet(f[k], pkt[f[k]])]
  /\ Len(packets') <= Capacity
  /\ check_pkt' = [s \in Slots |-> IF s \in Unsent THEN 1 ELSE check_pkt[s]]
  /\ tot_sent' = tot_sent + Cardinality(Unsent)
  /\ snd' = "recv_ack"
  /\ UNCHANGED <<base, pkt, read, tot_ack, err_count, receiverVars, acks>>

\* Mutant of Accepts: a repeated acknowledgement counts again.
Accepts_again(s) == InWindow(base, s)

\* An acknowledgement counts when it is in the window, and once.
Accepts(s) == InWindow(base, s) /\ check_pkt[s] # 2

\* How far beyond the window a slot is.
NewPlace(s) == (s - base - window) % N

\* The window moves over what is acknowledged, and the slots it takes in are loaded.
recv_ack ==
  /\ snd = "recv_ack" /\ acks # << >>
  /\ acks' = Tail(acks)
  /\ err_count' = 0
  /\ LET s == Head(acks)
         acked == {t \in Slots : check_pkt[t] = 2} \cup IF Accepts(s) THEN {s} ELSE {}
         new_read == Advance(base, acked)
         passed == Passed(base, new_read)
     IN /\ tot_ack' = IF Accepts(s) THEN tot_ack + 1 ELSE tot_ack
        /\ check_pkt' = [t \in Slots |-> IF t \in passed THEN 0
                                         ELSE IF t \in acked THEN 2 ELSE check_pkt[t]]
        /\ base' = Slot(base, new_read)
        /\ pkt' = [t \in Slots |-> IF NewPlace(t) < new_read THEN read + NewPlace(t) ELSE pkt[t]]
        /\ read' = read + new_read
  /\ snd' = "loop"
  /\ UNCHANGED <<tot_sent, receiverVars, packets>>

\* Mutant of ack_timeout: only acknowledgements that arrive count.
ack_timeout_patient ==
  /\ snd = "recv_ack"
  /\ check_pkt' = [s \in Slots |-> IF check_pkt[s] = 1 THEN 0 ELSE check_pkt[s]]
  /\ tot_sent' = tot_sent - Cardinality({s \in Slots : check_pkt[s] = 1})
  /\ snd' = "loop"
  /\ UNCHANGED <<base, pkt, read, tot_ack, err_count, receiverVars, packets, acks>>

\* Mutant of ack_timeout: the packets to send again stay counted as sent.
ack_timeout_counted ==
  /\ snd = "recv_ack"
  /\ err_count' = err_count + 1
  /\ check_pkt' = [s \in Slots |-> IF check_pkt[s] = 1 THEN 0 ELSE check_pkt[s]]
  /\ snd' = "loop"
  /\ UNCHANGED <<base, pkt, read, tot_ack, tot_sent, receiverVars, packets, acks>>

\* Every packet of the window that is not acknowledged is to be sent again.
ack_timeout ==
  /\ snd = "recv_ack"
  /\ err_count' = err_count + 1
  /\ check_pkt' = [s \in Slots |-> IF InWindow(base, s) /\ check_pkt[s] = 1
                                   THEN 0 ELSE check_pkt[s]]
  /\ tot_sent' = tot_sent - Cardinality({s \in Slots : InWindow(base, s) /\ check_pkt[s] = 1})
  /\ snd' = "loop"
  /\ UNCHANGED <<base, pkt, read, tot_ack, receiverVars, packets, acks>>

\* Mutant of SenderEnds: the end packet is sent by a sender that has failed, too.
SenderEnds_always(lost) ==
  /\ snd = "loop" /\ ~MoreToSend
  /\ snd' = IF err_count = MAX_ERR THEN "failed" ELSE "finished"
  /\ packets' = IF lost THEN packets ELSE Append(packets, EndPacket)
  /\ Len(packets') <= Capacity
  /\ UNCHANGED <<base, check_pkt, pkt, read, tot_sent, tot_ack, err_count, receiverVars, acks>>

\* The loop is over: failed, or the end packet is sent, once, and may be lost.
SenderEnds(lost) ==
  /\ snd = "loop" /\ ~MoreToSend
  /\ IF err_count = MAX_ERR
     THEN /\ snd' = "failed" /\ ~lost
          /\ packets' = packets
     ELSE /\ snd' = "finished"
          /\ packets' = IF lost THEN packets ELSE Append(packets, EndPacket)
          /\ Len(packets') <= Capacity
  /\ UNCHANGED <<base, check_pkt, pkt, read, tot_sent, tot_ack, err_count, receiverVars, acks>>

-----------------------------------------------------------------------------
(* Receiver.                                                                 *)

\* Mutant of Takes: the window is not looked at.
Takes_any(s) == s \notin held

Takes(s) == InWindow(rbase, s) /\ s \notin held

\* Every packet is acknowledged, also one that is thrown away; the
\* acknowledgement may be lost.  What is now in order is written.
recv_window(lost) ==
  /\ rcv = "recv" /\ packets # << >> /\ Head(packets) # EndPacket
  /\ packets' = Tail(packets)
  /\ error_count' = 0
  /\ LET s == Head(packets).seq
         marked == held \cup IF Takes(s) THEN {s} ELSE {}
         new_write == Advance(rbase, marked)
     IN /\ acks' = IF lost THEN acks ELSE Append(acks, s)
        /\ buffer' = IF Takes(s) THEN [buffer EXCEPT ![s] = Head(packets).index] ELSE buffer
        /\ held' = marked \ Passed(rbase, new_write)
        /\ written' = written \o [k \in 1 .. new_write |-> buffer'[Slot(rbase, k - 1)]]
        /\ rbase' = Slot(rbase, new_write)
  /\ Len(acks') <= Capacity
  /\ UNCHANGED <<rcv, senderVars>>

recv_end ==
  /\ rcv = "recv" /\ packets # << >> /\ Head(packets) = EndPacket
  /\ packets' = Tail(packets)
  /\ error_count' = 0
  /\ rcv' = "received"
  /\ UNCHANGED <<rbase, held, buffer, written, senderVars, acks>>

\* At the last of MAX_ERR in a row receiver returns -1 and the file is removed.
pkt_timeout ==
  /\ rcv = "recv"
  /\ error_count' = error_count + 1
  /\ rcv' = IF error_count + 1 = MAX_ERR THEN "failed" ELSE "recv"
  /\ UNCHANGED <<rbase, held, buffer, written, senderVars, packets, acks>>

-----------------------------------------------------------------------------
Init ==
  /\ snd = "loop" /\ base = 0
  /\ check_pkt = [s \in Slots |-> 0]
  /\ pkt = [s \in Slots |-> IF s < window THEN s ELSE 0]
  /\ read = window /\ tot_sent = 0 /\ tot_ack = 0 /\ err_count = 0
  /\ rcv = "recv" /\ rbase = 0 /\ held = {}
  /\ buffer = [s \in Slots |-> 0]
  /\ written = << >> /\ error_count = 0
  /\ packets = << >> /\ acks = << >>

Sender == send_window \/ recv_ack \/ ack_timeout \/ \E lost \in BOOLEAN : SenderEnds(lost)
Receiver == (\E lost \in BOOLEAN : recv_window(lost)) \/ recv_end \/ pkt_timeout
Next == Sender \/ Receiver
Spec == Init /\ [][Next]_vars
FairSpec == Spec /\ WF_vars(Sender) /\ WF_vars(Receiver)

-----------------------------------------------------------------------------
(* Properties.                                                               *)

File == [k \in 1 .. tot_pkts |-> k - 1]

\* Every variable is in its range; the counters cannot leave the file.
TypeOK ==
  /\ snd \in {"loop", "recv_ack", "finished", "failed"}
  /\ rcv \in {"recv", "received", "failed"}
  /\ base \in Slots /\ rbase \in Slots
  /\ check_pkt \in [Slots -> 0 .. 2]
  /\ pkt \in [Slots -> Nat] /\ buffer \in [Slots -> Nat]
  /\ read \in Nat
  /\ tot_ack \in 0 .. tot_pkts /\ tot_sent \in 0 .. tot_pkts
  /\ err_count \in 0 .. MAX_ERR /\ error_count \in 0 .. MAX_ERR
  /\ held \in SUBSET Slots
  /\ written \in Seq(Nat)
  /\ packets \in Seq([seq : Slots \cup {-1}, index : Nat])
  /\ acks \in Seq(Slots)

\* What the receiver writes is the file from its start, each packet once, in
\* order: a slot number never brings a packet of another round of the window.
WrittenIsPrefix == IsPrefix(written, File)

\* "File transfer finished" (jacSender.c:64) is printed, and the file accepted
\* (jacReceiver.c:31), only when the whole file is written.
FinishedMeansWhole == snd = "finished" \/ rcv = "received" => written = File

\* tot_sent counts the packets that are out or acknowledged and tot_ack those
\* acknowledged: the slots of the window say the same as the counters, through
\* every timeout and every move, and no slot beyond the end of the file is out.
CountersAgree ==
  LET behind == read - window
      marked(v) == Cardinality({s \in Slots : check_pkt[s] = v})
  IN /\ tot_ack = behind + marked(2)
     /\ tot_sent = tot_ack + marked(1)
     /\ \A s \in Slots : check_pkt[s] # 0 => InWindow(base, s) /\ pkt[s] < tot_pkts

\* Neither side waits for ever for the other, whatever is lost.
BothReturn == <>(snd \in {"finished", "failed"} /\ rcv \in {"received", "failed"})

\* A transfer is a StreamDelivery: packets are written in order while the receiver is at
\* work, the sender finishes when the file is whole and the receiver keeps it after that.
Delivery == INSTANCE StreamDelivery WITH
  sender <- IF snd \in {"finished", "failed"} THEN snd ELSE "sending",
  receiver <- IF rcv = "recv" THEN "receiving" ELSE rcv,
  file <- written

Implements == Delivery!Spec
=============================================================================
