------------------------ MODULE SelectiveRepeatProofs ------------------------
(***************************************************************************)
(* Proofs about SelectiveRepeat, for any file, any number of slots, any    *)
(* network of its kind and any timeouts: what the receiver writes is the   *)
(* file, since a slot number never brings a packet, or an acknowledgement, *)
(* of another round of the window.                                         *)
(***************************************************************************)
EXTENDS SelectiveRepeat, FiniteSetTheorems, TLAPS

\* Where the two windows are in the file, and the slot of each of its packets.
SendBase == read - window
ReceiveBase == Len(written)
At(i) == i % N
Marked(v) == {s \in Slots : check_pkt[s] = v}

Received(i) == i < ReceiveBase \/ (At(i) \in held /\ buffer[At(i)] = i)

Types ==
  /\ snd \in {"loop", "recv_ack", "finished", "failed"}
  /\ rcv \in {"recv", "received", "failed"}
  /\ base \in Slots /\ rbase \in Slots
  /\ check_pkt \in [Slots -> 0 .. 2]
  /\ pkt \in [Slots -> Nat] /\ buffer \in [Slots -> Nat]
  /\ read \in Nat /\ tot_ack \in Nat /\ tot_sent \in Nat
  /\ err_count \in 0 .. MAX_ERR /\ error_count \in 0 .. MAX_ERR
  /\ held \in SUBSET Slots
  /\ written \in Seq(Nat)
  /\ packets \in Seq([seq : Slots \cup {-1}, index : Nat])
  /\ acks \in Seq(Slots)

\* The sender: its arrays hold its window of the file, its counters count them, and it
\* waits for acknowledgements when all of the window is out.
SenderInv ==
  /\ SendBase \in 0 .. tot_pkts /\ base = At(SendBase)
  /\ \A k \in 0 .. window - 1 : pkt[At(SendBase + k)] = SendBase + k
  /\ \A s \in Slots : check_pkt[s] # 0 =>
       \E k \in 0 .. window - 1 : s = At(SendBase + k) /\ SendBase + k < tot_pkts
  /\ tot_ack = SendBase + Cardinality(Marked(2))
  /\ tot_sent = tot_ack + Cardinality(Marked(1))
  /\ snd = "recv_ack" =>
       /\ err_count < MAX_ERR
       /\ \A k \in 0 .. window - 1 :
            SendBase + k < tot_pkts => check_pkt[At(SendBase + k)] # 0
  /\ snd = "finished" => tot_ack >= tot_pkts

\* The receiver: it has written all but what it holds, and does not hold the next packet.
ReceiverInv ==
  /\ ReceiveBase <= tot_pkts /\ rbase = At(ReceiveBase) /\ rbase \notin held
  /\ \A k \in 1 .. ReceiveBase : written[k] = k - 1
  /\ \A s \in held : \E k \in 0 .. window - 1 :
       s = At(ReceiveBase + k) /\ buffer[s] = ReceiveBase + k /\ ReceiveBase + k < tot_pkts
  /\ rcv = "recv" => error_count < MAX_ERR
  /\ rcv = "received" => snd = "finished"

\* The two windows overlap, and the receiver has what the sender takes for acknowledged.
Windows ==
  /\ SendBase <= ReceiveBase /\ ReceiveBase <= SendBase + window
  /\ \A s \in held : buffer[s] < SendBase + window
  /\ \A k \in 0 .. window - 1 :
       check_pkt[At(SendBase + k)] = 2 => Received(SendBase + k)

\* A packet in flight is less than a window behind everything received or ahead of it.
InFlight(p) ==
  /\ p = Packet(At(p.index), p.index) /\ p.index \in Nat
  /\ p.index < tot_pkts /\ p.index < SendBase + window
  /\ ReceiveBase <= p.index + window
  /\ \A s \in held : buffer[s] < p.index + window

PacketsInv ==
  /\ \A k \in 1 .. Len(packets) : IF packets[k] = EndPacket THEN snd = "finished"
                                  ELSE InFlight(packets[k])
  /\ \A j, k \in 1 .. Len(packets) :
       j < k /\ packets[j] # EndPacket /\ packets[k] # EndPacket
         => packets[j].index < packets[k].index + window

\* Each acknowledgement in flight is for a packet received, less than a window behind
\* everything acknowledged or ahead of it: index[k] is the packet, acks[k] its slot.
Acknowledged(index) ==
  /\ \A k \in 1 .. Len(acks) :
       /\ acks[k] = At(index[k]) /\ Received(index[k])
       /\ SendBase <= index[k] + window
       /\ \A m \in 0 .. window - 1 :
            check_pkt[At(SendBase + m)] = 2 => SendBase + m < index[k] + window
  /\ \A j, k \in 1 .. Len(acks) : j < k => index[j] < index[k] + window

AcksInv == \E index \in [1 .. Len(acks) -> Nat] : Acknowledged(index)

IInv == Types /\ SenderInv /\ ReceiverInv /\ Windows /\ PacketsInv /\ AcksInv

-----------------------------------------------------------------------------
(* Slots.                                                                    *)

LEMMA WindowIs ==
  /\ N \in Nat /\ window \in Nat /\ window >= 2 /\ 2 * window <= N
  /\ tot_pkts \in Nat /\ MAX_ERR \in Nat /\ MAX_ERR > 0
BY WindowAssumption DEF window

LEMMA DivMod ==
  ASSUME NEW n \in Nat, n > 0, NEW a \in Int
  PROVE  a % n \in 0 .. n - 1 /\ a \div n \in Int /\ a = n * (a \div n) + (a % n)
<1>1. a % n \in 0 .. n - 1 /\ a \div n \in Int
  OBVIOUS
<1>2. a = (a \div n) * n + (a % n)
  BY Z3
<1> DEFINE q == a \div n
<1>3. q \in Int /\ a = q * n + (a % n)
  BY <1>1, <1>2
<1> HIDE DEF q
<1>4. q * n = n * q
  BY <1>3
<1>5. a = n * q + (a % n)
  BY <1>3, <1>4, Zenon
<1>6. a = n * (a \div n) + (a % n)
  BY <1>5, Zenon DEF q
<1> QED
  BY <1>1, <1>6, Zenon

\* A quotient and a remainder are unique.
LEMMA Division ==
  ASSUME NEW n \in Nat, n > 0, NEW q \in Int, NEW p \in Int,
         NEW r \in 0 .. n - 1, NEW s \in 0 .. n - 1, n * q + r = n * p + s
  PROVE  q = p /\ r = s
<1>1. CASE q > p
  <2>1. n * (q - p) >= n
    BY <1>1
  <2>2. n * (q - p) = n * q - n * p
    OBVIOUS
  <2> QED
    BY <2>1, <2>2
<1>2. CASE p > q
  <2>1. n * (p - q) >= n
    BY <1>2
  <2>2. n * (p - q) = n * p - n * q
    OBVIOUS
  <2> QED
    BY <2>1, <2>2
<1>3. CASE q = p
  BY <1>3
<1> QED
  BY <1>1, <1>2, <1>3

LEMMA Remainder ==
  ASSUME NEW n \in Nat, n > 0, NEW a \in Int, NEW q \in Int, NEW r \in 0 .. n - 1, a = n * q + r
  PROVE  a % n = r
BY DivMod, Division

LEMMA SlotOfPacket ==
  ASSUME NEW i \in Nat
  PROVE  At(i) \in Slots
BY WindowIs, DivMod DEF At, Slots

\* Packets less than N apart have different slots.
LEMMA SameSlot ==
  ASSUME NEW i \in Nat, NEW j \in Nat, At(i) = At(j), i < j + N, j < i + N
  PROVE  i = j
<1>1. N \in Nat /\ N > 0
  BY WindowIs
<1>2. /\ i = N * (i \div N) + At(i) /\ j = N * (j \div N) + At(j)
      /\ i \div N \in Int /\ j \div N \in Int
  BY <1>1, DivMod DEF At
<1> DEFINE p == i \div N
           q == j \div N
<1>3. p \in Int /\ q \in Int /\ i - j = N * p - N * q
  <2>1. p \in Int /\ q \in Int /\ i = N * p + At(i) /\ j = N * q + At(i) /\ At(i) \in Int
    BY <1>1, <1>2, DivMod DEF At
  <2> HIDE DEF p, q
  <2>2. N * p \in Int /\ N * q \in Int
    BY <1>1, <2>1
  <2> QED
    BY <2>1, <2>2
<1> HIDE DEF p, q
<1>4. N * p - N * q = N * (p - q)
  BY <1>1, <1>3
<1>5. p > q => N * (p - q) >= N
  BY <1>1, <1>3
<1>6. q > p => N * (q - p) >= N /\ N * (q - p) = 0 - N * (p - q)
  BY <1>1, <1>3
<1>7. p = q => N * (p - q) = 0
  BY <1>1, <1>3
<1> QED
  BY <1>1, <1>3, <1>4, <1>5, <1>6, <1>7

\* A slot counted from the base of the window at packet i.
LEMMA SlotFrom ==
  ASSUME NEW i \in Nat, NEW k \in Nat
  PROVE  Slot(At(i), k) = At(i + k)
<1>1. N \in Nat /\ N > 0
  BY WindowIs
<1> DEFINE r == i % N
           p == i \div N
           s == (r + k) % N
           q == (r + k) \div N
<1>2. r \in 0 .. N - 1 /\ p \in Int /\ i = N * p + r
  BY <1>1, DivMod
<1>3. s \in 0 .. N - 1 /\ q \in Int /\ r + k = N * q + s
  BY <1>1, <1>2, DivMod
<1> HIDE DEF p, q, r, s
<1>4. i + k = N * (p + q) + s
  BY <1>1, <1>2, <1>3
<1>5. (i + k) % N = s
  <2>1. i + k \in Int /\ p + q \in Int
    BY <1>2, <1>3
  <2> QED
    BY <1>1, <1>3, <1>4, <2>1, Remainder
<1> QED
  BY <1>5 DEF Slot, At, r, s

\* And back.
LEMMA PlaceFrom ==
  ASSUME NEW i \in Nat, NEW d \in Nat, NEW k \in 0 .. N - 1
  PROVE  (At(i + d + k) - At(i) - d) % N = k
<1>1. N \in Nat /\ N > 0
  BY WindowIs
<1> DEFINE j == i + d + k
           r == i % N
           p == i \div N
           s == j % N
           q == j \div N
<1>2. r \in 0 .. N - 1 /\ p \in Int /\ i = N * p + r
  BY <1>1, DivMod
<1>3. s \in 0 .. N - 1 /\ q \in Int /\ j = N * q + s
  BY <1>1, DivMod
<1>4. s - r - d = N * (p - q) + k
  <2>1. i + d + k = N * q + s
    BY <1>3
  <2> HIDE DEF p, q, r, s, j
  <2> QED
    BY <1>1, <1>2, <1>3, <2>1
<1> HIDE DEF p, q, r, s
<1>5. (s - r - d) % N = k
  <2>1. s - r - d \in Int /\ p - q \in Int
    BY <1>2, <1>3
  <2> QED
    BY <1>1, <1>4, <2>1, Remainder
<1> QED
  BY <1>5 DEF At, r, s

-----------------------------------------------------------------------------
(* Windows.                                                                  *)

\* The slots of a window at packet i, and of its first n packets.
LEMMA WindowOf ==
  ASSUME NEW i \in Nat, NEW s
  PROVE  /\ InWindow(At(i), s) <=> \E k \in 0 .. window - 1 : s = At(i + k)
         /\ \A n \in Nat : Passed(At(i), n) = {At(i + k) : k \in 0 .. n - 1}
<1>1. \A k \in Nat : Slot(At(i), k) = At(i + k)
  BY SlotFrom
<1>2. \A n \in Nat : 0 .. n - 1 \subseteq Nat
  OBVIOUS
<1>3. window \in Nat
  BY WindowIs
<1>4. InWindow(At(i), s) <=> \E k \in 0 .. window - 1 : s = At(i + k)
  BY <1>1, <1>2, <1>3 DEF InWindow
<1>5. \A n \in Nat : Passed(At(i), n) = {At(i + k) : k \in 0 .. n - 1}
  BY <1>1, <1>2 DEF Passed
<1> QED
  BY <1>4, <1>5

LEMMA OffsetOf ==
  ASSUME NEW i \in Nat, base = At(i), NEW k \in 0 .. N - 1
  PROVE  Offset(At(i + k)) = k
<1>1. (At(i + 0 + k) - At(i) - 0) % N = k
  BY PlaceFrom
<1>2. i + 0 + k = i + k /\ k \in Nat
  BY WindowIs
<1>3. At(i + k) - At(i) - 0 = At(i + k) - At(i)
  BY <1>2, SlotOfPacket DEF Slots
<1> QED
  BY <1>1, <1>2, <1>3 DEF Offset

\* A set of numbers that is not empty has a least one.
LEMMA LeastOf ==
  ASSUME NEW S \in SUBSET Nat, S # {}
  PROVE  \E n \in S : \A m \in S : n <= m
<1> DEFINE R == OpToRel(<, Nat)
<1>1. \A x, y \in Nat : x < y => <<x, y>> \in R
  BY DEF OpToRel
<1>2. IsWellFoundedOn(R, Nat)
  BY NatLessThanWellFounded
<1> HIDE DEF R
<1>3. PICK n \in S : \A m \in S : <<m, n>> \notin R
  BY <1>2, WFMin
<1>4. \A m \in S : ~ (m < n)
  BY <1>1, <1>3
<1> QED
  BY <1>3, <1>4

\* A window moves to the first of its packets that is not marked.
LEMMA AdvanceIs ==
  ASSUME NEW i \in Nat, NEW marked
  PROVE  LET n == Advance(At(i), marked) IN
         /\ n \in 0 .. window
         /\ \A k \in 0 .. n - 1 : At(i + k) \in marked
         /\ n < window => At(i + n) \notin marked
<1> DEFINE First(n) == /\ \A k \in 0 .. n - 1 : Slot(At(i), k) \in marked
                       /\ n < window => Slot(At(i), n) \notin marked
           Stops == {n \in 0 .. window : n < window => Slot(At(i), n) \notin marked}
<1>1. window \in Nat
  BY WindowIs
<1>2. window \in Stops /\ Stops \in SUBSET Nat
  BY <1>1
<1>3. PICK n \in Stops : \A m \in Stops : n <= m
  BY <1>2, LeastOf
<1>4. \A k \in 0 .. n - 1 : k \in 0 .. window /\ k \notin Stops /\ k < window
  BY <1>1, <1>3
<1>5. n \in 0 .. window /\ First(n)
  BY <1>3, <1>4
<1>6. Advance(At(i), marked) = CHOOSE m \in 0 .. window : First(m)
  BY DEF Advance
<1> DEFINE a == Advance(At(i), marked)
<1>7. a \in 0 .. window /\ First(a)
  BY <1>5, <1>6
<1>8. \A k \in Nat : Slot(At(i), k) = At(i + k)
  BY SlotFrom
<1> HIDE DEF a
<1>9. /\ \A k \in 0 .. a - 1 : At(i + k) \in marked
      /\ a < window => At(i + a) \notin marked
  BY <1>1, <1>7, <1>8
<1> QED
  BY <1>7, <1>9 DEF a

\* No two of N packets in a row share a slot, so that a set of them is as large as theirs.
LEMMA SlotsOf ==
  ASSUME NEW i \in Nat, NEW n \in 0 .. N
  PROVE  LET S == {At(i + k) : k \in 0 .. n - 1} IN
         S \subseteq Slots /\ IsFiniteSet(S) /\ Cardinality(S) = n
<1> DEFINE K == 0 .. n - 1
           S == {At(i + k) : k \in K}
           f == [k \in K |-> At(i + k)]
<1>1. N \in Nat /\ n \in Nat
  BY WindowIs
<1>2. IsFiniteSet(K) /\ Cardinality(K) = n
  BY <1>1, FS_Interval
<1>3. \A k \in K : i + k \in Nat
  BY <1>1
<1>4. S \subseteq Slots
  BY <1>3, SlotOfPacket
<1>5. \A j, k \in K : f[j] = f[k] => j = k
  <2> TAKE j, k \in K
  <2>1. HAVE f[j] = f[k]
  <2>2. i + j = i + k
    BY <1>1, <1>3, <2>1, SameSlot
  <2> QED
    BY <1>1, <2>2
<1>6. f \in Bijection(K, S)
  BY <1>5 DEF Bijection, Injection, Surjection, IsInjective
<1>7. ExistsBijection(K, S)
  BY <1>6 DEF ExistsBijection
<1> HIDE DEF K, S
<1>8. IsFiniteSet(S) /\ Cardinality(S) = n
  BY <1>2, <1>7, FS_Bijection
<1> QED
  BY <1>4, <1>8 DEF S, K

LEMMA SlotSets ==
  ASSUME NEW S \in SUBSET Slots
  PROVE  IsFiniteSet(S) /\ Cardinality(S) \in Nat
<1>1. IsFiniteSet(Slots)
  BY WindowIs, FS_Interval DEF Slots
<1> QED
  BY <1>1, FS_Subset, FS_CardinalityType

LEMMA DisjointSets ==
  ASSUME NEW S \in SUBSET Slots, NEW T \in SUBSET Slots, S \cap T = {}
  PROVE  Cardinality(S \cup T) = Cardinality(S) + Cardinality(T)
<1>1. Cardinality(S \cup T) = Cardinality(S) + Cardinality(T) - Cardinality(S \cap T)
  BY SlotSets, FS_Union
<1> QED
  BY <1>1, SlotSets, FS_EmptySet

-----------------------------------------------------------------------------
(* The sender.                                                               *)

\* The first n slots of the sender's window.
First(n) == {At(SendBase + k) : k \in 0 .. n - 1}
Out == Marked(1) \cup Marked(2)

\* What is out or acknowledged is of the file, and tot_sent counts it.
LEMMA OutIs ==
  ASSUME Types, SenderInv
  PROVE  /\ Out \subseteq Slots /\ Out = {s \in Slots : check_pkt[s] # 0}
         /\ Cardinality(Out) = Cardinality(Marked(1)) + Cardinality(Marked(2))
         /\ Cardinality(Out) \in Nat /\ tot_sent = SendBase + Cardinality(Out)
         /\ Out \subseteq First(window) /\ Out \subseteq First(tot_pkts - SendBase)
         /\ tot_sent <= tot_pkts
<1>1. /\ Marked(1) \in SUBSET Slots /\ Marked(2) \in SUBSET Slots
      /\ Marked(1) \cap Marked(2) = {}
  BY DEF Marked
<1>2. Cardinality(Out) = Cardinality(Marked(1)) + Cardinality(Marked(2))
  BY <1>1, DisjointSets DEF Out
<1>3. Out \in SUBSET Slots /\ Out = {s \in Slots : check_pkt[s] # 0}
  BY DEF Types, Out, Marked
<1>4. Cardinality(Out) \in Nat
  BY <1>3, SlotSets
<1>5. SendBase \in Nat /\ tot_pkts \in Nat /\ SendBase <= tot_pkts /\ window \in Nat
  BY WindowIs DEF SenderInv
<1>6. \A s \in Out : \E k \in 0 .. window - 1 : s = At(SendBase + k) /\ SendBase + k < tot_pkts
  BY <1>3 DEF SenderInv
<1>7. Out \subseteq First(window) /\ Out \subseteq First(tot_pkts - SendBase)
  BY <1>5, <1>6 DEF First
<1>8. tot_sent = SendBase + Cardinality(Out)
  BY <1>1, <1>2, <1>4, <1>5, SlotSets DEF SenderInv
<1>9. Cardinality(Out) <= tot_pkts - SendBase
  <2> DEFINE d == tot_pkts - SendBase
  <2>1. CASE d <= window
    <3>1. d \in 0 .. N
      BY <1>5, <2>1, WindowIs
    <3>2. IsFiniteSet(First(d)) /\ Cardinality(First(d)) = d
      BY <1>5, <3>1, SlotsOf DEF First
    <3> QED
      BY <1>7, <3>2, FS_Subset
  <2>2. CASE d > window
    <3>1. window \in 0 .. N
      BY WindowIs
    <3>2. IsFiniteSet(First(window)) /\ Cardinality(First(window)) = window
      BY <1>5, <3>1, SlotsOf DEF First
    <3>3. Cardinality(Out) <= window
      BY <1>7, <3>2, FS_Subset
    <3> QED
      BY <1>4, <1>5, <2>2, <3>3
  <2> QED
    BY <1>5, <2>1, <2>2
<1>10. tot_sent <= tot_pkts
  BY <1>4, <1>5, <1>8, <1>9
<1> QED
  BY <1>2, <1>3, <1>4, <1>7, <1>8, <1>10

LEMMA ToSendIs ==
  ASSUME Types, SenderInv
  PROVE  /\ \A s : s \in ToSend <=> \E k \in 0 .. window - 1 :
                                      s = At(SendBase + k) /\ check_pkt[s] = 0
         /\ \A k \in 0 .. window - 1 : Offset(At(SendBase + k)) = k /\ At(SendBase + k) \in Slots
<1>1. SendBase \in Nat /\ base = At(SendBase) /\ window \in Nat /\ window <= N /\ N \in Nat
  BY WindowIs DEF SenderInv
<1>2. \A k \in 0 .. window - 1 : k \in 0 .. N - 1 /\ SendBase + k \in Nat
  BY <1>1
<1>3. \A k \in 0 .. window - 1 : Offset(At(SendBase + k)) = k /\ At(SendBase + k) \in Slots
  BY <1>1, <1>2, OffsetOf, SlotOfPacket
<1>4. \A s : InWindow(base, s) <=> \E k \in 0 .. window - 1 : s = At(SendBase + k)
  BY <1>1, WindowOf
<1> QED
  BY <1>3, <1>4 DEF ToSend

\* The test of tot_sent is one of the end of the file: the slots to send that are
\* before a slot, and those that are out, are all the packets before it.
LEMMA UnsentIs ==
  ASSUME Types, SenderInv, NEW k \in 0 .. window - 1
  PROVE  At(SendBase + k) \in Unsent <=>
           check_pkt[At(SendBase + k)] = 0 /\ SendBase + k < tot_pkts
<1> DEFINE s == At(SendBase + k)
           Before == {t \in ToSend : Offset(t) < Offset(s)}
<1>0. /\ SendBase \in Nat /\ tot_pkts \in Nat /\ SendBase <= tot_pkts /\ window \in Nat
      /\ window <= N /\ N \in Nat
  BY WindowIs DEF SenderInv
<1>1. s \in Unsent <=> s \in ToSend /\ Cardinality(Before) < tot_pkts - tot_sent
  BY DEF Unsent
<1>2. s \in ToSend <=> check_pkt[s] = 0
  BY ToSendIs
<1>3. SUFFICES ASSUME check_pkt[s] = 0
               PROVE  Cardinality(Before) < tot_pkts - tot_sent <=> SendBase + k < tot_pkts
  BY <1>1, <1>2
<1>4. Before \subseteq Slots /\ Before \cap Out = {} /\ Before \cup Out = First(k) \cup Out
  <2>1. Before \subseteq Slots
    BY ToSendIs
  <2>2. Before \cap Out = {}
    BY OutIs DEF ToSend
  <2>3. Before \subseteq First(k)
    <3>1. ASSUME NEW t \in Before PROVE t \in First(k)
      <4>1. PICK j \in 0 .. window - 1 : t = At(SendBase + j)
        BY <3>1, ToSendIs
      <4>2. Offset(t) = j /\ Offset(s) = k
        BY <4>1, ToSendIs
      <4>3. j \in 0 .. k - 1
        BY <1>0, <3>1, <4>2
      <4> QED
        BY <4>1, <4>3 DEF First
    <3> QED
      BY <3>1
  <2>4. First(k) \subseteq Before \cup Out
    <3>1. ASSUME NEW j \in 0 .. k - 1, At(SendBase + j) \notin Out
          PROVE  At(SendBase + j) \in Before
      <4>1. j \in 0 .. window - 1 /\ j < k
        BY <1>0
      <4>2. At(SendBase + j) \in Slots /\ check_pkt[At(SendBase + j)] = 0
        BY <3>1, <4>1, OutIs, ToSendIs
      <4>3. At(SendBase + j) \in ToSend
        BY <4>1, <4>2, ToSendIs
      <4>4. Offset(At(SendBase + j)) = j /\ Offset(s) = k
        BY <4>1, ToSendIs
      <4> QED
        BY <4>1, <4>3, <4>4
    <3> QED
      BY <3>1 DEF First
  <2> QED
    BY <2>1, <2>2, <2>3, <2>4
<1> HIDE DEF Before
<1>5. /\ Cardinality(First(k) \cup Out) = Cardinality(Before) + Cardinality(Out)
      /\ Cardinality(Before) \in Nat
  BY <1>4, OutIs, DisjointSets, SlotSets
<1>6. CASE SendBase + k < tot_pkts
  <2> DEFINE m == IF window <= tot_pkts - SendBase THEN window ELSE tot_pkts - SendBase
  <2>1. m \in 0 .. N /\ m <= tot_pkts - SendBase /\ k < m
    BY <1>0, <1>6
  <2>2. First(m) \subseteq Slots /\ IsFiniteSet(First(m)) /\ Cardinality(First(m)) = m
    BY <1>0, <2>1, SlotsOf DEF First
  <2>3. s \in First(m) /\ s \notin First(k) /\ First(k) \subseteq First(m)
    <3>1. \A j \in 0 .. k - 1 : SendBase + j \in Nat /\ SendBase + k < SendBase + j + N
      BY <1>0
    <3>2. \A j \in 0 .. k - 1 : At(SendBase + j) # s
      BY <1>0, <3>1, SameSlot
    <3> QED
      BY <1>0, <2>1, <3>2 DEF First
  <2>4. Out \subseteq First(m) /\ s \notin Out
    BY <1>3, OutIs
  <2> HIDE DEF m
  <2>5. First(k) \cup Out \subseteq First(m) \ {s}
    BY <2>3, <2>4
  <2>6. IsFiniteSet(First(m) \ {s}) /\ Cardinality(First(m) \ {s}) = m - 1
    BY <2>2, <2>3, FS_RemoveElement
  <2>7. Cardinality(First(k) \cup Out) <= m - 1
    BY <2>5, <2>6, FS_Subset
  <2> QED
    BY <1>0, <1>5, <1>6, <2>1, <2>7, OutIs
<1>7. CASE SendBase + k >= tot_pkts
  <2>1. First(tot_pkts - SendBase) \subseteq First(k)
    BY <1>0, <1>7 DEF First
  <2>2. First(k) \cup Out = First(k)
    BY <2>1, OutIs
  <2>3. k \in 0 .. N
    BY <1>0
  <2>4. Cardinality(First(k)) = k
    BY <1>0, <2>3, SlotsOf DEF First
  <2>5. k = Cardinality(Before) + Cardinality(Out)
    BY <1>5, <2>2, <2>4
  <2>6. Cardinality(Out) \in Nat /\ tot_sent = SendBase + Cardinality(Out)
    BY OutIs
  <2> QED
    BY <1>0, <1>5, <1>7, <2>5, <2>6
<1> QED
  BY <1>0, <1>6, <1>7

\* What the sender adds to the network is of its window.
LEMMA Sent ==
  ASSUME Types, Windows, SenderInv, PacketsInv, UNCHANGED receiverVars, SendBase' = SendBase,
         snd # "finished",
         NEW more \in Seq([seq : Slots \cup {-1}, index : Nat]), packets' = packets \o more,
         \A k \in 1 .. Len(more) :
            IF more[k] = EndPacket THEN snd' = "finished"
            ELSE \E i \in SendBase .. SendBase + window - 1 :
                   i < tot_pkts /\ more[k] = Packet(At(i), i)
  PROVE  PacketsInv' /\ packets' \in Seq([seq : Slots \cup {-1}, index : Nat])
<1>1. /\ packets \in Seq([seq : Slots \cup {-1}, index : Nat]) /\ window \in Nat
      /\ SendBase \in Nat /\ ReceiveBase \in Nat /\ ReceiveBase <= SendBase + window
      /\ tot_pkts \in Nat /\ buffer \in [Slots -> Nat] /\ held \subseteq Slots
  BY WindowIs DEF Types, Windows, SenderInv, ReceiveBase
<1> DEFINE n == Len(packets)
           m == Len(more)
<1>2. /\ packets' \in Seq([seq : Slots \cup {-1}, index : Nat]) /\ Len(packets') = n + m
      /\ \A k \in 1 .. n : packets'[k] = packets[k]
      /\ \A k \in 1 .. m : packets'[n + k] = more[k]
      /\ n \in Nat /\ m \in Nat
  BY <1>1
<1>3. \A k \in 1 .. n : packets[k] # EndPacket /\ InFlight(packets[k])
  BY DEF PacketsInv
<1>4. UNCHANGED <<held, buffer, ReceiveBase, SendBase>>
  BY DEF receiverVars, ReceiveBase
<1>6. ASSUME NEW k \in 1 .. m, more[k] # EndPacket
      PROVE  InFlight(more[k]) /\ more[k].index >= SendBase /\ more[k].index < SendBase + window
  <2>1. PICK i \in SendBase .. SendBase + window - 1 : i < tot_pkts /\ more[k] = Packet(At(i), i)
    BY <1>6
  <2>2. i \in Nat /\ i >= SendBase /\ i < SendBase + window
    BY <1>1, <2>1
  <2>3. more[k].index = i
    BY <2>1 DEF Packet
  <2>4. ReceiveBase <= i + window /\ \A s \in held : buffer[s] < i + window
    <3>1. \A s \in held : buffer[s] < SendBase + window /\ buffer[s] \in Nat
      BY <1>1 DEF Windows
    <3> QED
      BY <1>1, <2>2, <3>1
  <2>5. InFlight(more[k])
    BY <2>1, <2>2, <2>3, <2>4 DEF InFlight
  <2> QED
    BY <2>2, <2>3, <2>5
<1>7. \A k \in 1 .. n + m : k \in 1 .. n \/ (k - n \in 1 .. m /\ n + (k - n) = k)
  BY <1>2
<1>8. \A k \in 1 .. n + m : IF packets'[k] = EndPacket THEN snd' = "finished"
                            ELSE InFlight(packets'[k])
  <2> TAKE k \in 1 .. n + m
  <2>1. CASE k \in 1 .. n
    BY <1>2, <1>3, <2>1
  <2>2. CASE k - n \in 1 .. m /\ n + (k - n) = k
    <3>1. packets'[k] = more[k - n]
      BY <1>2, <2>2
    <3> QED
      BY <1>6, <2>2, <3>1
  <2> QED
    BY <1>7, <2>1, <2>2
<1>9. ASSUME NEW j \in 1 .. n + m, NEW k \in 1 .. n + m, j < k,
             packets'[j] # EndPacket, packets'[k] # EndPacket
      PROVE  packets'[j].index < packets'[k].index + window
  <2>1. CASE k \in 1 .. n
    <3>1. j \in 1 .. n
      BY <1>2, <1>9, <2>1
    <3> QED
      BY <1>2, <1>9, <2>1, <3>1 DEF PacketsInv
  <2>2. CASE k - n \in 1 .. m /\ n + (k - n) = k
    <3>1. packets'[k].index >= SendBase /\ packets'[k].index \in Nat
      BY <1>2, <1>6, <1>9, <2>2 DEF InFlight
    <3>2. packets'[j].index < SendBase + window /\ packets'[j].index \in Nat
      <4>1. CASE j \in 1 .. n
        BY <1>2, <1>3, <4>1 DEF InFlight
      <4>2. CASE j - n \in 1 .. m /\ n + (j - n) = j
        <5>1. packets'[j] = more[j - n]
          BY <1>2, <4>2
        <5> QED
          BY <1>6, <1>9, <4>2, <5>1 DEF InFlight
      <4> QED
        BY <1>7, <4>1, <4>2
    <3>3. \A x, y \in Nat : y >= SendBase /\ x < SendBase + window => x < y + window
      BY <1>1
    <3> QED
      BY <3>1, <3>2, <3>3, Zenon
  <2> QED
    BY <1>7, <2>1, <2>2
<1> HIDE DEF n, m
<1>10. \A k \in 1 .. n + m : IF packets'[k] = EndPacket THEN snd' = "finished"
                            ELSE InFlight(packets[k])'
  BY <1>4, <1>8 DEF InFlight, At
<1> QED
  BY <1>2, <1>9, <1>10 DEF PacketsInv

\* What a step of the sender that moves no window leaves alone.
LEMMA SenderFrame ==
  ASSUME IInv, UNCHANGED receiverVars, acks' = acks, SendBase' = SendBase, snd # "finished",
         \A k \in 0 .. window - 1 :
           check_pkt'[At(SendBase + k)] = 2 => check_pkt[At(SendBase + k)] = 2
  PROVE  ReceiverInv' /\ Windows' /\ AcksInv'
<1>1. /\ held' = held /\ buffer' = buffer /\ written' = written /\ ReceiveBase' = ReceiveBase
      /\ rbase' = rbase /\ rcv' = rcv /\ error_count' = error_count
  BY DEF receiverVars, ReceiveBase
<1>2. ReceiverInv'
  BY <1>1 DEF IInv, ReceiverInv, At
<1>3. \A i : Received(i)' <=> Received(i)
  BY <1>1 DEF Received, At
<1>4. Windows'
  BY <1>1, <1>3 DEF IInv, Windows, At
<1>5. \A index : Acknowledged(index) => Acknowledged(index)'
  BY <1>1, <1>3 DEF Acknowledged, At
<1> QED
  BY <1>2, <1>4, <1>5 DEF IInv, AcksInv

LEMMA SequenceOf ==
  ASSUME NEW S, NEW n \in Nat, NEW g \in [1 .. n -> S]
  PROVE  g \in Seq(S) /\ Len(g) = n
OBVIOUS

LEMMA SendStep ==
  ASSUME IInv, send_window
  PROVE  IInv'
<1>0. /\ Types /\ SenderInv /\ Windows /\ PacketsInv
      /\ snd = "loop" /\ snd' = "recv_ack" /\ MoreToSend
      /\ base' = base /\ pkt' = pkt /\ read' = read /\ tot_ack' = tot_ack /\ err_count' = err_count
      /\ UNCHANGED receiverVars /\ acks' = acks
      /\ check_pkt' = [s \in Slots |-> IF s \in Unsent THEN 1 ELSE check_pkt[s]]
      /\ tot_sent' = tot_sent + Cardinality(Unsent)
  BY DEF IInv, send_window
<1>1. /\ SendBase' = SendBase /\ SendBase \in Nat /\ window \in Nat /\ tot_pkts \in Nat
      /\ MAX_ERR \in Nat
  BY <1>0, WindowIs DEF SendBase, SenderInv
<1>2. \A s \in Unsent : /\ s \in Slots /\ check_pkt[s] = 0
                        /\ \E k \in 0 .. window - 1 : s = At(SendBase + k) /\ SendBase + k < tot_pkts
  BY <1>0, ToSendIs, UnsentIs DEF Unsent
<1>3. /\ Marked(2)' = Marked(2)
      /\ Marked(1)' = Marked(1) \cup Unsent /\ Marked(1) \cap Unsent = {}
  BY <1>0, <1>2 DEF Marked
<1>4. /\ Cardinality(Marked(1)') = Cardinality(Marked(1)) + Cardinality(Unsent)
      /\ Cardinality(Unsent) \in Nat /\ Cardinality(Marked(1)) \in Nat
      /\ Cardinality(Marked(2)) \in Nat
  <2>1. /\ Marked(1) \in SUBSET Slots /\ Marked(2) \in SUBSET Slots /\ Unsent \in SUBSET Slots
    BY <1>2 DEF Marked
  <2> QED
    BY <1>3, <2>1, DisjointSets, SlotSets
<1>5. \A k \in 0 .. window - 1 :
        SendBase + k < tot_pkts => check_pkt'[At(SendBase + k)] # 0
  <2> TAKE k \in 0 .. window - 1
  <2>1. HAVE SendBase + k < tot_pkts
  <2>2. At(SendBase + k) \in Slots
    BY <1>0, ToSendIs
  <2>3. At(SendBase + k) \in Unsent <=> check_pkt[At(SendBase + k)] = 0
    BY <1>0, <2>1, UnsentIs
  <2> QED
    BY <1>0, <2>2, <2>3
<1>6. SenderInv'
  <2>1. \A s \in Slots : check_pkt'[s] # 0 =>
          \E k \in 0 .. window - 1 : s = At(SendBase + k) /\ SendBase + k < tot_pkts
    BY <1>0, <1>2 DEF SenderInv
  <2>2. tot_sent' = tot_ack' + Cardinality(Marked(1)')
    BY <1>0, <1>4 DEF SenderInv, Types
  <2>3. err_count' < MAX_ERR
    BY <1>0 DEF MoreToSend
  <2>4. tot_ack' = SendBase + Cardinality(Marked(2)')
    BY <1>0, <1>3 DEF SenderInv
  <2>5. base' = At(SendBase) /\ \A k \in 0 .. window - 1 : pkt'[At(SendBase + k)] = SendBase + k
    BY <1>0 DEF SenderInv
  <2> QED
    BY <1>0, <1>1, <1>5, <2>1, <2>2, <2>3, <2>4, <2>5 DEF SenderInv, At
<1>7. PacketsInv' /\ packets' \in Seq([seq : Slots \cup {-1}, index : Nat])
  <2>1. PICK sent \in SUBSET Unsent : \E f \in InOrder(sent) :
           packets' = packets \o [k \in 1 .. Cardinality(sent) |-> Packet(f[k], pkt[f[k]])]
    BY DEF send_window
  <2>2. PICK f \in InOrder(sent) :
           packets' = packets \o [k \in 1 .. Cardinality(sent) |-> Packet(f[k], pkt[f[k]])]
    BY <2>1
  <2> DEFINE n == Cardinality(sent)
             more == [k \in 1 .. n |-> Packet(f[k], pkt[f[k]])]
  <2>3. n \in Nat /\ f \in [1 .. n -> sent]
    <3>1. sent \in SUBSET Slots
      BY <1>2
    <3> QED
      BY <2>2, <3>1, SlotSets DEF InOrder
  <2>4. ASSUME NEW k \in 1 .. n
        PROVE  /\ more[k] \in [seq : Slots \cup {-1}, index : Nat] /\ more[k] # EndPacket
               /\ \E i \in SendBase .. SendBase + window - 1 :
                    i < tot_pkts /\ more[k] = Packet(At(i), i)
    <3>1. f[k] \in Unsent /\ more[k] = Packet(f[k], pkt[f[k]])
      BY <2>3
    <3>2. PICK j \in 0 .. window - 1 : f[k] = At(SendBase + j) /\ SendBase + j < tot_pkts
      BY <1>2, <3>1
    <3>3. pkt[f[k]] = SendBase + j /\ f[k] \in Slots
      BY <1>0, <1>2, <3>1, <3>2 DEF SenderInv
    <3>4. SendBase + j \in SendBase .. SendBase + window - 1 /\ SendBase + j \in Nat
      BY <1>1
    <3>5. more[k] = Packet(At(SendBase + j), SendBase + j)
      BY <3>1, <3>2, <3>3
    <3>6. more[k].seq \in Slots /\ more[k] \in [seq : Slots \cup {-1}, index : Nat]
      BY <3>1, <3>3, <3>4 DEF Packet
    <3>7. more[k] # EndPacket
      BY <3>6, WindowIs DEF EndPacket, Packet, Slots
    <3> QED
      BY <3>2, <3>4, <3>5, <3>6, <3>7
  <2>5. /\ more \in Seq([seq : Slots \cup {-1}, index : Nat]) /\ Len(more) = n
        /\ packets' = packets \o more
    <3> DEFINE S == [seq : Slots \cup {-1}, index : Nat]
    <3>1. more \in [1 .. n -> S] /\ packets' = packets \o more
      BY <2>2, <2>4
    <3> HIDE DEF more, n, S
    <3>2. more \in Seq(S) /\ Len(more) = n
      BY <2>3, <3>1, SequenceOf
    <3> QED
      BY <3>1, <3>2 DEF S
  <2> HIDE DEF more, n
  <2> QED
    BY <1>0, <1>1, <2>4, <2>5, Sent
<1>8. Types'
  <2>1. /\ Types /\ snd' = "recv_ack" /\ base' = base /\ pkt' = pkt /\ read' = read
        /\ tot_ack' = tot_ack /\ err_count' = err_count /\ acks' = acks
    BY <1>0
  <2>2. /\ rcv' = rcv /\ rbase' = rbase /\ held' = held /\ buffer' = buffer
        /\ written' = written /\ error_count' = error_count
    BY <1>0 DEF receiverVars
  <2>3. check_pkt' \in [Slots -> 0 .. 2]
    BY <1>0 DEF Types
  <2>4. tot_sent' \in Nat
    BY <1>0, <1>4 DEF Types
  <2> QED
    BY <1>7, <2>1, <2>2, <2>3, <2>4 DEF Types
<1>9. ReceiverInv' /\ Windows' /\ AcksInv'
  <2>1. \A k \in 0 .. window - 1 :
          check_pkt'[At(SendBase + k)] = 2 => check_pkt[At(SendBase + k)] = 2
    BY <1>0, ToSendIs
  <2> QED
    BY <1>0, <1>1, <2>1, SenderFrame
<1> QED
  BY <1>6, <1>7, <1>8, <1>9 DEF IInv

LEMMA TimeoutStep ==
  ASSUME IInv, ack_timeout
  PROVE  IInv'
<1>0. /\ Types /\ SenderInv /\ Windows /\ PacketsInv
      /\ snd = "recv_ack" /\ snd' = "loop" /\ err_count' = err_count + 1
      /\ base' = base /\ pkt' = pkt /\ read' = read /\ tot_ack' = tot_ack
      /\ UNCHANGED receiverVars /\ acks' = acks /\ packets' = packets
      /\ check_pkt' = [s \in Slots |-> IF InWindow(base, s) /\ check_pkt[s] = 1
                                       THEN 0 ELSE check_pkt[s]]
      /\ tot_sent' = tot_sent - Cardinality({s \in Slots : InWindow(base, s) /\ check_pkt[s] = 1})
  BY DEF IInv, ack_timeout
<1>1. SendBase' = SendBase /\ SendBase \in Nat /\ base = At(SendBase) /\ MAX_ERR \in Nat
  BY <1>0, WindowIs DEF SendBase, SenderInv
<1>2. \A s \in Slots : check_pkt[s] = 1 => InWindow(base, s)
  BY <1>0, <1>1, WindowOf DEF SenderInv
<1>3. /\ {s \in Slots : InWindow(base, s) /\ check_pkt[s] = 1} = Marked(1)
      /\ Marked(1)' = {} /\ Marked(2)' = Marked(2)
  BY <1>0, <1>2 DEF Marked
<1>4. Cardinality(Marked(1)') = 0 /\ Cardinality(Marked(1)) \in Nat
  <2>1. Marked(1) \in SUBSET Slots
    BY DEF Marked
  <2> QED
    BY <1>3, <2>1, SlotSets, FS_EmptySet
<1>5. tot_sent' = tot_ack
  <2>1. tot_sent' = tot_sent - Cardinality(Marked(1))
    BY <1>0, <1>3, Zenon
  <2>2. tot_sent = tot_ack + Cardinality(Marked(1)) /\ tot_ack \in Nat
    BY <1>0 DEF SenderInv, Types
  <2> QED
    BY <1>4, <2>1, <2>2
<1>6. SenderInv'
  <2>1. \A s \in Slots : check_pkt'[s] # 0 => check_pkt[s] # 0
    BY <1>0
  <2>2. tot_sent' = tot_ack' + Cardinality(Marked(1)')
    BY <1>0, <1>4, <1>5 DEF Types
  <2>3. tot_ack' = SendBase + Cardinality(Marked(2)')
    BY <1>0, <1>3 DEF SenderInv
  <2> QED
    BY <1>0, <1>1, <2>1, <2>2, <2>3 DEF SenderInv, At
<1>7. Types'
  BY <1>0, <1>1, <1>5 DEF Types, SenderInv, receiverVars
<1>8. PacketsInv'
  BY <1>0, <1>1 DEF PacketsInv, InFlight, At, ReceiveBase, receiverVars
<1>9. ReceiverInv' /\ Windows' /\ AcksInv'
  <2>1. \A k \in 0 .. window - 1 :
          check_pkt'[At(SendBase + k)] = 2 => check_pkt[At(SendBase + k)] = 2
    BY <1>0, ToSendIs
  <2> QED
    BY <1>0, <1>1, <2>1, SenderFrame
<1> QED
  BY <1>6, <1>7, <1>8, <1>9 DEF IInv

LEMMA EndStep ==
  ASSUME IInv, NEW lost \in BOOLEAN, SenderEnds(lost)
  PROVE  IInv'
<1>0. /\ Types /\ SenderInv /\ Windows /\ PacketsInv /\ snd = "loop" /\ ~MoreToSend
      /\ UNCHANGED <<base, check_pkt, pkt, read, tot_sent, tot_ack, err_count, receiverVars, acks>>
      /\ snd' = IF err_count = MAX_ERR THEN "failed" ELSE "finished"
      /\ \/ packets' = packets
         \/ snd' = "finished" /\ packets' = Append(packets, EndPacket)
  BY DEF IInv, SenderEnds
<1>1. SendBase' = SendBase /\ MAX_ERR \in Nat /\ Marked(1)' = Marked(1) /\ Marked(2)' = Marked(2)
  BY <1>0, WindowIs DEF SendBase, Marked
<1>2. snd' = "finished" => tot_ack >= tot_pkts
  BY <1>0, WindowIs DEF MoreToSend, Types
<1>3. SenderInv'
  BY <1>0, <1>1, <1>2 DEF SenderInv, At
<1>4. PacketsInv' /\ packets' \in Seq([seq : Slots \cup {-1}, index : Nat])
  <2>1. CASE packets' = packets
    <3>1. packets' \in Seq([seq : Slots \cup {-1}, index : Nat])
      BY <1>0, <2>1 DEF Types
    <3>2. \A k \in 1 .. Len(packets) : packets[k] # EndPacket
      BY <1>0 DEF PacketsInv
    <3> QED
      BY <1>0, <1>1, <2>1, <3>1, <3>2 DEF PacketsInv, InFlight, At, ReceiveBase, receiverVars
  <2>2. CASE snd' = "finished" /\ packets' = Append(packets, EndPacket)
    <3> DEFINE more == <<EndPacket>>
    <3>1. EndPacket \in [seq : Slots \cup {-1}, index : Nat]
      BY DEF EndPacket, Packet
    <3>2. /\ more \in Seq([seq : Slots \cup {-1}, index : Nat]) /\ Len(more) = 1
          /\ more[1] = EndPacket
      BY <3>1
    <3>3. packets' = packets \o more
      BY <1>0, <2>2, <3>1 DEF Types
    <3>4. \A k \in 1 .. Len(more) : more[k] = EndPacket
      BY <3>2
    <3> HIDE DEF more
    <3> QED
      BY <1>0, <1>1, <2>2, <3>2, <3>3, <3>4, Sent
  <2> QED
    BY <1>0, <2>1, <2>2
<1>5. Types'
  BY <1>0, <1>4 DEF Types, receiverVars
<1>6. ReceiverInv' /\ Windows' /\ AcksInv'
  BY <1>0, <1>1, SenderFrame
<1> QED
  BY <1>3, <1>4, <1>5, <1>6 DEF IInv

LEMMA NextRound ==
  ASSUME NEW i \in Nat
  PROVE  At(i + N) = At(i)
<1>1. N \in Nat /\ N > 0
  BY WindowIs
<1>2. /\ i % N \in 0 .. N - 1 /\ i \div N \in Int
      /\ i = N * (i \div N) + (i % N)
  BY <1>1, DivMod
<1> DEFINE r == i % N
           p == i \div N
<1>3. r \in 0 .. N - 1 /\ p \in Int /\ i = N * p + r
  BY <1>2
<1> HIDE DEF r, p
<1>4. N * (p + 1) = N * p + N
  BY <1>1, <1>3
<1>5. i + N = N * (p + 1) + r /\ i + N \in Int /\ p + 1 \in Int
  <2>1. N * p \in Int
    BY <1>1, <1>3
  <2> QED
    BY <1>1, <1>3, <1>4, <2>1
<1>6. (i + N) % N = r
  BY <1>1, <1>3, <1>5, Remainder
<1> QED
  BY <1>6 DEF At, r

\* What has been received is of the file and of the sender's window, or behind it.
LEMMA ReceivedIs ==
  ASSUME Types, ReceiverInv, Windows, SenderInv, NEW i \in Nat, Received(i)
  PROVE  /\ i < tot_pkts /\ i < SendBase + window
         /\ i # ReceiveBase
<1>1. /\ ReceiveBase \in Nat /\ SendBase \in Nat /\ window \in Nat /\ tot_pkts \in Nat
      /\ ReceiveBase <= tot_pkts /\ ReceiveBase <= SendBase + window
  BY WindowIs DEF Types, ReceiverInv, Windows, SenderInv, ReceiveBase
<1>2. CASE i < ReceiveBase
  BY <1>1, <1>2
<1>3. CASE At(i) \in held /\ buffer[At(i)] = i
  <2>1. i < SendBase + window /\ i < tot_pkts
    BY <1>3 DEF Windows, ReceiverInv
  <2>2. i # ReceiveBase
    BY <1>3 DEF ReceiverInv
  <2> QED
    BY <2>1, <2>2
<1> QED
  BY <1>2, <1>3 DEF Received

\* recv_ack: the slots acknowledged once the datagram is taken, and how far the window moves.
AckedNow == Marked(2) \cup IF Accepts(Head(acks)) THEN {Head(acks)} ELSE {}
Moved == Advance(base, AckedNow)

\* Every slot acknowledged is of the window, and of a packet received that the
\* acknowledgements still in flight are less than a window behind.
LEMMA AckedIs ==
  ASSUME IInv, snd = "recv_ack", acks # << >>,
         NEW index \in [1 .. Len(acks) -> Nat], Acknowledged(index)
  PROVE  /\ AckedNow \subseteq Slots
         /\ Accepts(Head(acks)) => check_pkt[Head(acks)] = 1
         /\ \A t \in AckedNow : \E k \in 0 .. window - 1 :
              t = At(SendBase + k) /\ SendBase + k < tot_pkts
         /\ \A k \in 0 .. 2 * window - 1 : At(SendBase + k) \in AckedNow =>
              /\ k < window /\ Received(SendBase + k)
              /\ \A j \in 2 .. Len(acks) : SendBase + k < index[j] + window
<1> DEFINE s == Head(acks)
           i == index[1]
<1>0. /\ Types /\ SenderInv /\ ReceiverInv /\ Windows
      /\ SendBase \in Nat /\ window \in Nat /\ window >= 2 /\ N \in Nat /\ 2 * window <= N
      /\ base = At(SendBase) /\ 1 \in 1 .. Len(acks) /\ s = acks[1] /\ s \in Slots
  <2>1. Types /\ SenderInv /\ ReceiverInv /\ Windows
    BY DEF IInv
  <2>2. SendBase \in Nat /\ base = At(SendBase)
    BY <2>1, WindowIs DEF SenderInv
  <2>3. acks \in Seq(Slots)
    BY <2>1 DEF Types
  <2>4. 1 \in 1 .. Len(acks) /\ s = acks[1] /\ s \in Slots
    BY <2>3
  <2> QED
    BY <2>1, <2>2, <2>4, WindowIs
<1>1. /\ i \in Nat /\ s = At(i) /\ Received(i) /\ SendBase <= i + window
      /\ \A j \in 2 .. Len(acks) : i < index[j] + window
  <2>1. \A j \in 2 .. Len(acks) : j \in 1 .. Len(acks) /\ 1 < j
    OBVIOUS
  <2> QED
    BY <1>0, <2>1 DEF Acknowledged
<1>2. i < tot_pkts /\ i < SendBase + window
  BY <1>0, <1>1, ReceivedIs
<1>3. Accepts(s) => \E k \in 0 .. window - 1 : i = SendBase + k /\ check_pkt[s] = 1
  <2> HAVE Accepts(s)
  <2>1. InWindow(At(SendBase), s) /\ check_pkt[s] # 2
    BY <1>0 DEF Accepts
  <2>2. PICK k \in 0 .. window - 1 : s = At(SendBase + k)
    BY <1>0, <2>1, WindowOf
  <2>3. k \in Nat /\ SendBase + k \in Nat /\ i < SendBase + k + N /\ SendBase + k < i + N
    <3> HIDE DEF i
    <3> QED
      BY <1>0, <1>1, <1>2
  <2>4. i = SendBase + k
    BY <1>1, <2>2, <2>3, SameSlot
  <2>5. check_pkt[s] # 0
    BY <1>0, <1>2, <2>2, <2>4 DEF SenderInv
  <2>6. check_pkt[s] = 1
    BY <1>0, <2>1, <2>5 DEF Types
  <2> QED
    BY <2>4, <2>6
<1>4. \A t \in Marked(2) : \E k \in 0 .. window - 1 :
         /\ t = At(SendBase + k) /\ SendBase + k < tot_pkts /\ Received(SendBase + k)
         /\ \A j \in 2 .. Len(acks) : SendBase + k < index[j] + window
  <2> TAKE t \in Marked(2)
  <2>0. t \in Slots /\ check_pkt[t] = 2 /\ check_pkt[t] # 0
    BY DEF Marked
  <2>1. PICK k \in 0 .. window - 1 : t = At(SendBase + k) /\ SendBase + k < tot_pkts
    BY <1>0, <2>0 DEF SenderInv
  <2>2. check_pkt[At(SendBase + k)] = 2
    BY <2>0, <2>1
  <2>3. Received(SendBase + k) /\ \A j \in 1 .. Len(acks) : SendBase + k < index[j] + window
    BY <1>0, <2>2 DEF Windows, Acknowledged
  <2>4. 2 .. Len(acks) \subseteq 1 .. Len(acks)
    BY <1>0
  <2> QED
    BY <2>1, <2>3, <2>4
<1>5. \A t \in AckedNow : \E k \in 0 .. window - 1 :
         /\ t = At(SendBase + k) /\ SendBase + k < tot_pkts /\ Received(SendBase + k)
         /\ \A j \in 2 .. Len(acks) : SendBase + k < index[j] + window
  <2> TAKE t \in AckedNow
  <2>1. CASE t \in Marked(2)
    BY <1>4, <2>1
  <2>2. CASE Accepts(s) /\ t = s
    <3>1. PICK k \in 0 .. window - 1 : i = SendBase + k
      BY <1>3, <2>2
    <3> QED
      BY <1>1, <1>2, <2>2, <3>1
  <2> QED
    BY <2>1, <2>2 DEF AckedNow
<1>6. \A k \in 0 .. 2 * window - 1 : At(SendBase + k) \in AckedNow =>
              /\ k < window /\ Received(SendBase + k)
              /\ \A j \in 2 .. Len(acks) : SendBase + k < index[j] + window
  <2> TAKE k \in 0 .. 2 * window - 1
  <2>1. HAVE At(SendBase + k) \in AckedNow
  <2>2. PICK m \in 0 .. window - 1 :
         /\ At(SendBase + k) = At(SendBase + m) /\ Received(SendBase + m)
         /\ \A j \in 2 .. Len(acks) : SendBase + m < index[j] + window
    BY <1>5, <2>1
  <2>3. /\ SendBase + k \in Nat /\ SendBase + m \in Nat
        /\ SendBase + k < SendBase + m + N /\ SendBase + m < SendBase + k + N
    BY <1>0
  <2>4. SendBase + k = SendBase + m
    BY <2>2, <2>3, SameSlot
  <2>5. k = m
    BY <1>0, <2>4
  <2> QED
    BY <1>0, <2>2, <2>5
<1>7. AckedNow \subseteq Slots
  BY <1>0 DEF AckedNow, Marked
<1> QED
  BY <1>3, <1>5, <1>6, <1>7

\* recv_ack, for the window and the counters of the sender.
LEMMA AckMoves ==
  ASSUME IInv, recv_ack
  PROVE  /\ Moved \in 0 .. window /\ SendBase' = SendBase + Moved /\ SenderInv'
         /\ \A k \in 0 .. Moved - 1 : At(SendBase + k) \in AckedNow
         /\ \A k \in 0 .. window - 1 :
              check_pkt'[At(SendBase' + k)] = 2 => At(SendBase' + k) \in AckedNow
         /\ SendBase' <= ReceiveBase
         /\ check_pkt' \in [Slots -> 0 .. 2] /\ pkt' \in [Slots -> Nat]
         /\ tot_ack' \in Nat /\ base' \in Slots /\ read' \in Nat
<1> DEFINE s == Head(acks)
           n == Moved
<1>0. /\ Types /\ SenderInv /\ ReceiverInv /\ Windows
      /\ snd = "recv_ack" /\ snd' = "loop" /\ acks # << >> /\ tot_sent' = tot_sent
      /\ SendBase \in Nat /\ window \in Nat /\ window >= 2 /\ N \in Nat /\ 2 * window <= N
      /\ tot_pkts \in Nat /\ SendBase <= tot_pkts /\ base = At(SendBase)
      /\ read \in Nat /\ read = SendBase + window
  <2>1. Types /\ SenderInv /\ ReceiverInv /\ Windows
    BY DEF IInv
  <2>2. SendBase \in Nat /\ SendBase <= tot_pkts /\ base = At(SendBase)
    BY <2>1, WindowIs DEF SenderInv
  <2>3. read \in Nat /\ read = SendBase + window
    BY <2>1, WindowIs DEF Types, SendBase
  <2> QED
    BY <2>1, <2>2, <2>3, WindowIs DEF recv_ack
<1>1. AckedNow = {t \in Slots : check_pkt[t] = 2} \cup IF Accepts(s) THEN {s} ELSE {}
  BY DEF AckedNow, Marked
<1>2. /\ check_pkt' = [t \in Slots |-> IF t \in Passed(base, n) THEN 0
                                       ELSE IF t \in AckedNow THEN 2 ELSE check_pkt[t]]
      /\ tot_ack' = IF Accepts(s) THEN tot_ack + 1 ELSE tot_ack
      /\ base' = Slot(base, n) /\ read' = read + n
      /\ pkt' = [t \in Slots |-> IF NewPlace(t) < n THEN read + NewPlace(t) ELSE pkt[t]]
      /\ err_count' = 0
  BY <1>1 DEF recv_ack, Moved
<1>3. PICK index \in [1 .. Len(acks) -> Nat] : Acknowledged(index)
  BY DEF IInv, AcksInv
<1>4. /\ AckedNow \subseteq Slots
      /\ Accepts(s) => check_pkt[s] = 1
      /\ \A t \in AckedNow : \E k \in 0 .. window - 1 :
           t = At(SendBase + k) /\ SendBase + k < tot_pkts
      /\ \A k \in 0 .. 2 * window - 1 : At(SendBase + k) \in AckedNow =>
           k < window /\ Received(SendBase + k)
  BY <1>0, <1>3, AckedIs
<1>5. /\ n \in 0 .. window /\ \A k \in 0 .. n - 1 : At(SendBase + k) \in AckedNow
  BY <1>0, AdvanceIs DEF Moved
<1> HIDE DEF n
<1>6. /\ n \in Nat /\ n <= window /\ n \in 0 .. N /\ Passed(base, n) = First(n)
      /\ First(n) \subseteq AckedNow
  <2>1. n \in Nat /\ n <= window /\ n \in 0 .. N
    BY <1>0, <1>5
  <2>2. Passed(base, n) = First(n)
    BY <1>0, <2>1, WindowOf DEF First
  <2>3. First(n) \subseteq AckedNow
    BY <1>5 DEF First
  <2> QED
    BY <2>1, <2>2, <2>3
<1>7. SendBase' = SendBase + n /\ base' = At(SendBase + n) /\ read' \in Nat
  <2>1. base' = At(SendBase + n)
    BY <1>0, <1>2, <1>6, SlotFrom
  <2>2. read' \in Nat /\ read' - window = SendBase + n
    BY <1>0, <1>2, <1>6
  <2> QED
    BY <2>1, <2>2 DEF SendBase
<1>8. SendBase + n <= ReceiveBase
  <2>1. ReceiveBase \in Nat /\ SendBase <= ReceiveBase
    BY <1>0 DEF Types, Windows, ReceiveBase
  <2>2. ASSUME SendBase + n > ReceiveBase PROVE FALSE
    <3> DEFINE k == ReceiveBase - SendBase
    <3>1. k \in 0 .. n - 1 /\ k \in 0 .. 2 * window - 1 /\ SendBase + k = ReceiveBase
      BY <1>0, <1>6, <2>1, <2>2
    <3>2. Received(ReceiveBase)
      BY <1>4, <1>5, <3>1
    <3> QED
      BY <1>0, <2>1, <3>2, ReceivedIs
  <2> QED
    BY <1>0, <1>6, <2>1, <2>2
\* The marks.
<1>9. /\ check_pkt' \in [Slots -> 0 .. 2]
      /\ Marked(2)' = AckedNow \ First(n) /\ Marked(1)' = Marked(1) \ AckedNow
  <2>1. check_pkt' = [t \in Slots |-> IF t \in First(n) THEN 0
                                      ELSE IF t \in AckedNow THEN 2 ELSE check_pkt[t]]
    BY <1>2, <1>6
  <2>2. \A t \in Slots : check_pkt[t] = 2 => t \in AckedNow
    BY DEF AckedNow, Marked
  <2> QED
    BY <1>0, <1>4, <1>6, <2>1, <2>2 DEF Types, Marked
<1>10. /\ Cardinality(AckedNow) = tot_ack' - SendBase /\ tot_ack' \in Nat
       /\ Cardinality(Marked(1) \ AckedNow) = tot_sent - tot_ack'
  <2>1. /\ tot_ack \in Nat /\ tot_sent \in Nat /\ tot_ack = SendBase + Cardinality(Marked(2))
        /\ tot_sent = tot_ack + Cardinality(Marked(1))
        /\ Marked(1) \in SUBSET Slots /\ Marked(2) \in SUBSET Slots
        /\ Marked(1) \cap Marked(2) = {}
    BY <1>0 DEF Types, SenderInv, Marked
  <2>2. /\ Cardinality(Marked(1)) \in Nat /\ Cardinality(Marked(2)) \in Nat
        /\ IsFiniteSet(Marked(1)) /\ IsFiniteSet(Marked(2))
    BY <2>1, SlotSets
  <2>5. /\ tot_ack \in Nat /\ tot_sent \in Nat /\ tot_ack = SendBase + Cardinality(Marked(2))
        /\ tot_sent = tot_ack + Cardinality(Marked(1))
        /\ Cardinality(Marked(1)) \in Nat /\ Cardinality(Marked(2)) \in Nat
    BY <2>1, <2>2
  <2>3. CASE Accepts(s)
    <3>1. s \in Marked(1) /\ s \notin Marked(2) /\ AckedNow = Marked(2) \cup {s}
      BY <1>0, <1>4, <2>3 DEF Types, Marked, AckedNow
    <3>2. Marked(1) \ AckedNow = Marked(1) \ {s}
      BY <2>1, <3>1
    <3>3. Cardinality(AckedNow) = Cardinality(Marked(2)) + 1
      BY <2>2, <3>1, FS_AddElement
    <3>4. Cardinality(Marked(1) \ {s}) = Cardinality(Marked(1)) - 1
      BY <2>2, <3>1, FS_RemoveElement
    <3>6. Cardinality(Marked(1) \ AckedNow) = Cardinality(Marked(1)) - 1
      BY <3>2, <3>4, Zenon
    <3>5. tot_ack' = tot_ack + 1 /\ SendBase \in Nat
      BY <1>0, <1>2, <2>3
    <3>7. tot_ack' = SendBase + Cardinality(AckedNow) /\ Cardinality(AckedNow) \in Nat
      BY <2>5, <3>3, <3>5
    <3>8. tot_ack' \in Nat /\ Cardinality(AckedNow) = tot_ack' - SendBase
      BY <3>5, <3>7
    <3>9. tot_sent - tot_ack' = Cardinality(Marked(1)) - 1
      BY <2>5, <3>5
    <3> QED
      BY <3>6, <3>8, <3>9
  <2>4. CASE ~Accepts(s)
    <3>1. AckedNow = Marked(2)
      BY <2>4 DEF AckedNow
    <3>2. Marked(1) \ AckedNow = Marked(1)
      BY <2>1, <3>1
    <3>3. tot_ack' = tot_ack /\ SendBase \in Nat
      BY <1>0, <1>2, <2>4
    <3>4. /\ Cardinality(Marked(1) \ AckedNow) = Cardinality(Marked(1))
          /\ Cardinality(AckedNow) = Cardinality(Marked(2))
      BY <3>1, <3>2, Zenon
    <3> QED
      BY <2>5, <3>3, <3>4
  <2> QED
    BY <2>3, <2>4
<1>11. Cardinality(AckedNow) = Cardinality(AckedNow \ First(n)) + n
  <2>1. /\ First(n) \in SUBSET Slots /\ AckedNow \ First(n) \in SUBSET Slots
        /\ (AckedNow \ First(n)) \cap First(n) = {}
        /\ (AckedNow \ First(n)) \cup First(n) = AckedNow
    BY <1>4, <1>6
  <2>2. Cardinality(First(n)) = n
    BY <1>0, <1>6, SlotsOf DEF First
  <2> QED
    BY <2>1, <2>2, DisjointSets
<1>12. \A t \in Slots : check_pkt'[t] # 0 =>
         \E k \in 0 .. window - 1 : t = At(SendBase + n + k) /\ SendBase + n + k < tot_pkts
  <2> TAKE t \in Slots
  <2>1. HAVE check_pkt'[t] # 0
  <2>2. t \notin First(n) /\ (t \in AckedNow \/ check_pkt[t] # 0)
    BY <1>2, <1>6, <2>1
  <2>3. PICK j \in 0 .. window - 1 : t = At(SendBase + j) /\ SendBase + j < tot_pkts
    BY <1>0, <1>4, <2>2 DEF SenderInv
  <2>4. j >= n
    BY <1>0, <1>6, <2>2, <2>3 DEF First
  <2>5. j - n \in 0 .. window - 1 /\ SendBase + n + (j - n) = SendBase + j
    BY <1>0, <1>6, <2>3, <2>4
  <2> QED
    BY <2>3, <2>5
\* The packets loaded.
<1>13. \A k \in 0 .. window - 1 : pkt'[At(SendBase + n + k)] = SendBase + n + k
  <2> TAKE k \in 0 .. window - 1
  <2> DEFINE t == At(SendBase + n + k)
  <2>1. SendBase + n + k \in Nat /\ t \in Slots
    BY <1>0, <1>6, SlotOfPacket
  <2>2. CASE n + k < window
    <3> DEFINE j == N + (n + k - window)
    <3>1. j \in 0 .. N - 1 /\ SendBase + window + j = (SendBase + n + k) + N /\ j >= n
      BY <1>0, <1>6, <2>2
    <3>2. NewPlace(t) = j
      <4>1. (At(SendBase + window + j) - At(SendBase) - window) % N = j
        BY <1>0, <3>1, PlaceFrom
      <4>2. At(SendBase + window + j) = t
        BY <2>1, <3>1, NextRound
      <4> QED
        BY <1>0, <4>1, <4>2 DEF NewPlace
    <3>3. pkt'[t] = pkt[t]
      BY <1>2, <1>6, <2>1, <3>1, <3>2
    <3>4. n + k \in 0 .. window - 1 /\ SendBase + n + k = SendBase + (n + k)
      BY <1>0, <1>6, <2>2
    <3>5. pkt[At(SendBase + (n + k))] = SendBase + (n + k)
      BY <1>0, <3>4 DEF SenderInv
    <3> QED
      BY <3>3, <3>4, <3>5
  <2>3. CASE n + k >= window
    <3> DEFINE j == n + k - window
    <3>1. j \in 0 .. N - 1 /\ SendBase + window + j = SendBase + n + k /\ j < n
      BY <1>0, <1>6, <2>3
    <3>2. NewPlace(t) = j
      <4>1. (At(SendBase + window + j) - At(SendBase) - window) % N = j
        BY <1>0, <3>1, PlaceFrom
      <4> QED
        BY <1>0, <3>1, <4>1 DEF NewPlace
    <3>3. pkt'[t] = read + j
      BY <1>2, <1>6, <2>1, <3>1, <3>2
    <3> QED
      BY <1>0, <3>1, <3>3
  <2> QED
    BY <1>0, <1>6, <2>2, <2>3
<1>14. pkt' \in [Slots -> Nat]
  <2>1. ASSUME NEW t \in Slots PROVE NewPlace(t) \in Nat
    <3>1. t - base - window \in Int /\ N > 0
      BY <1>0, SlotOfPacket DEF Slots
    <3> QED
      BY <1>0, <3>1, DivMod DEF NewPlace
  <2>2. \A t \in Slots : pkt'[t] = IF NewPlace(t) < n THEN read + NewPlace(t) ELSE pkt[t]
    BY <1>2
  <2>3. ASSUME NEW t \in Slots PROVE pkt'[t] \in Nat
    <3>1. NewPlace(t) \in Nat /\ pkt[t] \in Nat /\ read \in Nat
      BY <1>0, <2>1 DEF Types
    <3>2. read + NewPlace(t) \in Nat
      BY <3>1
    <3> QED
      BY <2>2, <3>1, <3>2, Zenon
  <2>4. pkt' = [t \in Slots |-> pkt'[t]]
    BY <1>2
  <2> HIDE DEF n
  <2> QED
    BY <2>3, <2>4
<1>15. SenderInv'
  <2>1. SendBase' \in 0 .. tot_pkts
    <3>1. ReceiveBase <= tot_pkts /\ ReceiveBase \in Nat
      BY <1>0 DEF ReceiverInv, Types, ReceiveBase
    <3> QED
      BY <1>0, <1>6, <1>7, <1>8, <3>1
  <2>2. /\ \A k \in 0 .. window - 1 : pkt'[At(SendBase' + k)] = SendBase' + k
        /\ \A t \in Slots : check_pkt'[t] # 0 =>
             \E k \in 0 .. window - 1 : t = At(SendBase' + k) /\ SendBase' + k < tot_pkts
    BY <1>7, <1>12, <1>13
  <2>3. tot_ack' = SendBase' + Cardinality(Marked(2)')
    <3>1. AckedNow \ First(n) \in SUBSET Slots
      BY <1>4
    <3>2. Cardinality(AckedNow \ First(n)) \in Nat
      BY <3>1, SlotSets
    <3>3. Cardinality(Marked(2)') = Cardinality(AckedNow \ First(n))
      BY <1>9
    <3>4. SendBase \in Nat /\ n \in Nat /\ SendBase' = SendBase + n
      BY <1>0, <1>6, <1>7
    <3> QED
      BY <1>10, <1>11, <3>2, <3>3, <3>4
  <2>4. tot_sent' = tot_ack' + Cardinality(Marked(1)')
    <3>1. Cardinality(Marked(1)') = Cardinality(Marked(1) \ AckedNow)
      BY <1>9
    <3>2. tot_sent' = tot_sent /\ tot_sent \in Nat
      BY <1>0 DEF Types
    <3> QED
      BY <1>10, <3>1, <3>2
  <2>5. base' = At(SendBase')
    BY <1>7
  <2> QED
    BY <1>0, <2>1, <2>2, <2>3, <2>4, <2>5 DEF SenderInv, At
<1>16. \A k \in 0 .. window - 1 :
         check_pkt'[At(SendBase' + k)] = 2 => At(SendBase' + k) \in AckedNow
  <2> TAKE k \in 0 .. window - 1
  <2>1. SendBase' + k \in Nat
    BY <1>0, <1>6, <1>7
  <2> QED
    BY <1>2, <2>1, SlotOfPacket DEF AckedNow, Marked
<1>17. base' \in Slots
  BY <1>0, <1>6, <1>7, SlotOfPacket
<1> QED
  BY <1>5, <1>7, <1>8, <1>9, <1>10, <1>14, <1>15, <1>16, <1>17 DEF n

LEMMA AckStep ==
  ASSUME IInv, recv_ack
  PROVE  IInv'
<1> DEFINE n == Moved
           L == Len(acks)
<1>0. /\ Types /\ SenderInv /\ ReceiverInv /\ Windows /\ PacketsInv
      /\ snd = "recv_ack" /\ snd' = "loop" /\ acks # << >> /\ acks' = Tail(acks)
      /\ packets' = packets /\ tot_sent' = tot_sent /\ err_count' = 0
      /\ held' = held /\ buffer' = buffer /\ written' = written /\ rbase' = rbase
      /\ rcv' = rcv /\ error_count' = error_count
  BY DEF IInv, recv_ack, receiverVars
<1>1. /\ SendBase \in Nat /\ window \in Nat /\ window >= 2 /\ N \in Nat /\ 2 * window <= N
      /\ ReceiveBase \in Nat /\ tot_pkts \in Nat /\ MAX_ERR \in Nat
      /\ ReceiveBase <= SendBase + window
  BY <1>0, WindowIs DEF SenderInv, Types, Windows, ReceiveBase
<1>2. /\ n \in 0 .. window /\ SendBase' = SendBase + n /\ SenderInv'
      /\ \A k \in 0 .. n - 1 : At(SendBase + k) \in AckedNow
      /\ \A k \in 0 .. window - 1 :
           check_pkt'[At(SendBase' + k)] = 2 => At(SendBase' + k) \in AckedNow
      /\ SendBase' <= ReceiveBase
      /\ check_pkt' \in [Slots -> 0 .. 2] /\ pkt' \in [Slots -> Nat]
      /\ tot_ack' \in Nat /\ base' \in Slots /\ read' \in Nat
  BY AckMoves
<1> HIDE DEF n
<1>3. PICK index \in [1 .. L -> Nat] : Acknowledged(index)
  BY DEF IInv, AcksInv
<1>4. \A k \in 0 .. 2 * window - 1 : At(SendBase + k) \in AckedNow =>
        /\ Received(SendBase + k)
        /\ \A j \in 2 .. L : SendBase + k < index[j] + window
  BY <1>0, <1>3, AckedIs
<1>5. \A k \in 0 .. window - 1 : check_pkt'[At(SendBase' + k)] = 2 =>
        /\ Received(SendBase' + k)
        /\ \A j \in 2 .. L : SendBase' + k < index[j] + window
  <2> TAKE k \in 0 .. window - 1
  <2>1. HAVE check_pkt'[At(SendBase' + k)] = 2
  <2>2. n + k \in 0 .. 2 * window - 1 /\ SendBase' + k = SendBase + (n + k)
    BY <1>1, <1>2
  <2>3. At(SendBase + (n + k)) \in AckedNow
    BY <1>2, <2>1, <2>2
  <2>4. /\ Received(SendBase + (n + k))
        /\ \A j \in 2 .. L : SendBase + (n + k) < index[j] + window
    BY <1>4, <2>2, <2>3
  <2> QED
    BY <2>2, <2>4
<1>6. \A i : Received(i)' <=> Received(i)
  BY <1>0 DEF Received, At, ReceiveBase
<1>7. ReceiveBase' = ReceiveBase
  BY <1>0 DEF ReceiveBase
<1>8. Windows'
  <2>1. SendBase' <= ReceiveBase' /\ ReceiveBase' <= SendBase' + window
    BY <1>1, <1>2, <1>7
  <2>2. ASSUME NEW s \in held' PROVE buffer'[s] < SendBase' + window
    <3>1. buffer[s] < SendBase + window /\ buffer[s] \in Nat
      BY <1>0, <2>2 DEF Windows, Types
    <3> QED
      BY <1>0, <1>1, <1>2, <3>1
  <2> QED
    BY <1>5, <1>6, <2>1, <2>2 DEF Windows, At
<1>9. PacketsInv'
  <2>1. ASSUME NEW k \in 1 .. Len(packets), packets[k] # EndPacket PROVE InFlight(packets[k])'
    <3>1. InFlight(packets[k])
      BY <1>0, <2>1 DEF PacketsInv
    <3>2. packets[k].index \in Nat /\ packets[k].index < SendBase + window
      BY <3>1 DEF InFlight
    <3>3. packets[k].index < SendBase' + window
      BY <1>1, <1>2, <3>2
    <3> QED
      BY <1>0, <1>7, <3>1, <3>3 DEF InFlight, At
  <2>2. \A k \in 1 .. Len(packets) : packets[k] # EndPacket
    BY <1>0 DEF PacketsInv
  <2> QED
    BY <1>0, <2>1, <2>2 DEF PacketsInv
<1>10. AcksInv' /\ acks' \in Seq(Slots)
  <2>1. /\ acks' \in Seq(Slots) /\ Len(acks') = L - 1 /\ L \in Nat /\ L >= 1
        /\ \A k \in 1 .. L - 1 : acks'[k] = acks[k + 1]
    BY <1>0 DEF Types
  <2>2. PICK later \in [1 .. L - 1 -> Nat] : \A k \in 1 .. L - 1 : later[k] = index[k + 1]
    <3> DEFINE rest == [k \in 1 .. L - 1 |-> index[k + 1]]
    <3>1. rest \in [1 .. L - 1 -> Nat] /\ \A k \in 1 .. L - 1 : rest[k] = index[k + 1]
      BY <2>1
    <3> QED
      BY <3>1
  <2>3. \A k \in 1 .. L - 1 : k + 1 \in 2 .. L /\ k + 1 \in 1 .. L /\ later[k] = index[k + 1]
    BY <2>1, <2>2
  <2>4. \A k \in 2 .. L : SendBase' <= index[k] + window
    <3> TAKE k \in 2 .. L
    <3>0. k \in 1 .. L
      BY <2>1
    <3>1. k \in 1 .. L /\ index[k] \in Nat /\ SendBase <= index[k] + window
      BY <1>3, <3>0 DEF Acknowledged
    <3>2. CASE n = 0
      BY <1>1, <1>2, <3>1, <3>2
    <3>3. CASE n > 0
      <4>1. n - 1 \in 0 .. n - 1 /\ n - 1 \in 0 .. 2 * window - 1
        BY <1>1, <1>2, <3>3
      <4>2. SendBase + (n - 1) < index[k] + window
        BY <1>2, <1>4, <4>1
      <4> QED
        BY <1>1, <1>2, <3>1, <4>2
    <3> QED
      BY <1>2, <3>2, <3>3
  <2> HIDE DEF L
  <2>5. \A k \in 1 .. L - 1 :
          /\ acks'[k] = At(later[k]) /\ Received(later[k])
          /\ SendBase' <= later[k] + window
          /\ \A m \in 0 .. window - 1 :
               check_pkt'[At(SendBase' + m)] = 2 => SendBase' + m < later[k] + window
    <3> TAKE k \in 1 .. L - 1
    <3>1. /\ acks[k + 1] = At(index[k + 1]) /\ Received(index[k + 1])
          /\ acks'[k] = acks[k + 1] /\ later[k] = index[k + 1]
      BY <1>3, <2>1, <2>3 DEF Acknowledged, L
    <3>2. \A m \in 0 .. window - 1 :
            check_pkt'[At(SendBase' + m)] = 2 => SendBase' + m < index[k + 1] + window
      BY <1>5, <2>3
    <3> QED
      BY <2>3, <2>4, <3>1, <3>2
  <2>6. \A j, k \in 1 .. L - 1 : j < k => later[j] < later[k] + window
    <3> TAKE j, k \in 1 .. L - 1
    <3>1. HAVE j < k
    <3>2. j + 1 \in 1 .. L /\ k + 1 \in 1 .. L /\ j + 1 < k + 1
      BY <2>1, <3>1
    <3> QED
      BY <1>3, <2>3, <3>2 DEF Acknowledged, L
  <2>7. Acknowledged(later)'
    BY <1>6, <2>1, <2>5, <2>6 DEF Acknowledged, At
  <2> QED
    BY <2>1, <2>2, <2>7 DEF AcksInv
<1>11. ReceiverInv'
  <2>1. /\ ReceiverInv /\ snd' # "finished" /\ snd # "finished"
        /\ held' = held /\ buffer' = buffer /\ written' = written /\ rbase' = rbase
        /\ rcv' = rcv /\ error_count' = error_count
    BY <1>0
  <2> QED
    BY <1>7, <2>1 DEF ReceiverInv, At
<1>12. Types'
  <2>1. /\ Types /\ snd' = "loop" /\ packets' = packets /\ tot_sent' = tot_sent /\ err_count' = 0
        /\ held' = held /\ buffer' = buffer /\ written' = written /\ rbase' = rbase
        /\ rcv' = rcv /\ error_count' = error_count
    BY <1>0
  <2>2. 0 \in 0 .. MAX_ERR
    BY <1>1
  <2> QED
    BY <1>2, <1>10, <2>1, <2>2 DEF Types
<1> QED
  BY <1>2, <1>8, <1>9, <1>10, <1>11, <1>12 DEF IInv

-----------------------------------------------------------------------------
(* The receiver.                                                             *)

\* recv_window: the slots it holds once the packet is taken, and how many it writes.
Arrived == Head(packets).seq
HeldNow == held \cup IF Takes(Arrived) THEN {Arrived} ELSE {}
NewWrite == Advance(rbase, HeldNow)

\* A packet of the file that the packets still in flight are less than a window behind.
Reaches(i) ==
  /\ i < tot_pkts /\ i < SendBase + window
  /\ \A j \in 2 .. Len(packets) : packets[j] # EndPacket => i < packets[j].index + window

\* The packet at the head of the queue, when it is not the end packet.
LEMMA ArrivedIs ==
  ASSUME IInv, packets # << >>, Head(packets) # EndPacket
  PROVE  LET i == Head(packets).index IN
         /\ i \in Nat /\ Arrived = At(i) /\ Arrived \in Slots /\ Reaches(i)
         /\ ReceiveBase <= i + window
         /\ \A s \in held : buffer[s] < i + window
         /\ Takes(Arrived) => \E k \in 0 .. window - 1 : i = ReceiveBase + k
<1> DEFINE i == Head(packets).index
<1>0. /\ Types /\ SenderInv /\ Windows /\ PacketsInv /\ ReceiverInv /\ rbase = At(ReceiveBase)
      /\ SendBase \in Nat /\ ReceiveBase \in Nat /\ window \in Nat /\ N \in Nat
      /\ 2 * window <= N /\ ReceiveBase <= SendBase + window /\ SendBase <= ReceiveBase
  BY WindowIs DEF IInv, SenderInv, ReceiverInv, Windows, Types, ReceiveBase
<1>1. 1 \in 1 .. Len(packets) /\ Head(packets) = packets[1] /\ Len(packets) \in Nat
  BY <1>0 DEF Types
<1>2. InFlight(packets[1])
  BY <1>0, <1>1 DEF PacketsInv
<1>3. /\ i \in Nat /\ Arrived = At(i) /\ i < tot_pkts /\ i < SendBase + window
      /\ ReceiveBase <= i + window /\ \A s \in held : buffer[s] < i + window
  BY <1>1, <1>2 DEF InFlight, Packet, Arrived
<1>4. Reaches(i)
  <2>1. \A j \in 2 .. Len(packets) : j \in 1 .. Len(packets) /\ 1 < j
    BY <1>1
  <2>2. \A j \in 2 .. Len(packets) : packets[j] # EndPacket =>
          packets[1].index < packets[j].index + window
    BY <1>0, <1>1, <2>1 DEF PacketsInv
  <2> QED
    BY <1>1, <1>3, <2>2 DEF Reaches
<1>5. Arrived \in Slots
  BY <1>3, SlotOfPacket
<1> HIDE DEF i
<1>6. Takes(Arrived) => \E k \in 0 .. window - 1 : i = ReceiveBase + k
  <2> HAVE Takes(Arrived)
  <2>1. InWindow(At(ReceiveBase), Arrived)
    BY <1>0 DEF Takes
  <2>2. PICK k \in 0 .. window - 1 : At(i) = At(ReceiveBase + k)
    BY <1>0, <1>3, <2>1, WindowOf
  <2>3. /\ ReceiveBase + k \in Nat
        /\ i < ReceiveBase + k + N /\ ReceiveBase + k < i + N
    BY <1>0, <1>3
  <2> QED
    BY <1>3, <2>2, <2>3, SameSlot
<1> QED
  BY <1>3, <1>4, <1>5, <1>6 DEF i

\* Every slot held is of the window and holds its packet.
LEMMA HeldIs ==
  ASSUME IInv, NEW lost, recv_window(lost)
  PROVE  /\ HeldNow \subseteq Slots
         /\ \A s \in held : s \in HeldNow /\ buffer'[s] = buffer[s]
         /\ Takes(Arrived) => Arrived \in HeldNow /\ buffer'[Arrived] = Head(packets).index
         /\ \A s \in HeldNow : \E k \in 0 .. window - 1 :
              s = At(ReceiveBase + k) /\ buffer'[s] = ReceiveBase + k /\ Reaches(ReceiveBase + k)
         /\ \A k \in 0 .. 2 * window - 1 : At(ReceiveBase + k) \in HeldNow =>
              /\ k < window /\ buffer'[At(ReceiveBase + k)] = ReceiveBase + k
              /\ Reaches(ReceiveBase + k)
         /\ buffer' \in [Slots -> Nat]
<1> DEFINE i == Head(packets).index
<1>0. /\ Types /\ SenderInv /\ Windows /\ PacketsInv /\ ReceiverInv
      /\ SendBase \in Nat /\ ReceiveBase \in Nat /\ window \in Nat /\ N \in Nat
      /\ 2 * window <= N /\ held \subseteq Slots /\ buffer \in [Slots -> Nat]
      /\ packets # << >> /\ Head(packets) # EndPacket
      /\ buffer' = IF Takes(Arrived) THEN [buffer EXCEPT ![Arrived] = i] ELSE buffer
  <2>1. Types /\ SenderInv /\ Windows /\ PacketsInv /\ ReceiverInv
    BY DEF IInv
  <2>2. SendBase \in Nat /\ ReceiveBase \in Nat
    BY <2>1, WindowIs DEF SenderInv, Types, ReceiveBase
  <2>3. /\ packets # << >> /\ Head(packets) # EndPacket
        /\ buffer' = IF Takes(Arrived) THEN [buffer EXCEPT ![Arrived] = i] ELSE buffer
    BY DEF recv_window, Arrived
  <2>4. held \subseteq Slots /\ buffer \in [Slots -> Nat]
    BY <2>1 DEF Types
  <2> QED
    BY <2>1, <2>2, <2>3, <2>4, WindowIs
<1>1. /\ i \in Nat /\ Arrived = At(i) /\ Arrived \in Slots /\ Reaches(i)
      /\ Takes(Arrived) => \E k \in 0 .. window - 1 : i = ReceiveBase + k
  BY <1>0, ArrivedIs
<1> HIDE DEF i
<1>2. \A s \in held : s \in HeldNow /\ buffer'[s] = buffer[s]
  BY <1>0, <1>1 DEF HeldNow, Takes
<1>3. Takes(Arrived) => Arrived \in HeldNow /\ buffer'[Arrived] = i
  BY <1>0, <1>1 DEF HeldNow
<1>4. ASSUME NEW s \in held
      PROVE  \E k \in 0 .. window - 1 :
               s = At(ReceiveBase + k) /\ buffer'[s] = ReceiveBase + k /\ Reaches(ReceiveBase + k)
  <2>1. PICK k \in 0 .. window - 1 :
          s = At(ReceiveBase + k) /\ buffer[s] = ReceiveBase + k /\ ReceiveBase + k < tot_pkts
    BY <1>0, <1>4 DEF ReceiverInv
  <2>2. ReceiveBase + k < SendBase + window
    BY <1>0, <1>4, <2>1 DEF Windows
  <2>3. \A j \in 2 .. Len(packets) : packets[j] # EndPacket =>
          ReceiveBase + k < packets[j].index + window
    <3>1. 2 .. Len(packets) \subseteq 1 .. Len(packets)
      BY <1>0 DEF Types
    <3>2. \A j \in 2 .. Len(packets) : packets[j] # EndPacket => InFlight(packets[j])
      BY <1>0, <3>1 DEF PacketsInv
    <3> QED
      BY <1>4, <2>1, <3>2 DEF InFlight
  <2> QED
    BY <1>2, <2>1, <2>2, <2>3 DEF Reaches
<1>5. \A s \in HeldNow : \E k \in 0 .. window - 1 :
        s = At(ReceiveBase + k) /\ buffer'[s] = ReceiveBase + k /\ Reaches(ReceiveBase + k)
  BY <1>1, <1>3, <1>4 DEF HeldNow
<1>6. \A k \in 0 .. 2 * window - 1 : At(ReceiveBase + k) \in HeldNow =>
        /\ k < window /\ buffer'[At(ReceiveBase + k)] = ReceiveBase + k
        /\ Reaches(ReceiveBase + k)
  <2> TAKE k \in 0 .. 2 * window - 1
  <2>1. HAVE At(ReceiveBase + k) \in HeldNow
  <2>2. PICK m \in 0 .. window - 1 :
          /\ At(ReceiveBase + k) = At(ReceiveBase + m)
          /\ buffer'[At(ReceiveBase + k)] = ReceiveBase + m /\ Reaches(ReceiveBase + m)
    BY <1>5, <2>1
  <2>3. /\ ReceiveBase + k \in Nat /\ ReceiveBase + m \in Nat
        /\ ReceiveBase + k < ReceiveBase + m + N /\ ReceiveBase + m < ReceiveBase + k + N
    BY <1>0
  <2>4. ReceiveBase + k = ReceiveBase + m
    BY <2>2, <2>3, SameSlot
  <2>5. k = m
    BY <1>0, <2>4
  <2> QED
    BY <1>0, <2>2, <2>5
<1>7. HeldNow \subseteq Slots
  BY <1>0, <1>1 DEF HeldNow
<1>8. buffer' \in [Slots -> Nat]
  BY <1>0, <1>1
<1> QED
  BY <1>2, <1>3, <1>5, <1>6, <1>7, <1>8 DEF i

\* recv_window, for the window of the receiver and the file.
LEMMA ReceiverMoves ==
  ASSUME IInv, NEW lost \in BOOLEAN, recv_window(lost)
  PROVE  /\ NewWrite \in 0 .. window /\ ReceiveBase' = ReceiveBase + NewWrite
         /\ ReceiveBase' <= SendBase + window
         /\ ReceiverInv'
         /\ written' \in Seq(Nat) /\ held' \subseteq HeldNow /\ rbase' \in Slots
         /\ \A k \in 0 .. NewWrite - 1 : Reaches(ReceiveBase + k)
         /\ \A s \in HeldNow : \A i \in Nat : s = At(i) /\ buffer'[s] = i => Received(i)'
<1> DEFINE n == NewWrite
           passed == {At(ReceiveBase + k) : k \in 0 .. n - 1}
<1>0. /\ Types /\ ReceiverInv /\ rbase = At(ReceiveBase)
      /\ SendBase \in Nat /\ ReceiveBase \in Nat /\ window \in Nat /\ window >= 2
      /\ tot_pkts \in Nat /\ ReceiveBase <= tot_pkts /\ ReceiveBase <= SendBase + window
      /\ MAX_ERR \in Nat /\ MAX_ERR > 0
  BY WindowIs DEF IInv, SenderInv, Types, ReceiverInv, Windows, ReceiveBase
<1>1. /\ rcv' = rcv /\ snd' = snd /\ error_count' = 0 /\ rcv = "recv"
      /\ held' = HeldNow \ Passed(rbase, n) /\ rbase' = Slot(rbase, n)
      /\ written' = written \o [k \in 1 .. n |-> buffer'[Slot(rbase, k - 1)]]
  BY DEF recv_window, senderVars, HeldNow, Arrived, NewWrite
<1>2. /\ HeldNow \subseteq Slots /\ buffer' \in [Slots -> Nat]
      /\ \A s \in HeldNow : \E k \in 0 .. window - 1 :
           s = At(ReceiveBase + k) /\ buffer'[s] = ReceiveBase + k /\ Reaches(ReceiveBase + k)
      /\ \A k \in 0 .. 2 * window - 1 : At(ReceiveBase + k) \in HeldNow =>
           /\ k < window /\ buffer'[At(ReceiveBase + k)] = ReceiveBase + k
           /\ Reaches(ReceiveBase + k)
  BY HeldIs
<1>3. /\ n \in 0 .. window /\ n \in Nat
      /\ \A k \in 0 .. n - 1 : At(ReceiveBase + k) \in HeldNow
      /\ n < window => At(ReceiveBase + n) \notin HeldNow
  BY <1>0, AdvanceIs DEF NewWrite
<1> HIDE DEF n
<1>4. Passed(rbase, n) = passed /\ rbase' = At(ReceiveBase + n) /\ rbase' \in Slots
  <2>1. Passed(rbase, n) = passed
    BY <1>0, <1>3, WindowOf
  <2>2. rbase' = At(ReceiveBase + n)
    BY <1>0, <1>1, <1>3, SlotFrom
  <2>3. ReceiveBase + n \in Nat
    BY <1>0, <1>3
  <2> QED
    BY <2>1, <2>2, <2>3, SlotOfPacket
<1>5. \A k \in 0 .. n - 1 : buffer'[At(ReceiveBase + k)] = ReceiveBase + k /\ Reaches(ReceiveBase + k)
  <2>1. \A k \in 0 .. n - 1 : k \in 0 .. 2 * window - 1
    BY <1>0, <1>3
  <2> QED
    BY <1>2, <1>3, <2>1
<1>6. ReceiveBase + n <= tot_pkts /\ ReceiveBase + n <= SendBase + window
  <2>1. CASE n = 0
    BY <1>0, <2>1
  <2>2. CASE n > 0
    <3>1. n - 1 \in 0 .. n - 1
      BY <1>3, <2>2
    <3>2. ReceiveBase + (n - 1) < tot_pkts /\ ReceiveBase + (n - 1) < SendBase + window
      BY <1>5, <3>1 DEF Reaches
    <3> QED
      BY <1>0, <1>3, <3>2
  <2> QED
    BY <1>3, <2>1, <2>2
\* What is written.
<1>7. /\ written' \in Seq(Nat) /\ ReceiveBase' = ReceiveBase + n
      /\ \A k \in 1 .. ReceiveBase + n : written'[k] = k - 1
  <2>1. PICK more : more = [k \in 1 .. n |-> buffer'[Slot(rbase, k - 1)]]
    OBVIOUS
  <2>2. \A k \in 1 .. n : more[k] = ReceiveBase + (k - 1)
    <3> TAKE k \in 1 .. n
    <3>1. k - 1 \in 0 .. n - 1 /\ k - 1 \in Nat
      BY <1>3
    <3>2. Slot(rbase, k - 1) = At(ReceiveBase + (k - 1))
      BY <1>0, <3>1, SlotFrom
    <3> QED
      BY <1>5, <2>1, <3>1, <3>2
  <2>3. more \in [1 .. n -> Nat]
    BY <1>0, <1>3, <2>1, <2>2
  <2>4. more \in Seq(Nat) /\ Len(more) = n
    BY <1>3, <2>3, SequenceOf
  <2>5. written \in Seq(Nat) /\ \A k \in 1 .. Len(written) : written[k] = k - 1
    BY <1>0 DEF Types, ReceiverInv, ReceiveBase
  <2>6. written' = written \o more
    BY <1>1, <2>1
  <2>7. /\ written' \in Seq(Nat) /\ Len(written') = Len(written) + n
        /\ \A k \in 1 .. Len(written) : written'[k] = written[k]
        /\ \A k \in 1 .. n : written'[Len(written) + k] = more[k]
    <3>1. /\ written \o more \in Seq(Nat)
          /\ Len(written \o more) = Len(written) + Len(more)
          /\ \A k \in 1 .. Len(written) : (written \o more)[k] = written[k]
          /\ \A k \in 1 .. Len(more) : (written \o more)[Len(written) + k] = more[k]
      <4>1. written \in Seq(Nat) /\ more \in Seq(Nat)
        BY <2>4, <2>5
      <4> QED
        BY <4>1
    <3> QED
      BY <2>4, <2>6, <3>1, Zenon
  <2>8. \A k \in 1 .. Len(written) + n : written'[k] = k - 1
    <3> TAKE k \in 1 .. Len(written) + n
    <3>1. CASE k \in 1 .. Len(written)
      BY <2>5, <2>7, <3>1
    <3>2. CASE k \notin 1 .. Len(written)
      <4>1. /\ k - Len(written) \in 1 .. n /\ Len(written) + (k - Len(written)) = k
            /\ Len(written) \in Nat
        BY <1>0, <1>3, <3>2 DEF ReceiveBase
      <4>2. written'[k] = more[k - Len(written)]
        BY <2>7, <4>1
      <4> QED
        BY <1>3, <2>2, <4>1, <4>2 DEF ReceiveBase
    <3> QED
      BY <3>1, <3>2
  <2> QED
    BY <2>7, <2>8 DEF ReceiveBase
\* What is held.
<1>8. \A s \in held' : /\ s \in HeldNow
                       /\ \E k \in 0 .. window - 1 :
                            /\ s = At(ReceiveBase + n + k) /\ buffer'[s] = ReceiveBase + n + k
                            /\ ReceiveBase + n + k < tot_pkts
  <2> TAKE s \in held'
  <2>1. s \in HeldNow /\ s \notin passed
    BY <1>1, <1>4
  <2>2. PICK j \in 0 .. window - 1 :
          s = At(ReceiveBase + j) /\ buffer'[s] = ReceiveBase + j /\ Reaches(ReceiveBase + j)
    BY <1>2, <2>1
  <2>3. j >= n
    BY <1>3, <2>1, <2>2
  <2>4. j - n \in 0 .. window - 1 /\ ReceiveBase + n + (j - n) = ReceiveBase + j
    BY <1>0, <1>3, <2>3
  <2> QED
    BY <2>1, <2>2, <2>4 DEF Reaches
<1>9. rbase' \notin held'
  <2>1. CASE n < window
    BY <1>1, <1>3, <1>4, <2>1
  <2>2. CASE n = window
    <3>1. n \in 0 .. 2 * window - 1
      BY <1>0, <2>2
    <3>2. At(ReceiveBase + n) \notin HeldNow
      BY <1>0, <1>2, <2>2, <3>1
    <3> QED
      BY <1>1, <1>4, <3>2
  <2> QED
    BY <1>0, <1>3, <2>1, <2>2
<1>10. ReceiverInv'
  <2>1. ReceiveBase' = ReceiveBase + n /\ rbase' = At(ReceiveBase')
    BY <1>4, <1>7
  <2>2. rcv' # "received"
    BY <1>1
  <2>3. error_count' < MAX_ERR
    BY <1>0, <1>1
  <2> QED
    BY <1>6, <1>7, <1>8, <1>9, <2>1, <2>2, <2>3 DEF ReceiverInv, At
<1>11. ASSUME NEW s \in HeldNow, NEW i \in Nat, s = At(i), buffer'[s] = i
       PROVE  Received(i)'
  <2>1. CASE s \in passed
    <3>1. PICK k \in 0 .. n - 1 : s = At(ReceiveBase + k)
      BY <2>1
    <3>2. i = ReceiveBase + k
      BY <1>5, <1>11, <3>1
    <3> QED
      BY <1>0, <1>3, <1>7, <3>2 DEF Received
  <2>2. CASE s \notin passed
    <3>1. s \in held'
      BY <1>1, <1>4, <2>2
    <3> QED
      BY <1>11, <3>1 DEF Received, At
  <2> QED
    BY <2>1, <2>2
<1>12. held' \subseteq HeldNow
  BY <1>8
<1> QED
  BY <1>3, <1>4, <1>5, <1>6, <1>7, <1>10, <1>11, <1>12 DEF n

\* A packet that has been acknowledged, or just now thrown away, is received.
LEMMA ReceivedStays ==
  ASSUME IInv, NEW lost \in BOOLEAN, recv_window(lost)
  PROVE  /\ \A i \in Nat : Received(i) => Received(i)' /\ i < Head(packets).index + window
         /\ \A i \in Nat : i = Head(packets).index => Received(i)'
<1> PICK i : i = Head(packets).index
  OBVIOUS
<1>0. /\ Types /\ ReceiverInv /\ rbase = At(ReceiveBase) /\ packets # << >>
      /\ Head(packets) # EndPacket /\ ReceiveBase \in Nat /\ window \in Nat
      /\ N \in Nat /\ 2 * window <= N /\ SendBase \in Nat /\ ReceiveBase <= SendBase + window
      /\ SendBase <= ReceiveBase
  <2>1. Types /\ ReceiverInv /\ Windows /\ SenderInv
    BY DEF IInv
  <2>2. SendBase \in Nat /\ ReceiveBase \in Nat /\ rbase = At(ReceiveBase)
    BY <2>1, WindowIs DEF SenderInv, ReceiverInv, Types, ReceiveBase
  <2>3. ReceiveBase <= SendBase + window /\ SendBase <= ReceiveBase
    BY <2>1 DEF Windows
  <2>4. packets # << >> /\ Head(packets) # EndPacket
    BY DEF recv_window
  <2> QED
    BY <2>1, <2>2, <2>3, <2>4, WindowIs
<1>1. /\ i \in Nat /\ Arrived = At(i) /\ Arrived \in Slots /\ Reaches(i)
      /\ ReceiveBase <= i + window /\ \A s \in held : buffer[s] < i + window
  BY <1>0, ArrivedIs
<1>2. /\ NewWrite \in 0 .. window /\ ReceiveBase' = ReceiveBase + NewWrite
      /\ \A s \in HeldNow : \A j \in Nat : s = At(j) /\ buffer'[s] = j => Received(j)'
  BY ReceiverMoves
<1>3. /\ \A s \in held : s \in HeldNow /\ buffer'[s] = buffer[s]
      /\ Takes(Arrived) => Arrived \in HeldNow /\ buffer'[Arrived] = i
  BY HeldIs
<1>4. ASSUME NEW j \in Nat, Received(j)
      PROVE  Received(j)' /\ j < i + window
  <2>1. CASE j < ReceiveBase
    <3>1. j < ReceiveBase'
      BY <1>0, <1>2, <2>1
    <3>2. j < i + window
      BY <1>0, <1>1, <2>1
    <3> QED
      BY <3>1, <3>2 DEF Received
  <2>2. CASE At(j) \in held /\ buffer[At(j)] = j
    BY <1>1, <1>2, <1>3, <2>2
  <2> QED
    BY <1>4, <2>1, <2>2 DEF Received
<1>5. Received(i)'
  <2>1. CASE Takes(Arrived)
    BY <1>1, <1>2, <1>3, <2>1
  <2>2. CASE Arrived \in held
    <3>1. PICK k \in 0 .. window - 1 :
            At(i) = At(ReceiveBase + k) /\ buffer[Arrived] = ReceiveBase + k
      BY <1>0, <1>1, <2>2 DEF ReceiverInv
    <3>2. ReceiveBase + k < i + window /\ i < SendBase + window
      BY <1>1, <2>2, <3>1 DEF Reaches
    <3>3. /\ ReceiveBase + k \in Nat
          /\ i < ReceiveBase + k + N /\ ReceiveBase + k < i + N
      BY <1>0, <1>1, <3>2
    <3>4. i = ReceiveBase + k
      BY <1>1, <3>1, <3>3, SameSlot
    <3>5. Received(i)
      BY <1>1, <2>2, <3>1, <3>4 DEF Received
    <3> QED
      BY <1>1, <1>4, <3>5
  <2>3. CASE Arrived \notin held /\ ~Takes(Arrived)
    <3>1. ~ InWindow(At(ReceiveBase), At(i))
      BY <1>0, <1>1, <2>3 DEF Takes
    <3>2. \A k \in 0 .. window - 1 : At(i) # At(ReceiveBase + k)
      BY <1>0, <3>1, WindowOf
    <3>3. ASSUME i >= ReceiveBase PROVE FALSE
      <4>1. i - ReceiveBase \in 0 .. window - 1 /\ ReceiveBase + (i - ReceiveBase) = i
        BY <1>0, <1>1, <3>3 DEF Reaches
      <4> QED
        BY <3>2, <4>1
    <3>4. Received(i)
      BY <1>0, <1>1, <3>3 DEF Received
    <3> QED
      BY <1>1, <1>4, <3>4
  <2> QED
    BY <2>1, <2>2, <2>3
<1> QED
  BY <1>4, <1>5

LEMMA ReceiveStep ==
  ASSUME IInv, NEW lost \in BOOLEAN, recv_window(lost)
  PROVE  IInv'
<1> PICK i : i = Head(packets).index
  OBVIOUS
<1> DEFINE n == NewWrite
           L == Len(acks)
           P == Len(packets)
<1>0. /\ Types /\ SenderInv /\ ReceiverInv /\ Windows /\ PacketsInv
      /\ packets # << >> /\ Head(packets) # EndPacket /\ packets' = Tail(packets)
      /\ acks' = IF lost THEN acks ELSE Append(acks, Arrived)
      /\ error_count' = 0 /\ rcv' = rcv /\ snd' = snd /\ base' = base /\ check_pkt' = check_pkt
      /\ pkt' = pkt /\ read' = read /\ tot_sent' = tot_sent /\ tot_ack' = tot_ack
      /\ err_count' = err_count
  BY DEF IInv, recv_window, senderVars, Arrived
<1>1. /\ SendBase \in Nat /\ window \in Nat /\ window >= 2 /\ ReceiveBase \in Nat
      /\ MAX_ERR \in Nat /\ SendBase <= ReceiveBase /\ SendBase' = SendBase
  BY <1>0, WindowIs DEF SenderInv, Types, Windows, ReceiveBase, SendBase
<1>2. /\ n \in 0 .. window /\ ReceiveBase' = ReceiveBase + n
      /\ ReceiveBase' <= SendBase + window /\ ReceiverInv'
      /\ written' \in Seq(Nat) /\ held' \subseteq HeldNow /\ rbase' \in Slots
      /\ \A k \in 0 .. n - 1 : Reaches(ReceiveBase + k)
  BY ReceiverMoves
<1>3. /\ HeldNow \subseteq Slots /\ buffer' \in [Slots -> Nat]
      /\ \A s \in HeldNow : \E k \in 0 .. window - 1 :
           s = At(ReceiveBase + k) /\ buffer'[s] = ReceiveBase + k /\ Reaches(ReceiveBase + k)
  BY HeldIs
<1>4. /\ i \in Nat /\ Arrived = At(i) /\ Arrived \in Slots /\ ReceiveBase <= i + window
  BY <1>0, ArrivedIs
<1>5. /\ \A j \in Nat : Received(j) => Received(j)' /\ j < i + window
      /\ Received(i)'
  BY <1>4, ReceivedStays
<1> HIDE DEF n
<1>6. \A s \in held' : Reaches(buffer'[s]) /\ buffer'[s] \in Nat
  BY <1>2, <1>3
<1>7. SenderInv'
  BY <1>0, <1>1 DEF SenderInv, At, Marked
<1>8. \A k \in 0 .. window - 1 : check_pkt[At(SendBase + k)] = 2 =>
        /\ SendBase + k \in Nat /\ Received(SendBase + k) /\ Received(SendBase + k)'
        /\ SendBase + k < i + window
  <2> TAKE k \in 0 .. window - 1
  <2>1. HAVE check_pkt[At(SendBase + k)] = 2
  <2>2. SendBase + k \in Nat
    BY <1>1
  <2>3. Received(SendBase + k)
    BY <1>0, <2>1 DEF Windows
  <2>4. PICK j \in Nat : j = SendBase + k
    BY <2>2
  <2>5. Received(j)' /\ j < i + window
    BY <1>5, <2>3, <2>4
  <2> QED
    BY <1>1, <2>2, <2>3, <2>4, <2>5 DEF Received, At
<1>9. Windows'
  <2>1. SendBase' <= ReceiveBase' /\ ReceiveBase' <= SendBase' + window
    BY <1>1, <1>2
  <2>2. \A s \in held' : buffer'[s] < SendBase' + window
    BY <1>1, <1>6 DEF Reaches
  <2>3. \A k \in 0 .. window - 1 : check_pkt'[At(SendBase + k)] = 2 => Received(SendBase + k)'
    BY <1>0, <1>8
  <2> QED
    BY <1>1, <2>1, <2>2, <2>3 DEF Windows, At
\* The packets in flight.
<1>10. /\ packets' \in Seq([seq : Slots \cup {-1}, index : Nat])
       /\ P \in Nat /\ P >= 1 /\ Len(packets') = P - 1
       /\ \A k \in 1 .. P - 1 : packets'[k] = packets[k + 1] /\ k + 1 \in 2 .. P /\ k + 1 \in 1 .. P
  <2>1. packets \in Seq([seq : Slots \cup {-1}, index : Nat])
    BY <1>0 DEF Types
  <2> QED
    BY <1>0, <2>1
<1>11. PacketsInv'
  <2>1. ASSUME NEW k \in 2 .. P, NEW p, p = packets[k], p # EndPacket
        PROVE  /\ p = Packet(At(p.index), p.index) /\ p.index \in Nat
               /\ p.index < tot_pkts /\ p.index < SendBase + window
               /\ ReceiveBase' <= p.index + window
               /\ \A s \in held' : buffer'[s] < p.index + window
    <3>1. k \in 1 .. P
      BY <1>10
    <3>2. InFlight(p)
      BY <1>0, <2>1, <3>1 DEF PacketsInv
    <3>3. \A s \in held' : buffer'[s] < p.index + window
      BY <1>6, <2>1 DEF Reaches
    <3>4. p.index \in Nat /\ ReceiveBase <= p.index + window
      BY <3>2 DEF InFlight
    <3>5. ReceiveBase' <= p.index + window
      <4>1. CASE n = 0
        BY <1>1, <1>2, <3>4, <4>1
      <4>2. CASE n > 0
        <5>1. n - 1 \in 0 .. n - 1
          BY <1>2, <4>2
        <5>2. ReceiveBase + (n - 1) < p.index + window
          BY <1>2, <2>1, <5>1 DEF Reaches
        <5> QED
          BY <1>1, <1>2, <3>4, <5>2
      <4> QED
        BY <1>2, <4>1, <4>2
    <3> QED
      BY <3>2, <3>3, <3>5 DEF InFlight
  <2>2. ASSUME NEW k \in 1 .. P - 1, packets'[k] # EndPacket
        PROVE  InFlight(packets[k])'
    <3>1. PICK p : p = packets'[k]
      OBVIOUS
    <3>2. p = packets[k + 1] /\ k + 1 \in 2 .. P /\ p # EndPacket
      BY <1>10, <2>2, <3>1
    <3>3. /\ p = Packet(At(p.index), p.index) /\ p.index \in Nat
          /\ p.index < tot_pkts /\ p.index < SendBase' + window
          /\ ReceiveBase' <= p.index + window
          /\ \A s \in held' : buffer'[s] < p.index + window
      BY <1>1, <2>1, <3>2
    <3> QED
      BY <3>1, <3>3 DEF InFlight, At
  <2>3. \A k \in 1 .. P - 1 : packets'[k] = EndPacket => snd' = "finished"
    BY <1>0, <1>10 DEF PacketsInv
  <2>4. \A j, k \in 1 .. P - 1 :
          j < k /\ packets'[j] # EndPacket /\ packets'[k] # EndPacket
            => packets'[j].index < packets'[k].index + window
    <3> TAKE j, k \in 1 .. P - 1
    <3>1. HAVE j < k /\ packets'[j] # EndPacket /\ packets'[k] # EndPacket
    <3>2. j + 1 \in 1 .. P /\ k + 1 \in 1 .. P /\ j + 1 < k + 1
      BY <1>10, <3>1
    <3>3. packets'[j] = packets[j + 1] /\ packets'[k] = packets[k + 1]
      BY <1>10
    <3> QED
      BY <1>0, <3>1, <3>2, <3>3 DEF PacketsInv
  <2> QED
    BY <1>10, <2>2, <2>3, <2>4 DEF PacketsInv
\* The acknowledgements in flight.
<1>12. AcksInv' /\ acks' \in Seq(Slots)
  <2>1. PICK index \in [1 .. L -> Nat] : Acknowledged(index)
    BY DEF IInv, AcksInv
  <2>2. acks \in Seq(Slots) /\ L \in Nat
    BY <1>0 DEF Types
  <2>3. CASE lost
    <3>1. acks' = acks
      BY <1>0, <2>3
    <3>2. \A k \in 1 .. L : Received(index[k])'
      BY <1>5, <2>1 DEF Acknowledged
    <3>3. Acknowledged(index)'
      BY <1>0, <1>1, <2>1, <3>1, <3>2 DEF Acknowledged, At
    <3> QED
      BY <2>1, <2>2, <3>1, <3>3 DEF AcksInv
  <2>4. CASE ~lost
    <3>1. /\ acks' \in Seq(Slots) /\ Len(acks') = L + 1 /\ acks'[L + 1] = Arrived
          /\ \A k \in 1 .. L : acks'[k] = acks[k]
      BY <1>0, <1>4, <2>2, <2>4
    <3>2. PICK more \in [1 .. L + 1 -> Nat] :
            more[L + 1] = i /\ \A k \in 1 .. L : more[k] = index[k]
      <4> DEFINE f == [k \in 1 .. L + 1 |-> IF k = L + 1 THEN i ELSE index[k]]
      <4>1. f \in [1 .. L + 1 -> Nat] /\ f[L + 1] = i /\ \A k \in 1 .. L : f[k] = index[k]
        BY <1>4, <2>2
      <4> QED
        BY <4>1
    <3>3. \A k \in 1 .. L + 1 : k \in 1 .. L \/ k = L + 1
      BY <2>2
    <3>4. \A k \in 1 .. L : Received(index[k]) /\ index[k] \in Nat
      BY <2>1 DEF Acknowledged
    <3> HIDE DEF L
    <3>5. \A k \in 1 .. L + 1 :
            /\ acks'[k] = At(more[k]) /\ Received(more[k])'
            /\ SendBase <= more[k] + window
            /\ \A m \in 0 .. window - 1 :
                 check_pkt[At(SendBase + m)] = 2 => SendBase + m < more[k] + window
      <4> TAKE k \in 1 .. L + 1
      <4>1. CASE k \in 1 .. L
        BY <1>5, <2>1, <3>1, <3>2, <3>4, <4>1 DEF Acknowledged, L
      <4>2. CASE k = L + 1
        <5>1. SendBase <= i + window
          BY <1>1, <1>4
        <5> QED
          BY <1>4, <1>5, <1>8, <3>1, <3>2, <4>2, <5>1
      <4> QED
        BY <3>3, <4>1, <4>2
    <3>6. \A j, k \in 1 .. L + 1 : j < k => more[j] < more[k] + window
      <4> TAKE j, k \in 1 .. L + 1
      <4>1. HAVE j < k
      <4>2. CASE k \in 1 .. L
        <5>1. j \in 1 .. L
          BY <2>2, <4>1, <4>2
        <5> QED
          BY <2>1, <3>2, <4>1, <4>2, <5>1 DEF Acknowledged, L
      <4>3. CASE k = L + 1
        <5>1. j \in 1 .. L
          BY <2>2, <4>1, <4>3
        <5> QED
          BY <1>5, <3>2, <3>4, <4>3, <5>1
      <4> QED
        BY <3>3, <4>2, <4>3
    <3>7. Acknowledged(more)'
      BY <1>0, <1>1, <3>1, <3>5, <3>6 DEF Acknowledged, At
    <3> QED
      BY <3>1, <3>2, <3>7 DEF AcksInv
  <2> QED
    BY <2>3, <2>4
<1>13. Types'
  <2>1. held' \in SUBSET Slots
    BY <1>2, <1>3
  <2>2. error_count' \in 0 .. MAX_ERR
    BY <1>0, <1>1
  <2> QED
    BY <1>0, <1>2, <1>3, <1>10, <1>12, <2>1, <2>2 DEF Types
<1> QED
  BY <1>2, <1>7, <1>9, <1>11, <1>12, <1>13 DEF IInv

LEMMA EndReceived ==
  ASSUME IInv, recv_end
  PROVE  IInv'
<1>0. /\ Types /\ SenderInv /\ ReceiverInv /\ Windows /\ PacketsInv
      /\ packets # << >> /\ Head(packets) = EndPacket /\ packets' = Tail(packets)
      /\ error_count' = 0 /\ rcv' = "received"
      /\ UNCHANGED <<rbase, held, buffer, written, acks>>
      /\ snd' = snd /\ base' = base /\ check_pkt' = check_pkt
      /\ pkt' = pkt /\ read' = read /\ tot_sent' = tot_sent /\ tot_ack' = tot_ack
      /\ err_count' = err_count
  BY DEF IInv, recv_end, senderVars
<1> DEFINE P == Len(packets)
<1>1. /\ packets' \in Seq([seq : Slots \cup {-1}, index : Nat])
      /\ P \in Nat /\ P >= 1 /\ Len(packets') = P - 1 /\ packets[1] = EndPacket
      /\ \A k \in 1 .. P - 1 : packets'[k] = packets[k + 1] /\ k + 1 \in 1 .. P
  <2>1. packets \in Seq([seq : Slots \cup {-1}, index : Nat])
    BY <1>0 DEF Types
  <2> QED
    BY <1>0, <2>1
<1>2. SendBase' = SendBase /\ ReceiveBase' = ReceiveBase /\ MAX_ERR \in Nat
  BY <1>0, WindowIs DEF SendBase, ReceiveBase
<1>3. snd = "finished"
  <2>1. 1 \in 1 .. P
    BY <1>1
  <2> QED
    BY <1>0, <1>1, <2>1 DEF PacketsInv
<1>4. PacketsInv'
  <2>1. \A p : InFlight(p)' <=> InFlight(p)
    BY <1>0, <1>2 DEF InFlight, At
  <2>2. ASSUME NEW k \in 1 .. P - 1
        PROVE  IF packets'[k] = EndPacket THEN snd' = "finished" ELSE InFlight(packets[k])'
    <3>1. PICK p : p = packets'[k]
      OBVIOUS
    <3>2. p = packets[k + 1] /\ k + 1 \in 1 .. P
      BY <1>1, <3>1
    <3>3. p # EndPacket => InFlight(p)
      BY <1>0, <3>2 DEF PacketsInv
    <3> QED
      BY <1>0, <1>2, <1>3, <3>1, <3>3 DEF InFlight, At
  <2>3. \A j, k \in 1 .. P - 1 :
          j < k /\ packets'[j] # EndPacket /\ packets'[k] # EndPacket
            => packets'[j].index < packets'[k].index + window
    <3> TAKE j, k \in 1 .. P - 1
    <3>1. HAVE j < k /\ packets'[j] # EndPacket /\ packets'[k] # EndPacket
    <3>2. j + 1 \in 1 .. P /\ k + 1 \in 1 .. P /\ j + 1 < k + 1
      BY <1>1, <3>1
    <3>3. packets'[j] = packets[j + 1] /\ packets'[k] = packets[k + 1]
      BY <1>1
    <3> QED
      BY <1>0, <3>1, <3>2, <3>3 DEF PacketsInv
  <2> QED
    BY <1>1, <2>2, <2>3 DEF PacketsInv
<1>5. \A i : Received(i)' <=> Received(i)
  BY <1>0, <1>2 DEF Received, At
<1>6. SenderInv'
  BY <1>0, <1>2 DEF SenderInv, At, Marked
<1>7. ReceiverInv'
  BY <1>0, <1>2, <1>3 DEF ReceiverInv, At
<1>8. Windows'
  BY <1>0, <1>2, <1>5 DEF Windows, At
<1>9. AcksInv'
  <2>1. \A index : Acknowledged(index) => Acknowledged(index)'
    BY <1>0, <1>2, <1>5 DEF Acknowledged, At
  <2> QED
    BY <1>0, <2>1 DEF IInv, AcksInv
<1>10. Types'
  BY <1>0, <1>1, <1>2 DEF Types
<1> QED
  BY <1>4, <1>6, <1>7, <1>8, <1>9, <1>10 DEF IInv

LEMMA PacketTimeout ==
  ASSUME IInv, pkt_timeout
  PROVE  IInv'
<1>0. /\ Types /\ SenderInv /\ ReceiverInv /\ Windows /\ PacketsInv
      /\ packets' = packets /\ rcv = "recv"
      /\ error_count' = error_count + 1
      /\ rcv' = IF error_count + 1 = MAX_ERR THEN "failed" ELSE "recv"
      /\ UNCHANGED <<rbase, held, buffer, written, acks>>
      /\ snd' = snd /\ base' = base /\ check_pkt' = check_pkt
      /\ pkt' = pkt /\ read' = read /\ tot_sent' = tot_sent /\ tot_ack' = tot_ack
      /\ err_count' = err_count
  BY DEF IInv, pkt_timeout, senderVars
<1>1. SendBase' = SendBase /\ ReceiveBase' = ReceiveBase /\ MAX_ERR \in Nat
  BY <1>0, WindowIs DEF SendBase, ReceiveBase
<1>2. error_count' \in 0 .. MAX_ERR /\ (rcv' = "recv" => error_count' < MAX_ERR)
  BY <1>0, <1>1 DEF Types, ReceiverInv
<1>3. \A i : Received(i)' <=> Received(i)
  BY <1>0, <1>1 DEF Received, At
<1>4. SenderInv'
  BY <1>0, <1>1 DEF SenderInv, At, Marked
<1>5. ReceiverInv'
  BY <1>0, <1>1, <1>2 DEF ReceiverInv, At
<1>6. Windows'
  BY <1>0, <1>1, <1>3 DEF Windows, At
<1>7. PacketsInv'
  BY <1>0, <1>1 DEF PacketsInv, InFlight, At
<1>8. AcksInv'
  <2>1. \A index : Acknowledged(index) => Acknowledged(index)'
    BY <1>0, <1>1, <1>3 DEF Acknowledged, At
  <2> QED
    BY <1>0, <2>1 DEF IInv, AcksInv
<1>9. Types'
  BY <1>0, <1>2 DEF Types
<1> QED
  BY <1>4, <1>5, <1>6, <1>7, <1>8, <1>9 DEF IInv

LEMMA Stutters ==
  ASSUME IInv, UNCHANGED vars
  PROVE  IInv'
<1>0. /\ Types /\ SenderInv /\ ReceiverInv /\ Windows /\ PacketsInv
      /\ packets' = packets /\ rcv' = rcv /\ error_count' = error_count
      /\ UNCHANGED <<rbase, held, buffer, written, acks>>
      /\ snd' = snd /\ base' = base /\ check_pkt' = check_pkt
      /\ pkt' = pkt /\ read' = read /\ tot_sent' = tot_sent /\ tot_ack' = tot_ack
      /\ err_count' = err_count
  BY DEF IInv, vars, senderVars, receiverVars
<1>1. SendBase' = SendBase /\ ReceiveBase' = ReceiveBase
  BY <1>0 DEF SendBase, ReceiveBase
<1>2. \A i : Received(i)' <=> Received(i)
  BY <1>0, <1>1 DEF Received, At
<1>3. SenderInv' /\ ReceiverInv'
  BY <1>0, <1>1 DEF SenderInv, ReceiverInv, At, Marked
<1>4. Windows' /\ PacketsInv'
  BY <1>0, <1>1, <1>2 DEF Windows, PacketsInv, InFlight, At
<1>5. AcksInv'
  <2>1. \A index : Acknowledged(index) => Acknowledged(index)'
    BY <1>0, <1>1, <1>2 DEF Acknowledged, At
  <2> QED
    BY <1>0, <2>1 DEF IInv, AcksInv
<1>6. Types'
  BY <1>0 DEF Types
<1> QED
  BY <1>3, <1>4, <1>5, <1>6 DEF IInv

LEMMA Initially ==
  ASSUME Init
  PROVE  IInv
<1>0. /\ window \in Nat /\ window >= 2 /\ N \in Nat /\ 2 * window <= N /\ tot_pkts \in Nat
      /\ MAX_ERR \in Nat /\ MAX_ERR > 0
  BY WindowIs
<1>1. SendBase = 0 /\ ReceiveBase = 0 /\ packets = << >> /\ acks = << >> /\ held = {}
  BY <1>0 DEF Init, SendBase, ReceiveBase
<1>2. \A k \in 0 .. N - 1 : At(k) = k /\ At(0 + k) = k
  <2> TAKE k \in 0 .. N - 1
  <2>1. k \in Int /\ N > 0 /\ k = N * 0 + k /\ 0 + k = k
    BY <1>0
  <2> QED
    BY <1>0, <2>1, Remainder DEF At
<1>3. Marked(1) = {} /\ Marked(2) = {} /\ Cardinality({}) = 0
  BY FS_EmptySet DEF Init, Marked
<1>4. Types
  BY <1>0, <1>1 DEF Init, Types, Slots
<1>5. SenderInv
  <2>1. \A k \in 0 .. window - 1 : pkt[At(0 + k)] = 0 + k
    <3> TAKE k \in 0 .. window - 1
    <3>1. k \in 0 .. N - 1 /\ k \in Slots /\ k < window /\ 0 + k = k
      BY <1>0 DEF Slots
    <3> QED
      BY <1>2, <3>1 DEF Init
  <2>2. base = At(0)
    BY <1>0, <1>2 DEF Init
  <2>3. /\ \A s \in Slots : check_pkt[s] = 0
        /\ tot_ack = 0 /\ tot_sent = 0 /\ snd = "loop"
    BY DEF Init
  <2>4. /\ tot_ack = SendBase + Cardinality(Marked(2))
        /\ tot_sent = tot_ack + Cardinality(Marked(1))
    <3>1. Cardinality(Marked(1)) = 0 /\ Cardinality(Marked(2)) = 0
      BY <1>3, Zenon
    <3> QED
      BY <1>1, <2>3, <3>1
  <2>5. SendBase \in 0 .. tot_pkts /\ base = At(SendBase)
    BY <1>0, <1>1, <2>2
  <2>6. \A k \in 0 .. window - 1 : pkt[At(SendBase + k)] = SendBase + k
    BY <1>1, <2>1
  <2> QED
    BY <2>3, <2>4, <2>5, <2>6 DEF SenderInv
<1>6. ReceiverInv
  BY <1>0, <1>1, <1>2 DEF Init, ReceiverInv
<1>7. Windows
  <2>1. \A k \in 0 .. window - 1 : check_pkt[At(0 + k)] = 0
    <3> TAKE k \in 0 .. window - 1
    <3>1. 0 + k \in Nat
      BY <1>0
    <3> QED
      BY <3>1, SlotOfPacket DEF Init
  <2> QED
    BY <1>0, <1>1, <2>1 DEF Windows
<1>8. PacketsInv
  BY <1>1 DEF PacketsInv
<1>9. AcksInv
  <2>1. PICK index \in [1 .. Len(acks) -> Nat] : TRUE
    <3> DEFINE f == [k \in 1 .. Len(acks) |-> 0]
    <3>1. f \in [1 .. Len(acks) -> Nat]
      OBVIOUS
    <3> QED
      BY <3>1
  <2>2. Acknowledged(index)
    BY <1>1 DEF Acknowledged
  <2> QED
    BY <2>2 DEF AcksInv
<1> QED
  BY <1>4, <1>5, <1>6, <1>7, <1>8, <1>9 DEF IInv

LEMMA Inductive == IInv /\ [Next]_vars => IInv'
<1> SUFFICES ASSUME IInv, [Next]_vars PROVE IInv'
  OBVIOUS
<1>1. CASE send_window
  BY <1>1, SendStep
<1>2. CASE recv_ack
  BY <1>2, AckStep
<1>3. CASE ack_timeout
  BY <1>3, TimeoutStep
<1>4. CASE \E lost \in BOOLEAN : SenderEnds(lost)
  BY <1>4, EndStep
<1>5. CASE \E lost \in BOOLEAN : recv_window(lost)
  BY <1>5, ReceiveStep
<1>6. CASE recv_end
  BY <1>6, EndReceived
<1>7. CASE pkt_timeout
  BY <1>7, PacketTimeout
<1>8. CASE UNCHANGED vars
  BY <1>8, Stutters
<1> QED
  BY <1>1, <1>2, <1>3, <1>4, <1>5, <1>6, <1>7, <1>8 DEF Next, Sender, Receiver

\* What is written, in terms of the file.
LEMMA WrittenIs ==
  ASSUME IInv
  PROVE  /\ written \in Seq(Nat) /\ File \in Seq(Nat)
         /\ Len(File) = tot_pkts /\ Len(written) <= tot_pkts /\ tot_pkts \in Nat
         /\ SubSeq(File, 1, Len(written)) = written
<1>1. /\ written \in Seq(Nat) /\ Len(written) <= tot_pkts /\ tot_pkts \in Nat
      /\ \A k \in 1 .. Len(written) : written[k] = k - 1
  BY WindowIs DEF IInv, Types, ReceiverInv, ReceiveBase
<1>2. File \in Seq(Nat) /\ Len(File) = tot_pkts
      /\ \A k \in 1 .. tot_pkts : File[k] = k - 1
  <2>1. \A k \in 1 .. tot_pkts : k - 1 \in Nat
    BY <1>1
  <2> QED
    BY <1>1, <2>1 DEF File
<1>3. SubSeq(File, 1, Len(written)) = written
  <2>1. /\ SubSeq(File, 1, Len(written)) \in Seq(Nat)
        /\ Len(SubSeq(File, 1, Len(written))) = Len(written)
        /\ \A k \in 1 .. Len(written) : SubSeq(File, 1, Len(written))[k] = File[k]
    BY <1>1, <1>2
  <2> QED
    BY <1>1, <1>2, <2>1
<1> QED
  BY <1>1, <1>2, <1>3

\* A sender that has finished has acknowledgements of the whole file, and each packet
\* acknowledged is received, so that nothing is left to write.
LEMMA WholeWhenFinished ==
  ASSUME IInv, snd = "finished"
  PROVE  written = File
<1>1. /\ Types /\ SenderInv /\ ReceiverInv /\ Windows /\ tot_pkts \in Nat /\ N \in Nat
      /\ SendBase \in Nat /\ SendBase <= tot_pkts /\ window \in Nat /\ 2 * window <= N
      /\ ReceiveBase \in Nat /\ ReceiveBase <= tot_pkts /\ SendBase <= ReceiveBase
      /\ ReceiveBase <= SendBase + window
  <2>1. Types /\ SenderInv /\ ReceiverInv /\ Windows
    BY DEF IInv
  <2>2. SendBase \in Nat /\ SendBase <= tot_pkts
    BY <2>1, WindowIs DEF SenderInv
  <2>3. ReceiveBase \in Nat /\ ReceiveBase <= tot_pkts
    BY <2>1 DEF Types, ReceiverInv, ReceiveBase
  <2>4. SendBase <= ReceiveBase /\ ReceiveBase <= SendBase + window
    BY <2>1 DEF Windows
  <2> QED
    BY <2>1, <2>2, <2>3, <2>4, WindowIs
<1>2. ReceiveBase = tot_pkts
  <2> SUFFICES ASSUME ReceiveBase < tot_pkts PROVE FALSE
    BY <1>1
  <2> DEFINE k == ReceiveBase - SendBase
             d == IF tot_pkts - SendBase <= window THEN tot_pkts - SendBase ELSE window
  <2>1. Marked(2) \subseteq First(d)
    <3>1. Marked(2) \subseteq First(window) /\ Marked(2) \subseteq First(tot_pkts - SendBase)
      BY <1>1, OutIs DEF Out
    <3> QED
      BY <3>1
  <2>2. d \in 0 .. N /\ d <= tot_pkts - SendBase /\ d \in Nat
    BY <1>1
  <2>3. IsFiniteSet(First(d)) /\ Cardinality(First(d)) = d
    BY <1>1, <2>2, SlotsOf DEF First
  <2>4. /\ tot_ack >= tot_pkts /\ tot_ack = SendBase + Cardinality(Marked(2))
        /\ tot_ack \in Nat
    BY <1>1 DEF SenderInv, Types
  <2>5. Cardinality(Marked(2)) \in Nat
    <3>1. Marked(2) \in SUBSET Slots
      BY DEF Marked
    <3> QED
      BY <3>1, SlotSets
  <2> HIDE DEF d
  <2>6. Cardinality(Marked(2)) = Cardinality(First(d)) /\ d = tot_pkts - SendBase
    <3>1. Cardinality(Marked(2)) <= d
      BY <2>1, <2>3, FS_Subset
    <3> QED
      BY <1>1, <2>2, <2>3, <2>4, <2>5, <3>1
  <2>7. Marked(2) = First(d)
    BY <2>1, <2>3, <2>6, FS_Subset
  <2>8. k \in 0 .. d - 1 /\ SendBase + k = ReceiveBase
    BY <1>1, <2>6
  <2>9. At(ReceiveBase) \in Marked(2)
    BY <2>7, <2>8 DEF First
  <2>10. \E m \in 0 .. window - 1 : At(ReceiveBase) = At(SendBase + m)
    BY <1>1, <2>9, OutIs DEF Out, First
  <2>11. PICK m \in 0 .. window - 1 : At(ReceiveBase) = At(SendBase + m)
    BY <2>10
  <2>12. ReceiveBase = SendBase + m
    <3>1. /\ SendBase + m \in Nat /\ ReceiveBase < SendBase + m + N
          /\ SendBase + m < ReceiveBase + N
      BY <1>1, WindowIs
    <3> QED
      BY <1>1, <2>11, <3>1, SameSlot
  <2>13. Received(ReceiveBase)
    BY <1>1, <2>9, <2>12 DEF Windows, Marked
  <2> QED
    BY <1>1, <2>13, ReceivedIs
<1>3. written \in Seq(Nat) /\ Len(written) = tot_pkts
      /\ \A k \in 1 .. tot_pkts : written[k] = k - 1
  BY <1>1, <1>2 DEF Types, ReceiverInv, ReceiveBase
<1>4. File = [k \in 1 .. tot_pkts |-> k - 1]
  BY DEF File
<1> QED
  BY <1>1, <1>3, <1>4

-----------------------------------------------------------------------------
(* The theorems.                                                             *)

\* The invariant holds of every reachable state, whatever send_window, recv_ack and
\* recv_window (jacSender.c:79-189, jacReceiver.c:60-131) do in whatever order.
THEOREM Invariant == Spec => []IInv
<1> QED
  BY Initially, Inductive, PTL DEF Spec

\* The variables of both loops stay in their ranges, the counters tot_sent and tot_ack
\* within the file (jacSender.c:10-22, jacReceiver.c:9-20).
THEOREM TypeCorrect == Spec => []TypeOK
<1>1. IInv => TypeOK
  <2> SUFFICES ASSUME IInv PROVE TypeOK
    OBVIOUS
  <2>1. Types /\ SenderInv
    BY DEF IInv
  <2>2. tot_sent <= tot_pkts /\ tot_sent = tot_ack + Cardinality(Marked(1))
    BY <2>1, OutIs DEF SenderInv
  <2>3. Marked(1) \in SUBSET Slots
    BY DEF Marked
  <2>4. Cardinality(Marked(1)) \in Nat /\ tot_pkts \in Nat
    BY <2>3, SlotSets, WindowIs
  <2>5. tot_ack \in 0 .. tot_pkts /\ tot_sent \in 0 .. tot_pkts
    BY <2>1, <2>2, <2>4 DEF Types
  <2> QED
    BY <2>1, <2>5 DEF Types, TypeOK
<1> QED
  BY <1>1, Invariant, PTL

\* What recv_window writes (jacReceiver.c:112-131) is the file from its start, in order,
\* each packet once, for any file, any window and any losses: the numbers of the packets go
\* round, and never bring a packet of another round.
THEOREM WritesTheFile == Spec => []WrittenIsPrefix
<1>1. IInv => WrittenIsPrefix
  BY WrittenIs DEF WrittenIsPrefix, IsPrefix
<1> QED
  BY <1>1, Invariant, PTL

\* tot_ack and tot_sent say what the marks of the window say, through every timeout and
\* every move of the window, and nothing beyond the end of the file is ever sent
\* (jacSender.c:79-189).
THEOREM CountersCorrect == Spec => []CountersAgree
<1>1. IInv => CountersAgree
  <2> SUFFICES ASSUME IInv PROVE CountersAgree
    OBVIOUS
  <2>1. /\ SenderInv /\ SendBase \in Nat /\ base = At(SendBase)
    BY WindowIs DEF IInv, SenderInv
  <2>2. ASSUME NEW s \in Slots, check_pkt[s] # 0
        PROVE  InWindow(base, s) /\ pkt[s] < tot_pkts
    <3>1. PICK k \in 0 .. window - 1 : s = At(SendBase + k) /\ SendBase + k < tot_pkts
      BY <2>1, <2>2 DEF SenderInv
    <3>2. pkt[s] = SendBase + k
      BY <2>1, <3>1 DEF SenderInv
    <3>3. InWindow(At(SendBase), s)
      BY <2>1, <3>1, WindowOf
    <3> QED
      BY <2>1, <3>1, <3>2, <3>3
  <2> QED
    BY <2>1, <2>2 DEF CountersAgree, SenderInv, SendBase, Marked
<1> QED
  BY <1>1, Invariant, PTL

\* The sender prints "File transfer finished" (jacSender.c:64) and the receiver keeps the
\* file (jacReceiver.c:31) only when the receiver has written the whole file.
THEOREM FinishedCorrect == Spec => []FinishedMeansWhole
<1>1. IInv => FinishedMeansWhole
  BY WholeWhenFinished DEF IInv, ReceiverInv, FinishedMeansWhole
<1> QED
  BY <1>1, Invariant, PTL

\* In every transfer the file grows in order and only while the receiver is at work, the
\* sender finishes when it is whole (jacSender.c:63) and the receiver keeps it only after that
\* (jacReceiver.c:31): the earlier protocol implements StreamDelivery.
THEOREM Refinement == Spec => Implements
<1>1. Init => Delivery!Init
  BY DEF Init, Delivery!Init
<1>2. IInv /\ IInv' /\ WrittenIsPrefix' /\ FinishedMeansWhole' /\ [Next]_vars
        => [Delivery!Next]_(Delivery!vars)
  <2> SUFFICES ASSUME IInv, IInv', WrittenIsPrefix', FinishedMeansWhole', [Next]_vars
               PROVE  [Delivery!Next]_(Delivery!vars)
    OBVIOUS
  <2>1. CASE send_window \/ recv_ack \/ ack_timeout
    <3>1. /\ written' = written /\ rcv' = rcv
          /\ snd \in {"loop", "recv_ack"} /\ snd' \in {"loop", "recv_ack"}
      BY <2>1 DEF send_window, recv_ack, ack_timeout, receiverVars
    <3> QED
      BY <3>1 DEF Delivery!vars
  <2>2. ASSUME NEW lost \in BOOLEAN, SenderEnds(lost) PROVE Delivery!Finish \/ Delivery!SenderGivesUp
    <3>1. written' = written /\ rcv' = rcv /\ snd = "loop" /\ snd' \in {"finished", "failed"}
      BY <2>2 DEF SenderEnds, receiverVars
    <3>2. snd' = "finished" => written = File
      BY <3>1 DEF FinishedMeansWhole, File
    <3> QED
      BY <3>1, <3>2 DEF Delivery!Finish, Delivery!SenderGivesUp
  <2>3. ASSUME NEW lost \in BOOLEAN, recv_window(lost)
        PROVE  Delivery!Deliver \/ UNCHANGED Delivery!vars
    <3>1. rcv = "recv" /\ rcv' = rcv /\ snd' = snd
      BY <2>3 DEF recv_window, senderVars
    <3>2. NewWrite \in 0 .. window /\ Len(written') = Len(written) + NewWrite /\ window \in Nat
      BY <2>3, ReceiverMoves, WindowIs DEF ReceiveBase
    <3>3. /\ written' = SubSeq(File, 1, Len(written')) /\ Len(written') <= Len(File)
          /\ written = SubSeq(File, 1, Len(written))
          /\ Len(written) \in Nat /\ Len(written') \in Nat
      <4>1. written' \in Seq(Nat) /\ IsPrefix(written', File)
        BY <2>3, ReceiverMoves DEF WrittenIsPrefix, File
      <4> QED
        BY <4>1, WrittenIs DEF IsPrefix
    <3>4. CASE NewWrite = 0
      <4>1. written' = written
        BY <3>2, <3>3, <3>4
      <4> QED
        BY <3>1, <4>1 DEF Delivery!vars
    <3>5. CASE NewWrite # 0
      <4>1. Len(written') \in Len(written) + 1 .. Len(File)
        BY <3>2, <3>3, <3>5, WrittenIs
      <4> QED
        BY <3>1, <3>3, <4>1 DEF Delivery!Deliver
    <3> QED
      BY <3>4, <3>5
  <2>4. CASE recv_end
    <3>1. rcv = "recv" /\ rcv' = "received" /\ written' = written /\ snd' = snd
      BY <2>4 DEF recv_end, senderVars
    <3>2. snd = "finished"
      <4>1. rcv' = "received" => snd' = "finished"
        BY DEF IInv, ReceiverInv
      <4> QED
        BY <3>1, <4>1
    <3> QED
      BY <3>1, <3>2 DEF Delivery!Next, Delivery!Accept
  <2>5. CASE pkt_timeout
    <3>1. rcv = "recv" /\ rcv' \in {"recv", "failed"} /\ written' = written /\ snd' = snd
      BY <2>5 DEF pkt_timeout, senderVars
    <3> QED
      BY <3>1 DEF Delivery!vars, Delivery!Next, Delivery!ReceiverGivesUp
  <2>6. CASE UNCHANGED vars
    BY <2>6 DEF vars, senderVars, receiverVars, Delivery!vars
  <2> QED
    BY <2>1, <2>2, <2>3, <2>4, <2>5, <2>6 DEF Next, Sender, Receiver, Delivery!Next
<1> QED
  BY <1>1, <1>2, Invariant, WritesTheFile, FinishedCorrect, PTL
  DEF Spec, Implements, Delivery!Spec
=============================================================================
