-------------------------- MODULE FileReadersProofs --------------------------
(***************************************************************************)
(* Proofs about FileStore, for any number of children, names and requests: *)
(* what a LIST sends, and when a GET finds a file without a packet.        *)
(***************************************************************************)
EXTENDS FileStoreProofs

-----------------------------------------------------------------------------
(* Empty files.                                                              *)

\* A child that has emptied the file n and written nothing since.
Emptied(c, n) ==
  name[c] = n /\ (pc[c] = "receiving" \/ (pc[c] = "put_write" /\ i[c] = 0))

EmptyInv == \A n \in Names : files[n] = << >> => \E c \in Children : Emptied(c, n)

LEMMA InitEmpty == Init => EmptyInv
BY StoreAssumption DEF Init, EmptyInv, Original

\* A write is never empty.
LEMMA WriteNotEmpty ==
  ASSUME NEW s \in Seq(Data), NEW offset \in Nat, NEW x
  PROVE  WriteAt(s, offset, x) # << >>
<1> DEFINE m == IF Len(s) > offset THEN Len(s) ELSE offset + 1
<1>1. m \in Nat /\ m >= 1
  OBVIOUS
<1>2. DOMAIN WriteAt(s, offset, x) = 1 .. m
  BY DEF WriteAt
<1> HIDE DEF m
<1>3. 1 \in DOMAIN WriteAt(s, offset, x)
  BY <1>1, <1>2
<1> QED
  BY <1>3

LEMMA NextEmpty ==
  ASSUME TypeOK, Descriptors, EmptyInv, NEW c \in Children, Child(c)
  PROVE  EmptyInv'
<1> SUFFICES ASSUME NEW n \in Names, files'[n] = << >>
             PROVE  \E d \in Children : Emptied(d, n)'
  BY DEF EmptyInv
<1>1. \A d \in Children \ {c} : pc'[d] = pc[d] /\ name'[d] = name[d] /\ i'[d] = i[d]
  BY OthersStay
<1>2. \A d \in Children \ {c} : Emptied(d, n) => Emptied(d, n)'
  BY <1>1 DEF Emptied
<1>3. files[n] = << >> => \E d \in Children : Emptied(d, n)
  BY DEF EmptyInv
<1>4. CASE \/ ListScan(c) \/ ListOpen(c) \/ ListWrite(c) \/ ListWritten(c) \/ ListRemove(c)
           \/ Measure(c) \/ ReadPacket(c) \/ Sent(c) \/ GetRefused(c) \/ Close(c)
           \/ \E m \in Names : GetOpen(c, m) \/ PutTest(c, m)
  <2>1. files' = files /\ ~Emptied(c, n)
    BY <1>4 DEF Emptied, Request, At, ListScan, ListOpen, ListWrite, ListWritten, ListRemove,
       Measure, ReadPacket, Sent, GetOpen, GetRefused, Close, PutTest
  <2> QED
    BY <1>2, <1>3, <2>1
<1>5. CASE PutCreate(c)
  <2>1. name'[c] = name[c] /\ pc'[c] = "receiving" /\ ~Emptied(c, n)
    BY <1>5 DEF PutCreate, At, Goto, Emptied, TypeOK, ChildrenTypeOK
  <2>2. CASE name[c] = n
    BY <2>1, <2>2 DEF Emptied
  <2>3. CASE name[c] # n
    <3>1. files'[n] = files[n]
      BY <1>5, <2>3 DEF PutCreate, TypeOK, FoldersTypeOK
    <3> QED
      BY <1>2, <1>3, <2>1, <3>1
  <2> QED
    BY <2>2, <2>3
<1>6. CASE Received(c)
  <2>1. /\ files' = files /\ pc[c] = "receiving" /\ pc'[c] = "put_write"
        /\ name'[c] = name[c] /\ i'[c] = i[c] /\ i[c] = 0
    BY <1>6 DEF Received, At, Goto, Descriptors, TypeOK, ChildrenTypeOK
  <2>2. Emptied(c, n) => Emptied(c, n)'
    BY <2>1 DEF Emptied
  <2> QED
    BY <1>2, <1>3, <2>1, <2>2
<1>7. CASE PutWrite(c)
  <2>1. name[c] # n
    <3>1. SUFFICES ASSUME name[c] = n PROVE FALSE
      OBVIOUS
    <3>2. files[n] \in Seq(Data) /\ i[c] \in Nat
      BY <1>7, <3>1 DEF PutWrite, At, Descriptors, TypeOK, ChildrenTypeOK
    <3>3. files'[n] = WriteAt(files[n], i[c], Upload(c)[i[c] + 1])
      BY <1>7, <3>1 DEF PutWrite, TypeOK, FoldersTypeOK
    <3> QED
      BY <3>2, <3>3, WriteNotEmpty
  <2>2. files'[n] = files[n] /\ ~Emptied(c, n)
    BY <1>7, <2>1 DEF PutWrite, Emptied, TypeOK, FoldersTypeOK
  <2> QED
    BY <1>2, <1>3, <2>2
<1>8. CASE PutClose(c)
  <2>1. files' = files /\ ~Emptied(c, n)
    BY <1>8, StoreAssumption DEF PutClose, At, Emptied
  <2> QED
    BY <1>2, <1>3, <2>1
<1> QED
  BY <1>4, <1>5, <1>6, <1>7, <1>8 DEF Child, Serve

LEMMA StutterEmpty == EmptyInv /\ UNCHANGED vars => EmptyInv'
BY DEF EmptyInv, Emptied, vars, childVars

\* Whatever other children do to the file between its open and its measure: a download
\* has no packet only while some child is receiving that very file (server.c:185,
\* receiver.c:101), if no file of the folder was empty at the start.
THEOREM EmptyWhileReceived == Spec => EmptyOnlyWhileReceived
<1> DEFINE Found(c) == pc[c] = "measure" /\ pc'[c] = "sending" /\ inode[c] = 0 /\ size'[c] = 0
                         => PastTest(name[c]) # {}
<1>1. ASSUME TypeOK, Descriptors, EmptyInv, NEW d \in Children, Child(d), NEW c \in Children
      PROVE  Found(c)
  <2> SUFFICES ASSUME pc[c] = "measure", pc'[c] = "sending", inode[c] = 0, size'[c] = 0
               PROVE  PastTest(name[c]) # {}
    OBVIOUS
  <2>1. d = c
    BY <1>1, OthersStay
  <2>2. Measure(c)
    BY <1>1, <2>1 DEF Child, Serve, Request, At, Goto, TypeOK, ChildrenTypeOK,
       ListScan, ListOpen, ListWrite, ListWritten, ListRemove, Measure, ReadPacket, Sent,
       GetOpen, GetRefused, Close, PutTest, PutCreate, Received, PutWrite, PutClose
  <2>3. name[c] \in Names /\ files[name[c]] \in Seq(Data) /\ Opened(c) = files[name[c]]
    BY <1>1 DEF Descriptors, Opened
  <2>4. Len(files[name[c]]) = 0
    BY <1>1, <2>2, <2>3 DEF Measure, TypeOK, ChildrenTypeOK
  <2>5. files[name[c]] = << >>
    BY <2>3, <2>4
  <2>6. PICK w \in Children : Emptied(w, name[c])
    BY <1>1, <2>3, <2>5 DEF EmptyInv
  <2>7. w \in PastTest(name[c])
    BY <2>6 DEF Emptied, PastTest
  <2> QED
    BY <2>7
<1>2. TypeOK /\ Descriptors /\ EmptyInv /\ [Next]_vars => [\A c \in Children : Found(c)]_vars
  BY <1>1 DEF Next
<1>3. TypeOK /\ Descriptors /\ EmptyInv /\ [Next]_vars => EmptyInv'
  BY NextEmpty, StutterEmpty DEF Next
<1> QED
  BY <1>2, <1>3, InitTypes, InitEmpty, NextTypes, PTL DEF Spec, EmptyOnlyWhileReceived

-----------------------------------------------------------------------------
(* The list of a child that is alone on its file.                            *)

\* Where the list of child c is, in what it has scanned, if no other child has opened it.
Lister(c) ==
  LET content == lists[inode[c]].content IN
  /\ pc[c] = "list_write" => content = SubSeq(scanned[c], 1, i[c])
  /\ pc[c] = "measure" => content = scanned[c]
  /\ pc[c] = "sending" => /\ content = scanned[c] /\ size[c] = Len(scanned[c])
                          /\ payload[c] = SubSeq(scanned[c], 1, i[c])

Alone(c) == inode[c] # 0 /\ lists[inode[c]].opened = 1

ListInv ==
  \A c \in Children :
    /\ inode[c] # 0 => pc[c] \in {"list_write", "measure", "sending", "list_remove"}
    /\ Alone(c) => (\A d \in Children \ {c} : inode[d] # inode[c]) /\ Lister(c)

LEMMA InitList == Init => ListInv
BY DEF Init, ListInv, Alone

\* The next element extends a prefix, written or read.
LEMMA WritePrefix ==
  ASSUME NEW s \in Seq(Data), NEW k \in Nat, k < Len(s)
  PROVE  /\ WriteAt(SubSeq(s, 1, k), k, s[k + 1]) = SubSeq(s, 1, k + 1)
         /\ SubSeq(s, 1, k) \o ReadAt(s, Len(SubSeq(s, 1, k))) = SubSeq(s, 1, k + 1)
<1> DEFINE p == SubSeq(s, 1, k)
<1>1. p = [j \in 1 .. k |-> s[j]] /\ Len(p) = k /\ p \in Seq(Data)
  OBVIOUS
<1>2. SubSeq(s, 1, k + 1) = [j \in 1 .. k + 1 |-> s[j]]
  OBVIOUS
<1> HIDE DEF p
<1>3. WriteAt(p, k, s[k + 1]) =
        [j \in 1 .. k + 1 |-> IF j = k + 1 THEN s[k + 1] ELSE IF j <= k THEN p[j] ELSE Hole]
  BY <1>1 DEF WriteAt
<1>4. \A j \in 1 .. k + 1 :
        (IF j = k + 1 THEN s[k + 1] ELSE IF j <= k THEN p[j] ELSE Hole) = s[j]
  BY <1>1
<1>5. p \o ReadAt(s, k) = Append(p, s[k + 1])
  BY <1>1 DEF ReadAt
<1>6. Append(p, s[k + 1]) = [j \in 1 .. k + 1 |-> s[j]]
  <2>1. /\ Append(p, s[k + 1]) \in Seq(Data) /\ Len(Append(p, s[k + 1])) = k + 1
        /\ \A j \in 1 .. k + 1 : Append(p, s[k + 1])[j] = s[j]
    BY <1>1
  <2> QED
    BY <2>1
<1> QED
  BY <1>1, <1>2, <1>3, <1>4, <1>5, <1>6 DEF p

\* A step of another child that leaves the list of c alone, or opens it.
LEMMA OthersKeepList ==
  ASSUME ListInv, NEW c \in Children,
         inode'[c] = inode[c], pc'[c] = pc[c], scanned'[c] = scanned[c],
         i'[c] = i[c], size'[c] = size[c], payload'[c] = payload[c],
         Alone(c)' => /\ lists'[inode[c]] = lists[inode[c]]
                      /\ \A d \in Children \ {c} : inode'[d] # inode[c]
  PROVE  /\ inode'[c] # 0 => pc'[c] \in {"list_write", "measure", "sending", "list_remove"}
         /\ Alone(c)' => (\A d \in Children \ {c} : inode'[d] # inode'[c]) /\ Lister(c)'
<1>1. ASSUME Alone(c)' PROVE (\A d \in Children \ {c} : inode'[d] # inode'[c]) /\ Lister(c)'
  <2>1. Alone(c) /\ Lister(c)
    BY <1>1 DEF ListInv, Alone
  <2> QED
    BY <1>1, <2>1 DEF Lister
<1> QED
  BY <1>1 DEF ListInv

\* What a child's step leaves of the lists of the others.
LEMMA OthersOnLists ==
  ASSUME TypeOK, NEW c \in Children, Child(c), NEW d \in Children \ {c}
  PROVE  /\ inode'[d] = inode[d] /\ pc'[d] = pc[d] /\ scanned'[d] = scanned[d]
         /\ i'[d] = i[d] /\ size'[d] = size[d] /\ payload'[d] = payload[d]
BY DEF TypeOK, ChildrenTypeOK, Child, Serve, Request, Goto,
   ListScan, ListOpen, ListWrite, ListWritten, ListRemove, Measure, ReadPacket, Sent,
   GetOpen, GetRefused, Close, PutTest, PutCreate, Received, PutWrite, PutClose

\* A child that opens the list takes it from no one who is alone on it afterwards.
LEMMA OpenKeepsList ==
  ASSUME TypeOK, Descriptors, ListInv, NEW c \in Children, ListOpen(c)
  PROVE  ListInv'
<1>1. /\ lists \in Seq(Lists) /\ entry \in 0 .. Len(lists) /\ Len(lists) \in Nat
      /\ inode \in [Children -> 0 .. Len(lists)] /\ scanned[c] \in Seq(Data)
  BY DEF TypeOK, FoldersTypeOK, ChildrenTypeOK, Lists
<1>2. /\ pc'[c] = "list_write" /\ inode'[c] = entry' /\ i'[c] = 0 /\ scanned'[c] = scanned[c]
  BY <1>1 DEF ListOpen, Goto, TypeOK, ChildrenTypeOK
<1>3. Child(c)
  BY DEF Child, Serve
<1>4. CASE entry = 0
  <2> DEFINE r == [content |-> << >>, opened |-> 1]
  <2>1. r \in Lists /\ lists' = Append(lists, r) /\ entry' = Len(lists) + 1
    BY <1>4 DEF ListOpen, Lists
  <2>2. lists'[Len(lists) + 1] = r /\ \A k \in 1 .. Len(lists) : lists'[k] = lists[k]
    BY <1>1, <2>1
  <2>3. \A d \in Children \ {c} : inode'[d] # inode'[c]
    BY <1>1, <1>2, <1>3, <2>1, OthersOnLists
  <2>4. Lister(c)'
    <3>1. lists'[inode'[c]].content = << >>
      BY <1>2, <2>1, <2>2
    <3>2. SubSeq(scanned[c], 1, 0) = << >>
      BY <1>1
    <3> QED
      BY <1>2, <3>1, <3>2 DEF Lister
  <2>5. ASSUME NEW d \in Children \ {c}
        PROVE  /\ inode'[d] # 0 => pc'[d] \in {"list_write", "measure", "sending", "list_remove"}
               /\ Alone(d)' => (\A e \in Children \ {d} : inode'[e] # inode'[d]) /\ Lister(d)'
    <3>1. \A e \in Children \ {c} : inode'[e] = inode[e] /\ inode[e] \in 0 .. Len(lists)
      BY <1>1, <1>3, OthersOnLists
    <3>2. ASSUME Alone(d)'
          PROVE  /\ lists'[inode[d]] = lists[inode[d]]
                 /\ \A e \in Children \ {d} : inode'[e] # inode[d]
      <4>1. inode[d] \in 1 .. Len(lists) /\ lists'[inode[d]] = lists[inode[d]]
        BY <1>1, <2>2, <3>1, <3>2 DEF Alone
      <4>2. Alone(d)
        BY <3>1, <3>2, <4>1 DEF Alone
      <4> QED
        BY <1>1, <1>2, <2>1, <3>1, <4>1, <4>2 DEF ListInv
    <3> QED
      BY <1>3, <3>2, OthersOnLists, OthersKeepList
  <2> QED
    BY <1>2, <2>3, <2>4, <2>5 DEF ListInv
<1>5. CASE entry # 0
  <2>1. entry \in 1 .. Len(lists) /\ lists[entry] \in Lists
    BY <1>1, <1>5
  <2>2. /\ entry' = entry /\ lists'[entry].opened = lists[entry].opened + 1
        /\ \A k \in 1 .. Len(lists) \ {entry} : lists'[k] = lists[k]
    BY <1>1, <1>5, <2>1 DEF ListOpen
  <2>3. lists'[entry].opened # 1
    BY <2>1, <2>2 DEF Lists
  <2>4. ~Alone(c)'
    BY <1>2, <2>2, <2>3 DEF Alone
  <2>5. ASSUME NEW d \in Children \ {c}
        PROVE  /\ inode'[d] # 0 => pc'[d] \in {"list_write", "measure", "sending", "list_remove"}
               /\ Alone(d)' => (\A e \in Children \ {d} : inode'[e] # inode'[d]) /\ Lister(d)'
    <3>1. \A e \in Children \ {c} : inode'[e] = inode[e] /\ inode[e] \in 0 .. Len(lists)
      BY <1>1, <1>3, OthersOnLists
    <3>2. ASSUME Alone(d)'
          PROVE  /\ lists'[inode[d]] = lists[inode[d]]
                 /\ \A e \in Children \ {d} : inode'[e] # inode[d]
      <4>1. inode[d] # entry
        BY <2>3, <3>1, <3>2 DEF Alone
      <4>2. inode[d] \in 1 .. Len(lists) /\ lists'[inode[d]] = lists[inode[d]]
        BY <1>1, <2>2, <3>1, <3>2, <4>1 DEF Alone
      <4>3. Alone(d)
        BY <3>1, <3>2, <4>2 DEF Alone
      <4> QED
        BY <1>2, <2>2, <3>1, <4>1, <4>2, <4>3 DEF ListInv
    <3> QED
      BY <1>3, <3>2, OthersOnLists, OthersKeepList
  <2> QED
    BY <1>2, <2>4, <2>5 DEF ListInv
<1> QED
  BY <1>4, <1>5

\* What a child alone on its list writes and reads is what it has scanned, in order.
LEMMA OwnList ==
  ASSUME TypeOK, Descriptors, ListInv, NEW c \in Children, Child(c), ~ListOpen(c), Alone(c)'
  PROVE  Lister(c)'
<1>1. /\ inode[c] \in 0 .. Len(lists) /\ scanned[c] \in Seq(Data) /\ i[c] \in Nat
      /\ lists \in Seq(Lists) /\ DOMAIN pc = Children /\ DOMAIN i = Children
      /\ DOMAIN inode = Children /\ DOMAIN size = Children /\ DOMAIN payload = Children
  BY DEF TypeOK, FoldersTypeOK, ChildrenTypeOK, Lists
<1>2. inode'[c] = inode[c] /\ inode[c] # 0
  BY <1>1 DEF Alone, Child, Serve, Request, Goto,
     ListScan, ListOpen, ListWrite, ListWritten, ListRemove, Measure, ReadPacket, Sent,
     GetOpen, GetRefused, Close, PutTest, PutCreate, Received, PutWrite, PutClose
<1>3. pc[c] \in {"list_write", "measure", "sending", "list_remove"}
  BY <1>2 DEF ListInv
<1>4. lists[inode[c]] \in Lists
  BY <1>1, <1>2
<1>5. CASE ListWrite(c)
  <2> DEFINE x == WriteAt(lists[inode[c]].content, i[c], scanned[c][i[c] + 1])
  <2>1. lists' = [lists EXCEPT ![inode[c]].content = x]
    BY <1>5 DEF ListWrite
  <2> HIDE DEF x
  <2>2. lists'[inode[c]].content = x /\ lists'[inode[c]].opened = lists[inode[c]].opened
    BY <1>1, <1>2, <1>4, <2>1 DEF Lists
  <2>3. Alone(c)
    BY <1>2, <2>2 DEF Alone
  <2>4. lists[inode[c]].content = SubSeq(scanned[c], 1, i[c]) /\ i[c] < Len(scanned[c])
    BY <1>5, <2>3 DEF ListInv, Lister, ListWrite, At
  <2>5. x = SubSeq(scanned[c], 1, i[c] + 1)
    BY <1>1, <2>4, WritePrefix DEF x
  <2>6. pc'[c] = "list_write" /\ i'[c] = i[c] + 1 /\ scanned' = scanned
    BY <1>1, <1>5 DEF ListWrite, At
  <2> QED
    BY <1>2, <2>2, <2>5, <2>6 DEF Lister
<1>6. CASE ~ListWrite(c)
  <2>1. lists' = lists /\ scanned' = scanned
    BY <1>3, <1>6 DEF Child, Serve, Request, At,
     ListScan, ListOpen, ListWritten, ListRemove, Measure, ReadPacket, Sent,
     GetOpen, GetRefused, Close, PutTest, PutCreate, Received, PutWrite, PutClose
  <2>2. Lister(c)
    BY <1>2, <2>1 DEF ListInv, Alone
  <2>3. CASE ListWritten(c)
    <3>1. lists[inode[c]].content = SubSeq(scanned[c], 1, Len(scanned[c]))
      BY <2>2, <2>3 DEF Lister, ListWritten, At
    <3>2. SubSeq(scanned[c], 1, Len(scanned[c])) = scanned[c]
      BY <1>1
    <3>3. pc'[c] = "measure"
      BY <1>1, <2>3 DEF ListWritten, Goto
    <3> QED
      BY <1>2, <2>1, <3>1, <3>2, <3>3 DEF Lister
  <2>4. CASE Measure(c)
    <3>1. lists[inode[c]].content = scanned[c] /\ Opened(c) = scanned[c]
      BY <1>2, <2>2, <2>4 DEF Lister, Measure, At, Opened
    <3>2. SubSeq(scanned[c], 1, 0) = << >>
      BY <1>1
    <3>3. pc'[c] = "sending" /\ size'[c] = Len(Opened(c)) /\ i'[c] = 0 /\ payload'[c] = << >>
      BY <1>1, <2>4 DEF Measure, Goto
    <3> QED
      BY <1>2, <2>1, <3>1, <3>2, <3>3 DEF Lister
  <2>5. CASE ReadPacket(c)
    <3>1. /\ Opened(c) = scanned[c] /\ size[c] = Len(scanned[c]) /\ i[c] < size[c]
          /\ payload[c] = SubSeq(scanned[c], 1, i[c])
      BY <1>2, <2>2, <2>5 DEF Lister, ReadPacket, At, Opened
    <3>2. /\ pc'[c] = "sending" /\ size' = size /\ i'[c] = i[c] + 1
          /\ payload'[c] = payload[c] \o ReadAt(Opened(c), Len(payload[c]))
      BY <1>1, <2>5 DEF ReadPacket, At
    <3>3. payload'[c] = SubSeq(scanned[c], 1, i[c] + 1)
      BY <1>1, <3>1, <3>2, WritePrefix
    <3>4. lists[inode[c]].content = scanned[c]
      BY <2>2, <2>5 DEF Lister, ReadPacket, At
    <3> QED
      BY <1>2, <2>1, <3>1, <3>2, <3>3, <3>4 DEF Lister
  <2>6. CASE Sent(c)
    <3>1. pc'[c] = "list_remove"
      BY <1>1, <1>2, <2>6 DEF Sent, Goto
    <3> QED
      BY <3>1 DEF Lister
  <2>7. ListWritten(c) \/ Measure(c) \/ ReadPacket(c) \/ Sent(c)
    <3>1. ~ListRemove(c)
      BY <1>1, <1>2 DEF ListRemove
    <3> QED
      BY <1>3, <1>6, <3>1 DEF Child, Serve, Request, At, ListScan, ListOpen,
       GetOpen, GetRefused, Close, PutTest, PutCreate, Received, PutWrite, PutClose
  <2> QED
    BY <2>3, <2>4, <2>5, <2>6, <2>7
<1> QED
  BY <1>5, <1>6

LEMMA NextList ==
  ASSUME TypeOK, Descriptors, ListInv, NEW c \in Children, Child(c)
  PROVE  ListInv'
<1>1. CASE ListOpen(c)
  BY <1>1, OpenKeepsList
<1>2. CASE ~ListOpen(c)
  <2>1. /\ lists \in Seq(Lists) /\ DOMAIN inode = Children /\ DOMAIN pc = Children
        /\ inode[c] \in 0 .. Len(lists)
    BY DEF TypeOK, FoldersTypeOK, ChildrenTypeOK, Lists
  <2>2. /\ inode'[c] = inode[c] \/ inode'[c] = 0
        /\ \A d \in Children \ {c} : inode'[d] = inode[d]
    <3>1. inode'[c] = inode[c] \/ inode'[c] = 0
      BY <1>2, <2>1 DEF Child, Serve, Request, ListScan, ListWrite, ListWritten, ListRemove,
         Measure, ReadPacket, Sent, GetOpen, GetRefused, Close, PutTest, PutCreate, Received,
         PutWrite, PutClose
    <3> QED
      BY <3>1, OthersOnLists
  <2>3. inode'[c] # 0 => pc'[c] \in {"list_write", "measure", "sending", "list_remove"}
    BY <1>2, <2>1, <2>2 DEF ListInv, Child, Serve, Request, At, Goto,
       ListScan, ListWrite, ListWritten, ListRemove, Measure, ReadPacket, Sent,
       GetOpen, GetRefused, Close, PutTest, PutCreate, Received, PutWrite, PutClose
  <2>4. \A k : k # inode[c] => lists'[k] = lists[k]
    <3>1. CASE ListWrite(c)
      BY <2>1, <3>1 DEF ListWrite
    <3>2. CASE ~ListWrite(c)
      BY <1>2, <3>2 DEF Child, Serve, ListScan, ListWritten, ListRemove, Measure, ReadPacket,
         Sent, GetOpen, GetRefused, Close, PutTest, PutCreate, Received, PutWrite, PutClose
    <3> QED
      BY <3>1, <3>2
  <2>5. inode[c] # 0 => lists'[inode[c]].opened = lists[inode[c]].opened
    <3>1. CASE ListWrite(c)
      <4>1. ASSUME inode[c] # 0 PROVE inode[c] \in 1 .. Len(lists) /\ lists[inode[c]] \in Lists
        BY <2>1, <4>1
      <4> QED
        BY <2>1, <3>1, <4>1 DEF ListWrite, Lists
    <3>2. CASE ~ListWrite(c)
      BY <1>2, <3>2 DEF Child, Serve, ListScan, ListWritten, ListRemove, Measure, ReadPacket,
         Sent, GetOpen, GetRefused, Close, PutTest, PutCreate, Received, PutWrite, PutClose
    <3> QED
      BY <3>1, <3>2
  <2>6. Alone(c)' => (\A d \in Children \ {c} : inode'[d] # inode'[c]) /\ Lister(c)'
    <3>1. ASSUME Alone(c)' PROVE Alone(c) /\ inode'[c] = inode[c]
      BY <2>2, <2>5, <3>1 DEF Alone
    <3> QED
      BY <1>2, <2>2, <3>1, OwnList DEF ListInv
  <2>7. ASSUME NEW d \in Children \ {c}
        PROVE  /\ inode'[d] # 0 => pc'[d] \in {"list_write", "measure", "sending", "list_remove"}
               /\ Alone(d)' => (\A e \in Children \ {d} : inode'[e] # inode'[d]) /\ Lister(d)'
    <3>1. ASSUME Alone(d)'
          PROVE  /\ lists'[inode[d]] = lists[inode[d]]
                 /\ \A e \in Children \ {d} : inode'[e] # inode[d]
      <4>1. inode[d] # 0 /\ lists'[inode[d]].opened = lists[inode[d]].opened
        BY <2>2, <2>4, <2>5, <3>1 DEF Alone
      <4>2. \A e \in Children \ {d} : inode[e] # inode[d]
        BY <2>2, <3>1, <4>1 DEF ListInv, Alone
      <4> QED
        BY <2>2, <2>4, <4>1, <4>2
    <3> QED
      BY <3>1, OthersOnLists, OthersKeepList
  <2> QED
    BY <2>3, <2>6, <2>7 DEF ListInv
<1> QED
  BY <1>1, <1>2

LEMMA StutterList == ListInv /\ UNCHANGED vars => ListInv'
BY DEF ListInv, Lister, Alone, vars, childVars

\* However many children list, upload, download and remove at the same time: a list that no
\* other child opened while it was written and sent is what its child saw in the folder,
\* whole and in order (server.c:72-99), removed by another child or not.
THEOREM ListIsComplete == Spec => []ListComplete
<1>1. TypeOK /\ ListInv => ListComplete
  <2> SUFFICES ASSUME TypeOK, ListInv, NEW c \in Children, pc[c] = "sending", inode[c] # 0,
                      i[c] = size[c], lists[inode[c]].opened = 1
               PROVE  payload[c] = scanned[c]
    BY DEF ListComplete
  <2>1. Lister(c)
    BY DEF ListInv, Alone
  <2>2. scanned[c] \in Seq(Data)
    BY DEF TypeOK, ChildrenTypeOK
  <2>3. SubSeq(scanned[c], 1, Len(scanned[c])) = scanned[c]
    BY <2>2
  <2> QED
    BY <2>1, <2>3 DEF Lister
<1>2. TypeOK /\ Descriptors /\ ListInv /\ [Next]_vars => ListInv'
  BY NextList, StutterList DEF Next
<1> QED
  BY <1>1, <1>2, InitTypes, InitList, NextTypes, PTL DEF Spec
=============================================================================
