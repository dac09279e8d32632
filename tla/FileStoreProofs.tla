--------------------------- MODULE FileStoreProofs ---------------------------
(***************************************************************************)
(* Proofs about FileStore, for any number of children, names and requests. *)
(***************************************************************************)
EXTENDS FileStore, FiniteSetTheorems, TLAPS

-----------------------------------------------------------------------------
(* Contents of files.                                                        *)

\* A write leaves a sequence of chunks, the skipped ones holes.
LEMMA WriteAtType ==
  ASSUME NEW s \in Seq(Data), NEW offset \in Nat, NEW x \in Data
  PROVE  WriteAt(s, offset, x) \in Seq(Data)
<1> DEFINE m == IF Len(s) > offset THEN Len(s) ELSE offset + 1
           e(k) == IF k = offset + 1 THEN x ELSE IF k <= Len(s) THEN s[k] ELSE Hole
<1>1. m \in Nat
  OBVIOUS
<1>2. \A k \in 1 .. m : e(k) \in Data
  <2> TAKE k \in 1 .. m
  <2>1. CASE k <= Len(s)
    BY <2>1
  <2>2. CASE ~(k <= Len(s))
    BY <2>2 DEF Data
  <2> QED BY <2>1, <2>2
<1>3. [k \in 1 .. m |-> e(k)] \in [1 .. m -> Data]
  BY <1>2
<1>4. [k \in 1 .. m |-> e(k)] \in Seq(Data)
  BY <1>1, <1>3
<1> QED
  BY <1>4 DEF WriteAt

LEMMA ReadAtType ==
  ASSUME NEW s \in Seq(Data), NEW offset \in Nat
  PROVE  ReadAt(s, offset) \in Seq(Data)
BY DEF ReadAt

\* server_folder_files gives a sequence of names.
LEMMA ScanType == SetToSeq(Present) \in Seq(Data)
<1>1. IsFiniteSet(Present)
  BY StoreAssumption, FS_Subset DEF Present
<1>2. Cardinality(Present) \in Nat /\ ExistsBijection(1 .. Cardinality(Present), Present)
  BY <1>1, FS_CardinalityType
<1>3. \E f \in [1 .. Cardinality(Present) -> Present] : IsInjective(f)
  BY <1>2 DEF ExistsBijection, Bijection, Injection, IsInjective
<1>4. SetToSeq(Present) \in [1 .. Cardinality(Present) -> Present]
  BY <1>3 DEF SetToSeq
<1>5. Present \subseteq Data
  BY DEF Present, Data
<1> QED
  BY <1>2, <1>4, <1>5

LEMMA UploadType ==
  ASSUME NEW c \in Children
  PROVE  /\ Upload(c) \in Seq(Data) /\ Len(Upload(c)) = UploadLen
         /\ \A k \in 1 .. UploadLen : Upload(c)[k] = <<c, k>>
<1>1. \A k \in 1 .. UploadLen : <<c, k>> \in Data
  BY DEF Data
<1>2. UploadLen \in Nat
  BY StoreAssumption
<1> QED
  BY <1>1, <1>2 DEF Upload

\* Writing the next chunk behind the first k of an upload makes the first k + 1.
LEMMA WriteNext ==
  ASSUME NEW c \in Children, NEW k \in 0 .. UploadLen - 1
  PROVE  WriteAt(SubSeq(Upload(c), 1, k), k, Upload(c)[k + 1]) = SubSeq(Upload(c), 1, k + 1)
<1> DEFINE U == Upload(c)
           s == SubSeq(U, 1, k)
<1>1. UploadLen \in Nat /\ k \in Nat /\ k + 1 \in 1 .. UploadLen
  BY StoreAssumption
<1>2. U \in Seq(Data) /\ Len(U) = UploadLen
  BY UploadType
<1> HIDE DEF U
<1>3. s = [j \in 1 .. k |-> U[j]]
  BY <1>1, <1>2
<1>4. SubSeq(U, 1, k + 1) = [j \in 1 .. k + 1 |-> U[j]]
  BY <1>1, <1>2
<1>5. Len(s) = k
  BY <1>1, <1>3
<1> HIDE DEF s
<1>6. WriteAt(s, k, U[k + 1]) =
        [j \in 1 .. k + 1 |-> IF j = k + 1 THEN U[k + 1] ELSE IF j <= k THEN s[j] ELSE Hole]
  BY <1>1, <1>5 DEF WriteAt
<1>7. \A j \in 1 .. k + 1 :
        (IF j = k + 1 THEN U[k + 1] ELSE IF j <= k THEN s[j] ELSE Hole) = U[j]
  BY <1>1, <1>3
<1> QED
  BY <1>4, <1>6, <1>7 DEF s, U

-----------------------------------------------------------------------------
(* The inductive invariant.                                                  *)

\* What the descriptor of a child is on, where it reads or writes.
Descriptors ==
  \A c \in Children :
    /\ pc[c] \in {"put_create", "receiving", "put_write"} => name[c] \in Names
    /\ pc[c] \in {"receiving", "put_write"} => files[name[c]] \in Seq(Data)
    /\ pc[c] = "receiving" => i[c] = 0
    /\ pc[c] = "list_write" => inode[c] # 0
    /\ pc[c] \in {"measure", "sending"} /\ inode[c] = 0
         => name[c] \in Names /\ files[name[c]] \in Seq(Data)

\* The file and its one writer, if no two children found the name absent at once.
OneWriter(n) ==
  /\ \A c, d \in PastTest(n) : c = d
  /\ \A c \in PastTest(n) :
       /\ pc[c] = "put_create" => files[n] = Absent
       /\ pc[c] = "receiving" => files[n] = << >>
       /\ pc[c] = "put_write" => files[n] = SubSeq(Upload(c), 1, i[c])
  /\ PastTest(n) = {} =>
       \/ files[n] = Absent
       \/ n \in ServerFolder /\ files[n] = Original(n)
       \/ \E c \in Children : files[n] = Upload(c)

IInv == TypeOK /\ Descriptors /\ \A n \in Names \ contested : OneWriter(n)

-----------------------------------------------------------------------------
(* Types.                                                                    *)

LEMMA InitTypes == Init => TypeOK /\ Descriptors
<1> SUFFICES ASSUME Init PROVE TypeOK /\ Descriptors
  OBVIOUS
<1> USE DEF Init
<1>1. FoldersTypeOK
  <2>1. \A n \in Names : Original(n) \in Seq(Data)
    BY DEF Original, Data
  <2> QED BY <2>1 DEF FoldersTypeOK
<1>2. ChildrenTypeOK
  BY StoreAssumption DEF ChildrenTypeOK, Places
<1>3. LoopsInBounds /\ Descriptors
  BY DEF LoopsInBounds, Descriptors
<1> QED BY <1>1, <1>2, <1>3 DEF TypeOK

\* What an update and an append leave of a sequence.
LEMMA UpdateType ==
  ASSUME NEW R, NEW s \in Seq(R), NEW k \in 1 .. Len(s), NEW x \in R
  PROVE  s[k] \in R /\ [s EXCEPT ![k] = x] \in Seq(R) /\ Len([s EXCEPT ![k] = x]) = Len(s)
OBVIOUS

LEMMA AppendType ==
  ASSUME NEW R, NEW s \in Seq(R), NEW x \in R
  PROVE  Append(s, x) \in Seq(R) /\ Len(Append(s, x)) = Len(s) + 1
OBVIOUS

Lists == [content : Seq(Data), opened : Nat \ {0}]

\* The folder's list file after an open with O_TRUNC.
LEMMA ListOpenFiles ==
  ASSUME TypeOK, NEW c \in Children, ListOpen(c)
  PROVE  /\ lists' \in Seq(Lists) /\ Len(lists) <= Len(lists')
         /\ entry' \in 1 .. Len(lists')
<1>1. lists \in Seq(Lists) /\ entry \in 0 .. Len(lists) /\ Len(lists) \in Nat
  BY DEF TypeOK, FoldersTypeOK, Lists
<1>2. CASE entry = 0
  <2> DEFINE r == [content |-> << >>, opened |-> 1]
  <2>1. r \in Lists
    BY DEF Lists
  <2>2. lists' = Append(lists, r) /\ entry' = Len(lists) + 1
    BY <1>2 DEF ListOpen
  <2> HIDE DEF r
  <2> QED
    BY <1>1, <2>1, <2>2, AppendType
<1>3. CASE entry # 0
  <2> DEFINE r == [content |-> << >>, opened |-> lists[entry].opened + 1]
  <2>1. entry \in 1 .. Len(lists)
    BY <1>1, <1>3
  <2>2. lists[entry] \in Lists
    BY <1>1, <2>1
  <2>3. r \in Lists
    BY <2>2 DEF Lists
  <2>4. lists' = [lists EXCEPT ![entry] = r] /\ entry' = entry
    BY <1>3 DEF ListOpen
  <2> HIDE DEF r
  <2> QED
    BY <1>1, <2>1, <2>3, <2>4, UpdateType
<1> QED
  BY <1>2, <1>3

\* And after a name is written.
LEMMA ListWriteFiles ==
  ASSUME TypeOK, Descriptors, NEW c \in Children, ListWrite(c)
  PROVE  lists' \in Seq(Lists) /\ Len(lists') = Len(lists)
<1> DEFINE k == inode[c]
           x == WriteAt(lists[k].content, i[c], scanned[c][i[c] + 1])
           r == [content |-> x, opened |-> lists[k].opened]
<1>1. lists \in Seq(Lists)
  BY DEF TypeOK, FoldersTypeOK, Lists
<1>2. k \in 1 .. Len(lists)
  <2>1. k \in 0 .. Len(lists) /\ k # 0
    BY DEF TypeOK, ChildrenTypeOK, Descriptors, ListWrite, At
  <2> QED
    BY <1>1, <2>1
<1>3. lists[k] \in Lists
  BY <1>1, <1>2
<1>4. scanned[c] \in Seq(Data) /\ i[c] \in Nat /\ i[c] < Len(scanned[c])
  BY DEF TypeOK, ChildrenTypeOK, ListWrite
<1>5. scanned[c][i[c] + 1] \in Data
  BY <1>4
<1>6. lists[k].content \in Seq(Data)
  BY <1>3 DEF Lists
<1>7. x \in Seq(Data)
  BY <1>4, <1>5, <1>6, WriteAtType
<1>8. lists' = [lists EXCEPT ![k].content = x]
  BY DEF ListWrite
<1> HIDE DEF x
<1>9. [lists[k] EXCEPT !.content = x] = r
  BY <1>3 DEF Lists
<1>10. r \in Lists
  BY <1>3, <1>7 DEF Lists
<1>11. lists' = [lists EXCEPT ![k] = r]
  BY <1>8, <1>9
<1> HIDE DEF r, k
<1> QED
  BY <1>1, <1>2, <1>10, <1>11, UpdateType

\* A step of a LIST begins here: as every request, it counts.
LEMMA RequestType ==
  ASSUME TypeOK, NEW c \in Children, Request(c)
  PROVE  requests' \in [Children -> 0 .. MaxRequests] /\ pc[c] = "request"
BY StoreAssumption DEF Request, At, TypeOK, ChildrenTypeOK

\* A step of a LIST keeps the types.
LEMMA ListTypes ==
  ASSUME TypeOK, Descriptors, NEW c \in Children,
         ListScan(c) \/ ListOpen(c) \/ ListWrite(c) \/ ListWritten(c) \/ ListRemove(c)
  PROVE  TypeOK' /\ Descriptors'
<1> USE DEF At, Goto, Places
<1>1. CASE ListScan(c)
  <2>1. FoldersTypeOK'
    BY <1>1 DEF ListScan, TypeOK, FoldersTypeOK
  <2>2. ChildrenTypeOK'
    BY <1>1, ScanType, RequestType DEF ListScan, TypeOK, FoldersTypeOK, ChildrenTypeOK
  <2>3. LoopsInBounds'
    BY <1>1, RequestType DEF ListScan, TypeOK, ChildrenTypeOK, LoopsInBounds
  <2>4. Descriptors'
    BY <1>1, RequestType DEF ListScan, TypeOK, FoldersTypeOK, ChildrenTypeOK, Descriptors
  <2> QED BY <2>1, <2>2, <2>3, <2>4 DEF TypeOK
<1>2. CASE ListOpen(c)
  <2>1. /\ lists' \in Seq([content : Seq(Data), opened : Nat \ {0}])
        /\ Len(lists) <= Len(lists') /\ entry' \in 1 .. Len(lists')
    <3>1. lists' \in Seq(Lists) /\ Len(lists) <= Len(lists') /\ entry' \in 1 .. Len(lists')
      BY <1>2, ListOpenFiles
    <3> QED
      BY <3>1 DEF Lists
  <2>2. inode' \in [Children -> 0 .. Len(lists')] /\ inode'[c] # 0
    <3>1. inode \in [Children -> 0 .. Len(lists)] /\ Len(lists) \in Nat /\ Len(lists') \in Nat
      BY <2>1 DEF TypeOK, FoldersTypeOK, ChildrenTypeOK
    <3>2. 0 .. Len(lists) \subseteq 0 .. Len(lists') /\ entry' \in 0 .. Len(lists')
      BY <2>1, <3>1
    <3>3. inode' = [inode EXCEPT ![c] = entry'] /\ entry' # 0
      BY <1>2, <2>1 DEF ListOpen
    <3> QED
      BY <3>1, <3>2, <3>3
  <2>3. FoldersTypeOK'
    BY <1>2, <2>1 DEF ListOpen, TypeOK, FoldersTypeOK
  <2>4. ChildrenTypeOK'
    BY <1>2, <2>2 DEF ListOpen, TypeOK, FoldersTypeOK, ChildrenTypeOK
  <2>5. LoopsInBounds'
    BY <1>2 DEF ListOpen, TypeOK, ChildrenTypeOK, LoopsInBounds
  <2>6. Descriptors'
    BY <1>2, <2>2 DEF ListOpen, TypeOK, FoldersTypeOK, ChildrenTypeOK, Descriptors
  <2> QED BY <2>3, <2>4, <2>5, <2>6 DEF TypeOK
<1>3. CASE ListWrite(c)
  <2>1. FoldersTypeOK'
    BY <1>3, ListWriteFiles DEF ListWrite, Lists, TypeOK, FoldersTypeOK
  <2>2. ChildrenTypeOK'
    BY <1>3, ListWriteFiles DEF ListWrite, Lists, TypeOK, FoldersTypeOK, ChildrenTypeOK
  <2>3. LoopsInBounds'
    BY <1>3 DEF ListWrite, Lists, TypeOK, ChildrenTypeOK, LoopsInBounds
  <2>4. Descriptors'
    BY <1>3 DEF ListWrite, Lists, TypeOK, FoldersTypeOK, ChildrenTypeOK, Descriptors
  <2> QED BY <2>1, <2>2, <2>3, <2>4 DEF TypeOK
<1>4. CASE ListWritten(c)
  <2>1. FoldersTypeOK'
    BY <1>4 DEF ListWritten, TypeOK, FoldersTypeOK
  <2>2. ChildrenTypeOK'
    BY <1>4 DEF ListWritten, TypeOK, FoldersTypeOK, ChildrenTypeOK
  <2>3. LoopsInBounds'
    BY <1>4 DEF ListWritten, TypeOK, ChildrenTypeOK, LoopsInBounds
  <2>4. Descriptors'
    BY <1>4 DEF ListWritten, TypeOK, FoldersTypeOK, ChildrenTypeOK, Descriptors
  <2> QED BY <2>1, <2>2, <2>3, <2>4 DEF TypeOK
<1>5. CASE ListRemove(c)
  <2>1. FoldersTypeOK'
    BY <1>5 DEF ListRemove, TypeOK, FoldersTypeOK
  <2>2. ChildrenTypeOK'
    BY <1>5 DEF ListRemove, TypeOK, FoldersTypeOK, ChildrenTypeOK
  <2>3. LoopsInBounds'
    BY <1>5 DEF ListRemove, TypeOK, ChildrenTypeOK, LoopsInBounds
  <2>4. Descriptors'
    BY <1>5 DEF ListRemove, TypeOK, FoldersTypeOK, ChildrenTypeOK, Descriptors
  <2> QED BY <2>1, <2>2, <2>3, <2>4 DEF TypeOK
<1> QED
  BY <1>1, <1>2, <1>3, <1>4, <1>5

\* What a sender reads from is a sequence of chunks.
LEMMA OpenedType ==
  ASSUME TypeOK, Descriptors, NEW c \in Children, pc[c] \in {"measure", "sending"}
  PROVE  Opened(c) \in Seq(Data)
<1>1. CASE inode[c] # 0
  <2>1. lists \in Seq(Lists) /\ inode[c] \in 0 .. Len(lists)
    BY DEF TypeOK, FoldersTypeOK, ChildrenTypeOK, Lists
  <2>2. lists[inode[c]] \in Lists
    BY <1>1, <2>1
  <2> QED
    BY <1>1, <2>2 DEF Opened, Lists
<1>2. CASE inode[c] = 0
  BY <1>2 DEF Opened, Descriptors
<1> QED
  BY <1>1, <1>2

\* A step of a sender on a file, and the request of a GET, keep the types.
LEMMA SendTypes ==
  ASSUME TypeOK, Descriptors, NEW c \in Children,
         \/ Measure(c) \/ ReadPacket(c) \/ Sent(c)
         \/ \E n \in Names : GetOpen(c, n)
  PROVE  TypeOK' /\ Descriptors'
<1> USE DEF At, Goto, Places
<1>1. CASE Measure(c)
  <2>1. Len(Opened(c)) \in Nat
    BY <1>1, OpenedType DEF Measure
  <2>2. FoldersTypeOK'
    BY <1>1 DEF Measure, TypeOK, FoldersTypeOK
  <2>3. ChildrenTypeOK'
    BY <1>1, <2>1 DEF Measure, TypeOK, FoldersTypeOK, ChildrenTypeOK
  <2>4. LoopsInBounds'
    BY <1>1, <2>1 DEF Measure, TypeOK, ChildrenTypeOK, LoopsInBounds
  <2>5. Descriptors'
    BY <1>1 DEF Measure, TypeOK, FoldersTypeOK, ChildrenTypeOK, Descriptors
  <2> QED BY <2>2, <2>3, <2>4, <2>5 DEF TypeOK
<1>2. CASE ReadPacket(c)
  <2>1. payload' \in [Children -> Seq(Data)]
    <3>1. payload[c] \in Seq(Data)
      BY DEF TypeOK, ChildrenTypeOK
    <3>2. ReadAt(Opened(c), Len(payload[c])) \in Seq(Data)
      <4>1. Opened(c) \in Seq(Data)
        BY <1>2, OpenedType DEF ReadPacket
      <4>2. Len(payload[c]) \in Nat
        BY <3>1
      <4> QED
        BY <4>1, <4>2, ReadAtType
    <3>3. payload[c] \o ReadAt(Opened(c), Len(payload[c])) \in Seq(Data)
      BY <3>1, <3>2
    <3> QED
      BY <1>2, <3>3 DEF ReadPacket, TypeOK, ChildrenTypeOK
  <2>2. FoldersTypeOK'
    BY <1>2 DEF ReadPacket, TypeOK, FoldersTypeOK
  <2>3. ChildrenTypeOK'
    BY <1>2, <2>1 DEF ReadPacket, TypeOK, FoldersTypeOK, ChildrenTypeOK
  <2>4. LoopsInBounds'
    BY <1>2 DEF ReadPacket, TypeOK, ChildrenTypeOK, LoopsInBounds
  <2>5. Descriptors'
    BY <1>2 DEF ReadPacket, TypeOK, FoldersTypeOK, ChildrenTypeOK, Descriptors
  <2> QED BY <2>2, <2>3, <2>4, <2>5 DEF TypeOK
<1>3. CASE Sent(c)
  <2>1. FoldersTypeOK'
    BY <1>3 DEF Sent, TypeOK, FoldersTypeOK
  <2>2. ChildrenTypeOK'
    BY <1>3 DEF Sent, TypeOK, FoldersTypeOK, ChildrenTypeOK
  <2>3. LoopsInBounds'
    BY <1>3 DEF Sent, TypeOK, ChildrenTypeOK, LoopsInBounds
  <2>4. Descriptors'
    BY <1>3 DEF Sent, TypeOK, FoldersTypeOK, ChildrenTypeOK, Descriptors
  <2> QED BY <2>1, <2>2, <2>3, <2>4 DEF TypeOK
<1>4. CASE \E n \in Names : GetOpen(c, n)
  <2>1. PICK n \in Names : GetOpen(c, n)
    BY <1>4
  <2>2. FoldersTypeOK'
    BY <2>1 DEF GetOpen, Present, TypeOK, FoldersTypeOK
  <2>3. ChildrenTypeOK'
    BY <2>1, RequestType DEF GetOpen, Present, TypeOK, FoldersTypeOK, ChildrenTypeOK
  <2>4. LoopsInBounds'
    BY <2>1, RequestType DEF GetOpen, Present, TypeOK, ChildrenTypeOK, LoopsInBounds
  <2>5. Descriptors'
    <3>1. /\ pc'[c] = "measure" => name'[c] = n /\ files[n] \in Seq(Data)
          /\ pc'[c] \in {"measure", "ended"}
      BY <2>1 DEF GetOpen, Present, TypeOK, FoldersTypeOK, ChildrenTypeOK
    <3>2. ASSUME NEW d \in Children \ {c}
          PROVE  pc'[d] = pc[d] /\ name'[d] = name[d] /\ inode'[d] = inode[d]
      BY <2>1 DEF GetOpen, TypeOK, ChildrenTypeOK
    <3>3. files' = files /\ i' = i /\ inode' = inode
      BY <2>1 DEF GetOpen
    <3> QED
      BY <3>1, <3>2, <3>3 DEF Descriptors
  <2> QED BY <2>2, <2>3, <2>4, <2>5 DEF TypeOK
<1> QED
  BY <1>1, <1>2, <1>3, <1>4

\* A step of a PUT keeps the types.
LEMMA PutTypes ==
  ASSUME TypeOK, Descriptors, NEW c \in Children,
         \/ \E n \in Names : PutTest(c, n)
         \/ PutCreate(c) \/ Received(c) \/ PutWrite(c) \/ PutClose(c)
  PROVE  TypeOK' /\ Descriptors'
<1> USE DEF At, Goto, Places
<1>1. CASE \E n \in Names : PutTest(c, n)
  <2>1. PICK n \in Names : PutTest(c, n)
    BY <1>1
  <2>2. /\ requests' \in [Children -> 0 .. MaxRequests]
        /\ pc' \in [Children -> Places] /\ name' \in [Children -> Names \cup {Absent}]
    BY <2>1, RequestType DEF PutTest, TypeOK, ChildrenTypeOK
  <2>3. FoldersTypeOK'
    BY <2>1 DEF PutTest, TypeOK, FoldersTypeOK
  <2>4. ChildrenTypeOK'
    BY <2>1, <2>2 DEF PutTest, TypeOK, FoldersTypeOK, ChildrenTypeOK
  <2>5. LoopsInBounds'
    BY <2>1, RequestType DEF PutTest, TypeOK, ChildrenTypeOK, LoopsInBounds
  <2>6. Descriptors'
    BY <2>1, RequestType DEF PutTest, TypeOK, FoldersTypeOK, ChildrenTypeOK, Descriptors
  <2> QED BY <2>3, <2>4, <2>5, <2>6 DEF TypeOK
<1>2. CASE PutCreate(c)
  <2>1. name[c] \in Names /\ << >> \in Seq(Data)
    BY <1>2 DEF PutCreate, Descriptors
  <2>2. FoldersTypeOK'
    BY <1>2, <2>1 DEF PutCreate, TypeOK, FoldersTypeOK
  <2>3. ChildrenTypeOK'
    BY <1>2 DEF PutCreate, TypeOK, FoldersTypeOK, ChildrenTypeOK
  <2>4. LoopsInBounds'
    BY <1>2 DEF PutCreate, TypeOK, ChildrenTypeOK, LoopsInBounds
  <2>5. Descriptors'
    BY <1>2, <2>1 DEF PutCreate, TypeOK, FoldersTypeOK, ChildrenTypeOK, Descriptors
  <2> QED BY <2>2, <2>3, <2>4, <2>5 DEF TypeOK
<1>3. CASE Received(c)
  <2>1. FoldersTypeOK'
    BY <1>3 DEF Received, TypeOK, FoldersTypeOK
  <2>2. ChildrenTypeOK'
    BY <1>3 DEF Received, TypeOK, FoldersTypeOK, ChildrenTypeOK
  <2>3. LoopsInBounds'
    BY <1>3, StoreAssumption DEF Received, TypeOK, ChildrenTypeOK, LoopsInBounds, Descriptors
  <2>4. Descriptors'
    BY <1>3 DEF Received, TypeOK, FoldersTypeOK, ChildrenTypeOK, Descriptors
  <2> QED BY <2>1, <2>2, <2>3, <2>4 DEF TypeOK
<1>4. CASE PutWrite(c)
  <2>1. name[c] \in Names /\ WriteAt(files[name[c]], i[c], Upload(c)[i[c] + 1]) \in Seq(Data)
    <3>1. name[c] \in Names /\ files[name[c]] \in Seq(Data) /\ i[c] \in Nat
      BY <1>4 DEF PutWrite, Descriptors, TypeOK, ChildrenTypeOK
    <3>2. Upload(c)[i[c] + 1] \in Data
      BY <1>4, <3>1, UploadType, StoreAssumption DEF PutWrite
    <3> QED
      BY <3>1, <3>2, WriteAtType
  <2>2. FoldersTypeOK'
    BY <1>4, <2>1 DEF PutWrite, TypeOK, FoldersTypeOK
  <2>3. ChildrenTypeOK'
    BY <1>4 DEF PutWrite, TypeOK, FoldersTypeOK, ChildrenTypeOK
  <2>4. LoopsInBounds'
    BY <1>4, StoreAssumption DEF PutWrite, TypeOK, ChildrenTypeOK, LoopsInBounds
  <2>5. Descriptors'
    BY <1>4, <2>1 DEF PutWrite, TypeOK, FoldersTypeOK, ChildrenTypeOK, Descriptors
  <2> QED BY <2>2, <2>3, <2>4, <2>5 DEF TypeOK
<1>5. CASE PutClose(c)
  <2>1. FoldersTypeOK'
    BY <1>5 DEF PutClose, TypeOK, FoldersTypeOK
  <2>2. ChildrenTypeOK'
    BY <1>5 DEF PutClose, TypeOK, FoldersTypeOK, ChildrenTypeOK
  <2>3. LoopsInBounds'
    BY <1>5 DEF PutClose, TypeOK, ChildrenTypeOK, LoopsInBounds
  <2>4. Descriptors'
    BY <1>5 DEF PutClose, TypeOK, FoldersTypeOK, ChildrenTypeOK, Descriptors
  <2> QED BY <2>1, <2>2, <2>3, <2>4 DEF TypeOK
<1> QED
  BY <1>1, <1>2, <1>3, <1>4, <1>5

\* And so do a refused GET and the end of a child.
LEMMA CloseTypes ==
  ASSUME TypeOK, Descriptors, NEW c \in Children, GetRefused(c) \/ Close(c)
  PROVE  TypeOK' /\ Descriptors'
<1>1. requests' \in [Children -> 0 .. MaxRequests]
  BY RequestType DEF GetRefused, Close, TypeOK, ChildrenTypeOK
<1>2. pc' = pc \/ pc' = [pc EXCEPT ![c] = "ended"]
  BY DEF GetRefused, Close, Goto
<1>3. FoldersTypeOK'
  BY DEF GetRefused, Close, TypeOK, FoldersTypeOK
<1>4. ChildrenTypeOK'
  BY <1>1, <1>2 DEF GetRefused, Close, TypeOK, ChildrenTypeOK, Places
<1>5. LoopsInBounds' /\ Descriptors'
  BY <1>2 DEF GetRefused, Close, TypeOK, ChildrenTypeOK, LoopsInBounds, Descriptors
<1> QED
  BY <1>3, <1>4, <1>5 DEF TypeOK

LEMMA StutterTypes == TypeOK /\ Descriptors /\ UNCHANGED vars => TypeOK' /\ Descriptors'
BY DEF TypeOK, FoldersTypeOK, ChildrenTypeOK, LoopsInBounds, Descriptors, vars, childVars

LEMMA NextTypes == TypeOK /\ Descriptors /\ [Next]_vars => TypeOK' /\ Descriptors'
<1>1. ASSUME TypeOK, Descriptors, NEW c \in Children, Child(c)
      PROVE  TypeOK' /\ Descriptors'
  BY <1>1, ListTypes, SendTypes, PutTypes, CloseTypes DEF Child, Serve
<1> QED
  BY <1>1, StutterTypes DEF Next

\* Every variable stays in its range and no loop goes beyond its bound, for any number
\* of children, files and requests: a child never writes or reads at an offset outside
\* what it counted.
THEOREM TypeCorrect == Spec => []TypeOK
BY InitTypes, NextTypes, PTL DEF Spec

-----------------------------------------------------------------------------
(* A file that exists and that no child writes.                              *)

\* PutTest refuses a name that is present, and only a child past the test writes.
THEOREM Settled == Spec => SettledStays
<1> DEFINE Still(n) == PastTest(n)' = {} /\ files'[n] = files[n]
<1>1. ASSUME TypeOK, Descriptors, NEW c \in Children, Child(c),
             NEW n \in Present, PastTest(n) = {}
      PROVE  Still(n)
  <2>1. \A d \in Children : ~(name[d] = n /\ pc[d] \in {"put_create", "receiving", "put_write"})
    BY <1>1 DEF PastTest
  <2>2. n \in Names /\ files[n] # Absent
    BY <1>1 DEF Present
  <2>3. /\ pc \in [Children -> Places] /\ name \in [Children -> Names \cup {Absent}]
        /\ DOMAIN files = Names
    BY <1>1 DEF TypeOK, FoldersTypeOK, ChildrenTypeOK
  <2>4. \A d \in Children : ~(name'[d] = n /\ pc'[d] \in {"put_create", "receiving", "put_write"})
    BY <1>1, <2>1, <2>2, <2>3 DEF Child, Serve, Present, Request, At, Goto, Places,
       ListScan, ListOpen, ListWrite, ListWritten, ListRemove, Measure, ReadPacket, Sent,
       GetOpen, GetRefused, Close, PutTest, PutCreate, Received, PutWrite, PutClose
  <2>5. files'[n] = files[n]
    BY <1>1, <2>1, <2>2, <2>3 DEF Child, Serve, At,
       ListScan, ListOpen, ListWrite, ListWritten, ListRemove, Measure, ReadPacket, Sent,
       GetOpen, GetRefused, Close, PutTest, PutCreate, Received, PutWrite, PutClose
  <2> QED
    BY <2>4, <2>5 DEF PastTest
<1>2. TypeOK /\ Descriptors /\ [Next]_vars
        => [\A n \in Present : PastTest(n) = {} => PastTest(n)' = {} /\ files'[n] = files[n]]_vars
  BY <1>1 DEF Next
<1> QED
  BY <1>2, InitTypes, NextTypes, PTL DEF Spec, SettledStays

-----------------------------------------------------------------------------
(* A file that was found absent by one child at a time.                      *)

Writing == {"put_create", "receiving", "put_write"}

\* A step of a child that is not past the test for n, before it or after it, and that
\* leaves the file alone.
LEMMA Bystander ==
  ASSUME NEW n, NEW c \in Children, OneWriter(n),
         \A d \in Children \ {c} : pc'[d] = pc[d] /\ name'[d] = name[d] /\ i'[d] = i[d],
         c \notin PastTest(n), c \notin PastTest(n)', files'[n] = files[n]
  PROVE  OneWriter(n)'
<1>1. PastTest(n)' = PastTest(n)
  BY DEF PastTest
<1>2. \A d \in PastTest(n) : pc'[d] = pc[d] /\ i'[d] = i[d]
  BY DEF PastTest
<1> QED
  BY <1>1, <1>2 DEF OneWriter, Original, Upload

LEMMA EmptyPrefix == ASSUME NEW c \in Children PROVE SubSeq(Upload(c), 1, 0) = << >>
<1>1. Upload(c) \in Seq(Data)
  BY UploadType
<1> QED
  BY <1>1

LEMMA WholePrefix == ASSUME NEW c \in Children PROVE SubSeq(Upload(c), 1, UploadLen) = Upload(c)
<1> DEFINE U == Upload(c)
<1>1. U \in Seq(Data) /\ Len(U) = UploadLen
  BY UploadType
<1> HIDE DEF U
<1>2. SubSeq(U, 1, Len(U)) = U
  BY <1>1
<1> QED
  BY <1>1, <1>2 DEF U

\* What a child's step leaves of the others.
LEMMA OthersStay ==
  ASSUME TypeOK, NEW c \in Children, Child(c)
  PROVE  \A d \in Children \ {c} : pc'[d] = pc[d] /\ name'[d] = name[d] /\ i'[d] = i[d]
BY DEF TypeOK, ChildrenTypeOK, Child, Serve, Request, Goto,
   ListScan, ListOpen, ListWrite, ListWritten, ListRemove, Measure, ReadPacket, Sent,
   GetOpen, GetRefused, Close, PutTest, PutCreate, Received, PutWrite, PutClose

\* A step of a LIST or of a sender, and the request of a GET: no file is touched.
LEMMA ReadersKeepOneWriter ==
  ASSUME TypeOK, NEW c \in Children, NEW n \in Names, OneWriter(n), Child(c),
         \/ ListScan(c) \/ ListOpen(c) \/ ListWrite(c) \/ ListWritten(c) \/ ListRemove(c)
         \/ Measure(c) \/ ReadPacket(c) \/ Sent(c) \/ \E m \in Names : GetOpen(c, m)
         \/ GetRefused(c) \/ Close(c)
  PROVE  OneWriter(n)'
<1>1. pc[c] \notin Writing /\ pc'[c] \notin Writing /\ files' = files
  BY DEF TypeOK, ChildrenTypeOK, Writing, Request, At, Goto,
     ListScan, ListOpen, ListWrite, ListWritten, ListRemove, Measure, ReadPacket, Sent, GetOpen,
     GetRefused, Close
<1>2. c \notin PastTest(n) /\ c \notin PastTest(n)'
  BY <1>1 DEF PastTest, Writing
<1> QED
  BY <1>1, <1>2, OthersStay, Bystander

\* The request of a PUT: a child that finds the name absent is its only writer, or the
\* name is contested.
LEMMA PutTestKeepsOneWriter ==
  ASSUME TypeOK, NEW c \in Children, NEW n \in Names, OneWriter(n), Child(c),
         NEW m \in Names, PutTest(c, m), n \notin contested'
  PROVE  OneWriter(n)'
<1>1. pc[c] = "request" /\ files' = files /\ name'[c] = m
  BY DEF PutTest, Request, At, TypeOK, ChildrenTypeOK
<1>2. c \notin PastTest(n)
  BY <1>1 DEF PastTest
<1>3. CASE m # n \/ m \in Present
  <2>1. c \notin PastTest(n)'
    BY <1>1, <1>3 DEF PastTest, PutTest, Goto, TypeOK, ChildrenTypeOK
  <2> QED
    BY <1>1, <1>2, <2>1, OthersStay, Bystander
<1>4. CASE m = n /\ m \notin Present
  <2>1. files[n] = Absent /\ pc'[c] = "put_create"
    BY <1>4 DEF Present, PutTest, Goto, TypeOK, ChildrenTypeOK
  <2>2. PastTest(n) = {}
    BY <1>4 DEF PutTest
  <2>3. PastTest(n)' = {c}
    BY <1>1, <1>4, <2>1, <2>2, OthersStay DEF PastTest
  <2> QED
    BY <1>1, <2>1, <2>3 DEF OneWriter
<1> QED
  BY <1>3, <1>4

\* The rest of a PUT.
LEMMA WriterKeepsOneWriter ==
  ASSUME TypeOK, Descriptors, NEW c \in Children, NEW n \in Names, OneWriter(n), Child(c),
         PutCreate(c) \/ Received(c) \/ PutWrite(c) \/ PutClose(c)
  PROVE  OneWriter(n)'
<1> USE DEF At, Goto
<1>1. /\ pc[c] \in Writing /\ name' = name /\ name[c] \in Names
      /\ pc \in [Children -> Places] /\ files \in [Names -> Seq(Data) \cup {Absent}]
      /\ i \in [Children -> Nat]
  BY DEF Writing, PutCreate, Received, PutWrite, PutClose, Descriptors,
     TypeOK, FoldersTypeOK, ChildrenTypeOK
<1>2. CASE name[c] # n
  <2>1. c \notin PastTest(n) /\ c \notin PastTest(n)'
    BY <1>1, <1>2 DEF PastTest
  <2>2. files'[n] = files[n]
    BY <1>1, <1>2 DEF PutCreate, Received, PutWrite, PutClose
  <2> QED
    BY <2>1, <2>2, OthersStay, Bystander
<1>3. CASE name[c] = n
  <2>1. PastTest(n) = {c}
    BY <1>1, <1>3 DEF PastTest, Writing, OneWriter
  <2>2. \A d \in Children \ {c} : d \notin PastTest(n)'
    BY <2>1, OthersStay DEF PastTest
  <2>3. CASE PutCreate(c)
    <3>1. pc'[c] = "receiving" /\ files'[n] = << >>
      BY <1>1, <1>3, <2>3 DEF PutCreate
    <3>2. PastTest(n)' = {c}
      BY <1>1, <1>3, <2>2, <3>1 DEF PastTest
    <3> QED
      BY <3>1, <3>2 DEF OneWriter
  <2>4. CASE Received(c)
    <3>1. pc'[c] = "put_write" /\ files'[n] = files[n] /\ i'[c] = i[c] /\ i[c] = 0
      BY <1>1, <2>4 DEF Received, Descriptors
    <3>2. files[n] = << >>
      BY <2>1, <2>4 DEF OneWriter, Received
    <3>3. PastTest(n)' = {c}
      BY <1>1, <1>3, <2>2, <3>1 DEF PastTest
    <3>4. files'[n] = SubSeq(Upload(c), 1, i'[c])
      BY <3>1, <3>2, EmptyPrefix
    <3> QED
      BY <3>1, <3>3, <3>4 DEF OneWriter, Upload
  <2>5. CASE PutWrite(c)
    <3>1. pc[c] = "put_write" /\ pc'[c] = "put_write" /\ i[c] < UploadLen /\ i'[c] = i[c] + 1
      BY <1>1, <2>5 DEF PutWrite
    <3>2. files[n] = SubSeq(Upload(c), 1, i[c])
      BY <2>1, <3>1 DEF OneWriter
    <3>3. files'[n] = WriteAt(files[n], i[c], Upload(c)[i[c] + 1])
      BY <1>1, <1>3, <2>5 DEF PutWrite
    <3>4. i[c] \in 0 .. UploadLen - 1
      BY <1>1, <3>1, StoreAssumption
    <3>5. files'[n] = SubSeq(Upload(c), 1, i'[c])
      BY <3>1, <3>2, <3>3, <3>4, WriteNext
    <3>6. PastTest(n)' = {c}
      BY <1>1, <1>3, <2>2, <3>1 DEF PastTest
    <3> QED
      BY <3>1, <3>5, <3>6 DEF OneWriter, Upload
  <2>6. CASE PutClose(c)
    <3>1. pc[c] = "put_write" /\ pc'[c] = "request" /\ i[c] = UploadLen /\ files' = files
      BY <1>1, <2>6 DEF PutClose
    <3>2. files'[n] = Upload(c)
      BY <2>1, <3>1, WholePrefix DEF OneWriter
    <3>3. PastTest(n)' = {}
      BY <2>2, <3>1 DEF PastTest
    <3> QED
      BY <3>2, <3>3 DEF OneWriter, Upload
  <2> QED
    BY <2>3, <2>4, <2>5, <2>6
<1> QED
  BY <1>2, <1>3

LEMMA InitOneWriter == ASSUME Init, NEW n \in Names PROVE OneWriter(n)
<1>1. PastTest(n) = {}
  BY DEF Init, PastTest
<1> QED
  BY <1>1 DEF Init, OneWriter

LEMMA NextInvariant == IInv /\ [Next]_vars => IInv'
<1>1. ASSUME IInv, NEW c \in Children, Child(c), NEW n \in Names \ contested'
      PROVE  OneWriter(n)'
  <2>1. contested \subseteq contested'
    BY <1>1 DEF Child, Serve, ListScan, ListOpen, ListWrite, ListWritten, ListRemove, Measure,
       ReadPacket, Sent, GetOpen, GetRefused, Close, PutTest, PutCreate, Received, PutWrite, PutClose
  <2>2. TypeOK /\ Descriptors /\ OneWriter(n)
    BY <1>1, <2>1 DEF IInv
  <2> QED
    BY <1>1, <2>2, ReadersKeepOneWriter, PutTestKeepsOneWriter, WriterKeepsOneWriter
    DEF Child, Serve
<1>2. ASSUME IInv, UNCHANGED vars, NEW n \in Names \ contested'
      PROVE  OneWriter(n)'
  <2>1. pc' = pc /\ name' = name /\ i' = i /\ files' = files /\ contested' = contested
    BY <1>2 DEF vars, childVars
  <2>2. PastTest(n)' = PastTest(n)
    BY <2>1 DEF PastTest
  <2>3. OneWriter(n)
    BY <1>2, <2>1 DEF IInv
  <2> QED
    BY <2>1, <2>2, <2>3 DEF OneWriter, Original, Upload
<1>3. IInv /\ [Next]_vars => \A n \in Names \ contested' : OneWriter(n)'
  BY <1>1, <1>2 DEF Next
<1> QED
  BY <1>3, NextTypes DEF IInv

\* Whatever the number of children and uploads and however their system calls are
\* interleaved: a file that no two children found absent at once is never a mixture
\* of two uploads and never cut (server.c:174, :185 and receiver.c:101).
THEOREM Whole == Spec => []UncontestedIsWhole
<1>1. Init => IInv
  BY InitTypes, InitOneWriter DEF IInv
<1>2. IInv => UncontestedIsWhole
  <2> SUFFICES ASSUME IInv, NEW n \in Present \ contested
               PROVE  \/ n \in ServerFolder /\ files[n] = Original(n)
                      \/ /\ PastTest(n) = {}
                         /\ \E c \in Children : files[n] = Upload(c)
                      \/ \E c \in Children :
                           /\ PastTest(n) = {c} /\ pc[c] # "put_create"
                           /\ files[n] = SubSeq(Upload(c), 1, i[c])
    BY DEF UncontestedIsWhole
  <2>1. OneWriter(n) /\ files[n] # Absent
    BY DEF IInv, Present
  <2>2. CASE PastTest(n) = {}
    BY <2>1, <2>2 DEF OneWriter
  <2>3. ASSUME NEW c \in PastTest(n)
        PROVE  \E d \in Children :
                 /\ PastTest(n) = {d} /\ pc[d] # "put_create"
                 /\ files[n] = SubSeq(Upload(d), 1, i[d])
    <3>1. c \in Children /\ PastTest(n) = {c} /\ pc[c] \in Writing /\ pc[c] # "put_create"
      BY <2>1, <2>3 DEF OneWriter, PastTest, Writing
    <3>2. files[n] = SubSeq(Upload(c), 1, i[c])
      <4>1. CASE pc[c] = "receiving"
        <5>1. i[c] = 0
          BY <3>1, <4>1 DEF IInv, Descriptors
        <5>2. files[n] = << >>
          BY <2>1, <2>3, <4>1 DEF OneWriter
        <5>3. SubSeq(Upload(c), 1, 0) = << >>
          BY <3>1, EmptyPrefix
        <5> QED
          BY <5>1, <5>2, <5>3
      <4>2. CASE pc[c] = "put_write"
        BY <2>1, <2>3, <4>2 DEF OneWriter
      <4> QED
        BY <3>1, <4>1, <4>2 DEF Writing
    <3> QED
      BY <3>1, <3>2
  <2> QED
    BY <2>2, <2>3
<1> QED
  BY <1>1, <1>2, NextInvariant, PTL DEF Spec
=============================================================================
