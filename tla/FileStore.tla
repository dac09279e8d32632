------------------------------ MODULE FileStore ------------------------------
(***************************************************************************)
(* The files that the children of the server (src/server.c) share: the     *)
(* folder serverFiles/ and the one file_list.txt that every LIST writes,   *)
(* sends and removes.  A step is one system call on a file; the transfers  *)
(* themselves are module Transfer.  A chunk is what one packet carries.    *)
(*                                                                         *)
(* Files of serverFiles/ are never removed, so a name is an inode there.   *)
(* file_list.txt is: an open descriptor keeps the inode it was opened on.  *)
(***************************************************************************)
EXTENDS Integers, Sequences, SequencesExt

CONSTANTS
  Children,      \* children of the server
  Names,         \* file names
  ServerFolder,  \* files in serverFiles/ at the start
  UploadLen,     \* packets of an upload
  Absent, Hole,  \* no such file; bytes skipped by a write beyond the end
  MaxRequests    \* bound: requests served by a child

ASSUME StoreAssumption ==
  /\ IsFiniteSet(Names) /\ ServerFolder \subseteq Names
  /\ UploadLen \in Nat \ {0} /\ MaxRequests \in Nat
  /\ Absent # << >>

VARIABLES
  files,      \* content of each file of serverFiles/, or Absent
  lists,      \* every file_list.txt so far: content, and times opened
  entry,      \* the one the directory names, 0 for none
  pc,         \* where each child is in main
  name,       \* the file its descriptor is on, if not a file_list.txt
  inode,      \* the file_list.txt its descriptor is on, or 0
  scanned,    \* the names server_folder_files gave it
  size,       \* tot_pkts of its sender
  i,          \* the counter of its loops
  payload,    \* what its sender has read
  requests,   \* requests it has taken
  contested   \* history: names that two children have found absent at once

childVars == <<pc, name, inode, scanned, size, i, payload, requests>>
vars == <<files, lists, entry, childVars, contested>>

\* What a chunk of a file may be: a name in a list, the content of an original
\* file, zeros, or a chunk of an upload.
Data == Names \cup {Hole} \cup (Children \X (1 .. UploadLen))

\* The chunks of what the client of child c uploads.
Upload(c) == [k \in 1 .. UploadLen |-> <<c, k>>]
Original(n) == <<n>>
Present == {n \in Names : files[n] # Absent}
PastTest(n) == {c \in Children : name[c] = n /\ pc[c] \in {"put_create", "receiving", "put_write"}}

\* What is in the file that child c has open.
Opened(c) == IF inode[c] # 0 THEN lists[inode[c]].content ELSE files[name[c]]

\* write at an offset: a gap beyond the end reads as zeros.
WriteAt(s, offset, x) ==
  [k \in 1 .. (IF Len(s) > offset THEN Len(s) ELSE offset + 1) |->
     IF k = offset + 1 THEN x ELSE IF k <= Len(s) THEN s[k] ELSE Hole]

\* read of one packet at an offset: nothing at the end of the file.
ReadAt(s, offset) == IF offset < Len(s) THEN <<s[offset + 1]>> ELSE << >>

At(c, place) == pc[c] = place
Goto(c, place) == pc' = [pc EXCEPT ![c] = place]

\* The child takes a request from its socket.
Request(c) ==
  /\ At(c, "request")
  /\ requests[c] < MaxRequests
  /\ requests' = [requests EXCEPT ![c] = @ + 1]

-----------------------------------------------------------------------------
(* LIST.                                                                     *)

\* server_folder_files: the names that are in the folder now.
ListScan(c) ==
  /\ Request(c)
  /\ scanned' = [scanned EXCEPT ![c] = SetToSeq(Present)]
  /\ Goto(c, "list_open")
  /\ UNCHANGED <<files, lists, entry, name, inode, size, i, payload, contested>>

\* open with O_CREAT and O_TRUNC: the file another child has open is emptied.
ListOpen(c) ==
  /\ At(c, "list_open")
  /\ IF entry = 0
     THEN /\ lists' = Append(lists, [content |-> << >>, opened |-> 1])
          /\ entry' = Len(lists) + 1
     ELSE /\ lists' = [lists EXCEPT ![entry] = [content |-> << >>, opened |-> @.opened + 1]]
          /\ entry' = entry
  /\ inode' = [inode EXCEPT ![c] = entry']
  /\ i' = [i EXCEPT ![c] = 0]
  /\ Goto(c, "list_write")
  /\ UNCHANGED <<files, name, scanned, size, payload, requests, contested>>

\* One name, at the offset of this child's own descriptor.
ListWrite(c) ==
  /\ At(c, "list_write")
  /\ i[c] < Len(scanned[c])
  /\ lists' = [lists EXCEPT ![inode[c]].content = WriteAt(@, i[c], scanned[c][i[c] + 1])]
  /\ i' = [i EXCEPT ![c] = @ + 1]
  /\ UNCHANGED <<files, entry, pc, name, inode, scanned, size, payload, requests, contested>>

\* Mutant of ListWritten: the loop ends one name early.
ListWritten_short(c) ==
  /\ At(c, "list_write")
  /\ i[c] + 1 >= Len(scanned[c])
  /\ Goto(c, "measure")
  /\ UNCHANGED <<files, lists, entry, name, inode, scanned, size, i, payload, requests, contested>>

ListWritten(c) ==
  /\ At(c, "list_write")
  /\ i[c] = Len(scanned[c])
  /\ Goto(c, "measure")
  /\ UNCHANGED <<files, lists, entry, name, inode, scanned, size, i, payload, requests, contested>>

\* close and remove: whatever file_list.txt is by now.
ListRemove(c) ==
  /\ At(c, "list_remove")
  /\ entry' = 0
  /\ inode' = [inode EXCEPT ![c] = 0]
  /\ Goto(c, "request")
  /\ UNCHANGED <<files, lists, name, scanned, size, i, payload, requests, contested>>

-----------------------------------------------------------------------------
(* The sender's use of the file, in LIST and in GET.                         *)

\* The size of the file fixes the number of packets.
Measure(c) ==
  /\ At(c, "measure")
  /\ size' = [size EXCEPT ![c] = Len(Opened(c))]
  /\ payload' = [payload EXCEPT ![c] = << >>]
  /\ i' = [i EXCEPT ![c] = 0]
  /\ Goto(c, "sending")
  /\ UNCHANGED <<files, lists, entry, name, inode, scanned, requests, contested>>

\* Mutant of ReadPacket: one read too many.
ReadPacket_beyond(c) ==
  /\ At(c, "sending")
  /\ i[c] <= size[c]
  /\ LET offset == Len(payload[c]) IN
     payload' = [payload EXCEPT ![c] = @ \o ReadAt(Opened(c), offset)]
  /\ i' = [i EXCEPT ![c] = @ + 1]
  /\ UNCHANGED <<files, lists, entry, pc, name, inode, scanned, size, requests, contested>>

\* Mutant of ReadPacket: a read that gives nothing is tried again.
ReadPacket_insist(c) ==
  /\ At(c, "sending")
  /\ i[c] < size[c]
  /\ LET offset == Len(payload[c]) IN
     /\ offset < Len(Opened(c))
     /\ payload' = [payload EXCEPT ![c] = Append(@, Opened(c)[offset + 1])]
  /\ i' = [i EXCEPT ![c] = @ + 1]
  /\ UNCHANGED <<files, lists, entry, pc, name, inode, scanned, size, requests, contested>>

\* One packet; beyond the end of a file that has shrunk it is empty.
ReadPacket(c) ==
  /\ At(c, "sending")
  /\ i[c] < size[c]
  /\ LET offset == Len(payload[c]) IN
     payload' = [payload EXCEPT ![c] = @ \o ReadAt(Opened(c), offset)]
  /\ i' = [i EXCEPT ![c] = @ + 1]
  /\ UNCHANGED <<files, lists, entry, pc, name, inode, scanned, size, requests, contested>>

\* All packets are read, sent and acknowledged.  With no packet at all the
\* sender waits for ever for an acknowledgement.
Sent(c) ==
  /\ At(c, "sending")
  /\ i[c] = size[c] /\ size[c] > 0
  /\ Goto(c, IF inode[c] # 0 THEN "list_remove" ELSE "request")
  /\ UNCHANGED <<files, lists, entry, name, inode, scanned, size, i, payload, requests, contested>>

-----------------------------------------------------------------------------
(* GET.                                                                      *)

\* Mutant of GetOpen: the flags of PUT.
GetOpen_create(c, n) ==
  /\ Request(c)
  /\ name' = [name EXCEPT ![c] = n]
  /\ files' = IF n \in Present THEN files ELSE [files EXCEPT ![n] = << >>]
  /\ Goto(c, "measure")
  /\ UNCHANGED <<lists, entry, inode, scanned, size, i, payload, contested>>

\* A file that is not there ends the child.
GetOpen(c, n) ==
  /\ Request(c)
  /\ name' = [name EXCEPT ![c] = n]
  /\ Goto(c, IF n \in Present THEN "measure" ELSE "ended")
  /\ UNCHANGED <<files, lists, entry, inode, scanned, size, i, payload, contested>>

\* The client does not overwrite its own file: NOVERW in place of a name.
GetRefused(c) ==
  /\ Request(c)
  /\ UNCHANGED <<files, lists, entry, pc, name, inode, scanned, size, i, payload, contested>>

-----------------------------------------------------------------------------
(* PUT.                                                                      *)

\* Mutant of PutTest: the test is left out.
PutTest_unchecked(c, n) ==
  /\ Request(c)
  /\ name' = [name EXCEPT ![c] = n]
  /\ Goto(c, "put_create")
  /\ contested' = IF PastTest(n) = {} THEN contested ELSE contested \cup {n}
  /\ UNCHANGED <<files, lists, entry, inode, scanned, size, i, payload>>

\* The file must not exist: NOVERW if it does, NFOUND if it does not.
PutTest(c, n) ==
  /\ Request(c)
  /\ name' = [name EXCEPT ![c] = n]
  /\ IF n \in Present
     THEN /\ Goto(c, "request")
          /\ contested' = contested
     ELSE /\ Goto(c, "put_create")
          /\ contested' = IF PastTest(n) = {} THEN contested ELSE contested \cup {n}
  /\ UNCHANGED <<files, lists, entry, inode, scanned, size, i, payload>>

\* open with O_CREAT and O_TRUNC: a file created since the test is emptied.
PutCreate(c) ==
  /\ At(c, "put_create")
  /\ files' = [files EXCEPT ![name[c]] = << >>]
  /\ i' = [i EXCEPT ![c] = 0]
  /\ Goto(c, "receiving")
  /\ UNCHANGED <<lists, entry, name, inode, scanned, size, payload, requests, contested>>

\* The last packet has arrived.
Received(c) ==
  /\ At(c, "receiving")
  /\ Goto(c, "put_write")
  /\ UNCHANGED <<files, lists, entry, name, inode, scanned, size, i, payload, requests, contested>>

\* One packet of the buffer, at the offset of this child's own descriptor.
PutWrite(c) ==
  /\ At(c, "put_write")
  /\ i[c] < UploadLen
  /\ files' = [files EXCEPT ![name[c]] = WriteAt(@, i[c], Upload(c)[i[c] + 1])]
  /\ i' = [i EXCEPT ![c] = @ + 1]
  /\ UNCHANGED <<lists, entry, pc, name, inode, scanned, size, payload, requests, contested>>

\* Mutant of PutClose: the loop ends one packet early.
PutClose_short(c) ==
  /\ At(c, "put_write")
  /\ i[c] = UploadLen - 1
  /\ Goto(c, "request")
  /\ UNCHANGED <<files, lists, entry, name, inode, scanned, size, i, payload, requests, contested>>

PutClose(c) ==
  /\ At(c, "put_write")
  /\ i[c] = UploadLen
  /\ Goto(c, "request")
  /\ UNCHANGED <<files, lists, entry, name, inode, scanned, size, i, payload, requests, contested>>

-----------------------------------------------------------------------------
\* CLOSE: the child returns.
Close(c) ==
  /\ At(c, "request")
  /\ Goto(c, "ended")
  /\ UNCHANGED <<files, lists, entry, name, inode, scanned, size, i, payload, requests, contested>>

Init ==
  /\ files = [n \in Names |-> IF n \in ServerFolder THEN Original(n) ELSE Absent]
  /\ lists = << >> /\ entry = 0
  /\ pc = [c \in Children |-> "request"]
  /\ name = [c \in Children |-> Absent]
  /\ inode = [c \in Children |-> 0]
  /\ scanned = [c \in Children |-> << >>]
  /\ size = [c \in Children |-> 0]
  /\ i = [c \in Children |-> 0]
  /\ payload = [c \in Children |-> << >>]
  /\ requests = [c \in Children |-> 0]
  /\ contested = {}

\* What a child does once it has its request, the wait for the upload apart.
Serve(c) ==
  \/ ListOpen(c) \/ ListWrite(c) \/ ListWritten(c) \/ ListRemove(c)
  \/ Measure(c) \/ ReadPacket(c) \/ Sent(c)
  \/ PutCreate(c) \/ PutWrite(c) \/ PutClose(c)

Child(c) ==
  \/ ListScan(c)
  \/ \E n \in Names : GetOpen(c, n) \/ PutTest(c, n)
  \/ GetRefused(c) \/ Close(c)
  \/ Received(c)
  \/ Serve(c)

Next == \E c \in Children : Child(c)

Spec == Init /\ [][Next]_vars

\* The processor runs every child, and the client of a list or a download goes on
\* acknowledging until the child has sent it.
FairSpec == Spec /\ \A c \in Children : WF_vars(Serve(c))

-----------------------------------------------------------------------------
(* Properties.                                                               *)

Places == {"request", "list_open", "list_write", "list_remove", "measure", "sending",
           "put_create", "receiving", "put_write", "ended"}
FoldersTypeOK ==
  /\ files \in [Names -> Seq(Data) \cup {Absent}]
  /\ lists \in Seq([content : Seq(Data), opened : Nat \ {0}])
  /\ entry \in 0 .. Len(lists)
  /\ contested \in SUBSET Names
ChildrenTypeOK ==
  /\ pc \in [Children -> Places]
  /\ name \in [Children -> Names \cup {Absent}]
  /\ inode \in [Children -> 0 .. Len(lists)]
  /\ scanned \in [Children -> Seq(Data)]
  /\ size \in [Children -> Nat] /\ i \in [Children -> Nat]
  /\ payload \in [Children -> Seq(Data)]
  /\ requests \in [Children -> 0 .. MaxRequests]
LoopsInBounds ==
  \A c \in Children :
    /\ pc[c] = "list_write" => i[c] <= Len(scanned[c])
    /\ pc[c] = "sending" => i[c] <= size[c]
    /\ pc[c] = "put_write" => i[c] <= UploadLen

\* Every variable is in its range, and no loop goes beyond its bound.
TypeOK == FoldersTypeOK /\ ChildrenTypeOK /\ LoopsInBounds

\* What server.c:176 tells the client, "you can not overwrite files on server",
\* with the window it really has: once a file exists and no child is past the test
\* of line 174 for it, no child ever passes that test again and the file never
\* changes again.
SettledStays ==
  [][\A n \in Present : PastTest(n) = {} => PastTest(n)' = {} /\ files'[n] = files[n]]_vars

\* Unless two children found the name absent at once, a file of serverFiles/ is
\* what was there at the start or, from the start to where its one writer is (the
\* end, when there is none left), one client's upload: never a mixture, never cut.
UncontestedIsWhole ==
  \A n \in Present \ contested :
    \/ n \in ServerFolder /\ files[n] = Original(n)
    \/ /\ PastTest(n) = {}
       /\ \E c \in Children : files[n] = Upload(c)
    \/ \E c \in Children :
         /\ PastTest(n) = {c} /\ pc[c] # "put_create"
         /\ files[n] = SubSeq(Upload(c), 1, i[c])

\* A client gets as a list what its child saw in the folder, if no other child
\* opened that same file_list.txt: the removals of others do no harm, only their
\* truncation and writing does.
ListComplete ==
  \A c \in Children :
    pc[c] = "sending" /\ inode[c] # 0 /\ i[c] = size[c] /\ lists[inode[c]].opened = 1
      => payload[c] = scanned[c]

\* A download has nothing to send only if some child was still receiving that file
\* when it was measured (server.c:185 creates it empty, receiver.c:101 fills it
\* after the last packet).
EmptyOnlyWhileReceived ==
  [][\A c \in Children :
       pc[c] = "measure" /\ pc'[c] = "sending" /\ inode[c] = 0 /\ size'[c] = 0
         => PastTest(name[c]) # {}]_vars

\* Every request is served or refused, whatever the other children do to the file,
\* but for three: one whose file had no packet when it was measured (sender.c:177
\* then never ends), a list or a download whose client acknowledges no more (the
\* fairness of Serve has Sent in it, and so supposes that it does), and an upload
\* whose client sends no more.
ServedUnlessEmpty ==
  \A c \in Children :
    pc[c] # "request" ~>
      \/ pc[c] \in {"request", "ended", "receiving"}
      \/ pc[c] = "sending" /\ size[c] = 0
=============================================================================
