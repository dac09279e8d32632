# Verification of a reliable file transfer over UDP

The program is a file server and its client. Both move files over UDP with a
windowed protocol of their own: cumulative acknowledgements, a retransmission
timer, fast retransmission on duplicate acknowledgements, and a share of packets
dropped on purpose (`LOST_PROB`). This directory holds TLA+ models of the
protocol, of the threads that run it, of the sessions around it and of the folder
the sessions share, and of the protocol the program used before, what TLC checks
of them and what TLAPS proves.

## 1. The system

| part | code | state | operations |
|---|---|---|---|
| sender | `src/lib/sender.c` | `SendBase`, `NextSeqNum`, `WindowEnd`, `check_pkt`, `tot_acked`, `fileTransfer`, `isTimerStarted`, the timer | `sender`, `send_window`, `send_packet`, `receive_ack` (a thread), `timeout_routine` (SIGALRM), `retransmission`, `cumulative_ack`, `update_timeout`, `end_transmission` |
| receiver | `src/lib/receiver.c` | `ReceiveBase`, `WindowEnd`, `tot_pkts`, `check_pkt_received`, `tot_received`, the buffered packets | `receiver`, `mark_recvd`, `move_window`, `send_cumulative_ack`, `clear_junk` |
| timer | `src/lib/utility.c` `set_timer` | one interval timer per process, one shot | start, stop, expire |
| timeout estimate | `src/lib/sender.c` `update_timeout` | `estimatedRTT`, `devRTT`, `timeoutInterval` | update with a sample, conversion and cap in `set_timer` |
| client | `src/client.c` | place in `main`, `buff`, `clientFiles/` | connect, LIST, GET, PUT, CLOSE |
| server | `src/server.c` | listener; per client a child with its own socket, place in `main`, `buff`, `path`; `serverFiles/`, `file_list.txt` | accept, fork, serve LIST, GET, PUT, CLOSE |

Client and child call the same `sender` and `receiver`, the one that has the file
as sender. Sender and receiver share nothing but the two sockets. Inside a
sending process three activities share plain globals without a lock: the main
thread, the thread of `receive_ack`, and the handler of SIGALRM, which runs on
top of either. `sender()` does not join the thread it creates and SIGALRM can be
pending when the timer is stopped, so that both can run on into the next
transfer of the process.

`src/jacSender.c`, `jacReceiver.c`, `jacServer.c`, `jacClient.c` are an earlier
selective repeat version that the Makefile does not compile and whose header
`basic.h` is missing. Its two protocol files are modelled, with the constants of
that header as parameters; its two programs are not. `provaRand.c` is a trial program.

The children of the server are processes. They share no memory, but the folder
`serverFiles/` and the one name `file_list.txt` that each LIST creates, sends and
removes.

What is hard in this code: lost, duplicated and reordered packets; three window
bounds computed in three places; a timer whose state is remembered in a flag that
three activities write; the end of a transfer, where the sender needs one last
datagram that is sent once; what is left in sockets, buffers and pending signals
when the next transfer or request begins; files that another child creates,
truncates, fills or removes between two system calls. `PROJECT.json` lists each hazard at its
line with the properties that cover it, or why none does.

## 2. The modules

| module | models | grain |
|---|---|---|
| `FileDelivery` | what one transfer promises | abstract: hold every packet, write the file, report |
| `Transfer` | `sender()` and `receiver()` over the network | one loop iteration or one run of the handler per step |
| `MCTransfer` | files of 0, 2, 3, 4 packets for TLC | |
| `TransferProofs` | theorems about `Transfer` | |
| `SenderThreads` | the sending process alone, over several transfers | one access to shared state per step |
| `SenderThreadsProofs` | theorems about `SenderThreads` | |
| `FileService` | what a session promises its user | abstract: ask for a file, get it or a true refusal |
| `Session` | client and server, connection to disconnection | one message per step, a transfer is one packet |
| `MCSession` | file names of three to nine characters for TLC | |
| `SessionProofs` | a theorem about `Session`: any user | |
| `PatientSessionProofs` | theorems about `Session`: a user who waits and declines with care | |
| `FileStore` | the children of the server on `serverFiles/` and `file_list.txt` | one system call on a file per step |
| `MCFileStore` | two children and two names for TLC | |
| `FileStoreProofs` | theorems about `FileStore`: the files | |
| `FileReadersProofs` | theorems about `FileStore`: what LIST and GET read | |
| `StreamDelivery` | what one transfer of the earlier protocol promises | abstract: write in order, finish, accept, give up |
| `SelectiveRepeat` | `jacSender.c` and `jacReceiver.c` over the network | one call of `send_window`, `recv_ack` or `recv_window` per step |
| `SelectiveRepeatProofs` | theorems about `SelectiveRepeat` | |
| `Rto` | the retransmission timeout, with its theorem | one update per step |

`Transfer` is one transfer with everything between the two sides; the others meet
it at its ends. `SenderThreads` replaces its sender by a finer one and its receiver
by the acknowledgements it owes. `Session` and `FileStore` replace each transfer
by what it does to a session and to a file.

### Transfer and FileDelivery

The variables keep the names of the code; sequence numbers count from 1, so that
`check_pkt[s]` is the code's `check_pkt[s-1]`. Actions of the sender: `SendWindow`,
`SendNext`, `LeaveWindow` (the loop of `send_window`), `EndTransmission`;
`TimerExpires` and `TimeoutRoutine`, with `sigalrm` between them: `set_timer(0)` does not
take the signal back; `ReceiveNewAck`, `CountDuplicateAck`, `FastRetransmit` (the three
ways an iteration of `receive_ack` goes), `StopTransfer` and `StopTimer` (its end, lines 116
and 117). Between `ReceiveNewAck` and `StopTimer`, and while a signal is pending after it,
the handler may run with `SendBase` beyond the file: it indexes the arrays at `tot_pkts`, sends
nothing of the file (the receiver has it all by then), and starts the timer again. Of the receiver: `ReceiveOutOfOrder`,
`ReceiveExpected`, `DiscardPacket` (the three branches of its loop), `WriteFile`,
`ClearJunk`, `JunkTimeout`. The network holds copies of each packet and
acknowledgement, unordered, and loses or duplicates them according to
`NetFaults`; sending has a parameter `lost` for the drop on purpose.

The contents of packets are tags (`Chunk`), the buffer that `calloc` zeroed is
`NoChunk`: enough to tell a packet stored in the wrong place or not at all. The
timer may expire whenever it runs, so every value of the retransmission timeout
that starts the timer is covered. Statistics, printing, and `sent_time` are left out. The
`WindowEnd` of the sender is recomputed from `SendBase` at every use and is the
definition `SendWindowEnd`; `WindowEnd` is the receiver's. `MainThread` here sees
`SendBase` and writes `WindowEnd` in one step: `SenderThreads` drops that.

One thing the code shows when translated: `cumulative_ack` (line 236) loops from
`SendBase-1` after `SendBase` has become `ack_num` (line 109), so its loop is empty
and no packet is ever marked 2. The model keeps the loop with its bounds. Nothing
reads that mark, so nothing follows from it.

`Implements` maps `Transfer` to `FileDelivery`: `stage` is read off the receiver
(`held` when its loop condition is false), `reported` is the sender's end.

### SenderThreads

The same sender, one step per access to the shared state, with a program counter
for the main thread, for the acknowledgement thread of each call of `sender()`,
and for a handler on top of each thread. The preparation of a file is `CountPackets`,
`AllocatePackets` and `FillPackets`: until the second, `pkt` is the array of the file before,
and until the third the new one is not filled, while a signal of the transfer before makes
its handler send from it. `OfThisFile` and `OfNoFile` say what such a send can put on the wire, and
the peer may take a packet that is not of this file (`PeerConfused`, `spoiled`): its number of packets and
its buffers are then those of the packet it took first, so what it answers from then on is any
acknowledgement or none. A packet sent when the peer has left `receiver()` can also wait in its socket
until the next call (`stray`). A thread does not move while a handler
runs on it, and SIGALRM is not delivered to a thread inside its handler. The timer
(`timer`) and the signal it raises (`sigalrm`) are two states: `set_timer(0)` clears
the first only. The handler is installed in the first `send_window` and stays. The
peer is reduced to what it answers: each packet that reaches it is acknowledged
with the first one missing, and nothing once the file is complete. The sockets
are first in first out and the last acknowledgement is the last one sent, so that
a call of `sender()` starts with an empty socket.

### Session

Client and child as programs that exchange messages over three sockets (the
listener's, the child's, the client's). User choices are free (`\E n \in Names`).
A transfer is one data packet, sent up to `MaxCopies` times until its
acknowledgement is read, then what `clear_junk` does. The content of a file is
where it was made. The buffer of the child is modelled by `residue`: whether a
character of an earlier message is left behind the eight bytes that
`memset(buff, 0, sizeof(buff))` clears. The client has such a buffer too
(`clientResidue`): it reads the list into it, as many bytes as there are (`ListLength`, `client.c:80`), and
sends a name as all the `PKT_SIZE` bytes of it (`client.c:123`, `184`), so that what is behind a
short name there arrives behind it here (`tail`). `Length` gives the characters of each name; a name of
exactly eight writes its terminating 0 on the ninth byte. The child reads any datagram as a command by its
first int (`command`), a packet or an acknowledgement included, and the client any datagram as a packet.
A list that is empty falls through to GET in the client (`client.c:78-92`, place `empty_list`).
The network of this module is the machine itself (`SERVER_IP` is 127.0.0.1): no
loss, no reordering. That half a second of silence (`clear_junk`) is longer than
the sender takes to read its acknowledgement is in the guards of
`ClientJunkEnds` and `ChildJunkEnds`; `MAX_RTO` is 0.3 s.

`Implements` maps `Session` to `FileService`, which knows two folders, the name typed last
and what the user waits for: `Wish` is read off the places of the two programs, and a file
still empty, created for a transfer that has not written it, counts as absent
(`Received`). A download happens at once, from the answer on; an upload when the child
has it; a refusal or a "not found" is a step that is possible only when the server's folder
is as it says.

`NobodyStuck` says that no wait is circular: while the client waits, `ClientGoesOn` or
`ServerGoesOn`, the guards of the two programs written out. The one exception
is the list of an empty folder: the list is then an empty file, for which `sender()` has no
packet (see section 5).

### FileStore

Each child is at a place of `main`, between two system calls on files: the scan of
the folder (`ListScan`), open, writes, close and remove of `file_list.txt`
(`ListOpen`, `ListWrite`, `ListWritten`, `ListRemove`); the `lseek` that gives
`sender()` the size and the reads that fill its packets (`Measure`, `ReadPacket`,
`Sent`); the open of GET; the test of PUT, its open with `O_CREAT | O_TRUNC`, the
writes of `receiver()` after the last packet (`PutTest`, `PutCreate`, `Received`,
`PutWrite`, `PutClose`). `Close` ends the child, `GetRefused` is a NOVERW of the
client. A chunk is what one packet carries, a name is one chunk of a list. An open
descriptor has its own offset, and keeps its inode when the name is removed:
`lists` holds every `file_list.txt` there has been, `entry` says which one the
directory names. `contested` is a history variable: the names that two children
have found absent at once. The test and the open of PUT are two steps because an
answer is sent in between (`server.c:174-185`).

What the model shows besides its properties: two children that are given the same
new name both pass the test; each truncates the file, both write it from the start
and either client is told that the upload went well, though `server.c:176` says that
"you can not overwrite files on server". `SettledStays` is the promise with the
window it has, `UncontestedIsWhole` what a file is outside that window. Two LISTs that
overlap may send an empty, a cut or a mixed list: `ListComplete` excludes them by
`opened = 1`, and shows that the removal of the file by another child does no harm.

### SelectiveRepeat

Both sides are loops with one thread each. Slots, counters and marks are those of the
code, `Slot(b, k)` stands for the two cases of the test `base < max`. A packet
carries its slot number and stands for its place in the file. `recvfrom` may time
out at any time, since the values of the timeouts are not known; `ADAPTIVE` changes
only those. The network keeps order, does not duplicate, and loses any
packet: on one that reorders, a packet delayed by a round of the window would be
taken for the one in its slot.

`Implements` maps it to `StreamDelivery`: the file grows in order while the receiver is at
work, the sender finishes only when the file is whole, the receiver accepts only after
that, and either may give up at any moment before.

The resend after a timeout is marked `NON FUNZIONA ANCORA`, does not work yet, in the code
(`jacSender.c:137`). It is modelled as it stands, every packet of the window that is sent
and not acknowledged going back to be sent with `tot_sent` taken back, and the properties hold with it.

The end packet is sent once (`jacSender.c:59-71`: the loop returns at the first
`sendto` that succeeds). If it is lost, the sender has finished and the receiver
returns -1 after `MAX_ERR` timeouts, with the complete file, which
`jacServer.c:143` and `jacClient.c:120` then remove.

### Rto

`update_timeout` in integers: `ALPHA` is 1/8 and `BETA` 1/4, the products are exact in
double precision and cut when assigned to `int64_t`. `AsInt` is the
conversion of a 64-bit value to the parameter `int` of `set_timer`. The module has no
run: the values that matter are those near the largest int, and it is proved.

## 3. What TLC checks

| run | instance | shows |
|---|---|---|
| `transfer_safe` | 3 packets, windows 3 and 3, 2 copies, all faults; 362k states | `TypeOK`, `AckedIsBuffered`, `CountersAgree`, `TimerCovers` hold and `Transfer` implements `FileDelivery` |
| `transfer_live` | 3 packets, windows 2 and 2, 2 copies, every packet and every acknowledgement but the last can be lost; 70k states | `AckedIsBuffered`, `NoFreshPacketDiscarded` hold while the windows slide, and `Termination`: both sides return and the file is copied |
| `transfer_ack_lost` | 2 packets, windows 1, the last acknowledgement can be lost | `Termination` is **violated** |
| `threads_one` | one transfer of 2 packets, window 2 | `FlagTellsTimer` and `Returns` hold within the first transfer |
| `threads_two` | two transfers of 2 packets, window 1; 10.7M states | `TypeOK`, `MainSendsInWindow`, `EndsOnlyWhenDelivered` hold although thread and signals of the first run on into the second; `EndsOnlyWhenDelivered` excepts a second transfer whose peer has taken a packet sent from the wrong array |
| `threads_stop` | one transfer | `TimerStopped` is **violated** |
| `threads_flag` | two transfers | `FlagTellsTimer` is **violated** |
| `session` | names of 3, 8 and 9 characters, seven requests, a patient and cautious user; 16k states | every request is answered, `DownloadsTheFileAsked`, `NeverOverwritten`, `BothClose`, `ChildEndsForAReason`, `NobodyStuck`, `NoLeftoverRead` hold and `Session` implements `FileService` |
| `session_refusal` | two short names, a patient user who declines at any time | `ChildEndsForAReason` is **violated** |
| `session_junk` | a user who does not wait | `JunkIsRetransmission` is **violated** |
| `store` | 2 children, 2 names of which one exists, uploads of 2 packets, 2 requests each; 59k states | `SettledStays`, `UncontestedIsWhole`, `ListComplete`, `EmptyOnlyWhileReceived`, `ServedUnlessEmpty` hold |
| `selective_repeat` | 4 slots, windows of 2, 5 packets, 2 timeouts in a row; 259k states | `WrittenIsPrefix`, `FinishedMeansWhole`, `CountersAgree`, `BothReturn` hold and `SelectiveRepeat` implements `StreamDelivery` |

Bounds. Three packets with windows of three let one be buffered with two missing before it
(`transfer_safe`); with windows of two (`transfer_live`) the windows slide, overlap, stop at
the end of the file (`MIN`), and let the two window ends be apart. Two copies let a stale
one meet a fresh one. Four packets, windows of three and two copies, which do all of it at
once, were checked apart (5M states, three minutes, all of the safety properties), with the
same result. Acknowledgements are sent again and
again, so the three that make a fast retransmission come about with any number of copies. A copy
beyond `MaxCopies` is dropped, which is a loss the protocol has to bear anyway; so
the bound adds no behaviour that a network without it lacks. It removes some,
and the theorems of section 4 hold for every value of it. Two transfers in
`SenderThreads` are enough for one thread to be late by one transfer. `MaxConfused` bounds
the acknowledgements that wait in the socket when a confused peer adds one; the
theorems hold for any value of it. Seven
requests in `Session` are two lists and names that leave something in both buffers,
uploads and downloads of them, a refusal, and a close; names of 3, 8 and 9 characters are on
each side of, and on, the eight bytes cleared. In
`FileStore`, two children are the least that overlap, and two requests of each let one
upload what the other lists, downloads or uploads, before, during and after;
the theorems hold for any number of children, names, packets and requests. In
`SelectiveRepeat`, five packets in four slots bring the slot numbers round with
both windows wrapping; a datagram beyond `Capacity` is lost, and without that
bound (2.4M states) the same properties hold.

Fairness. `Transfer`: the threads run and the timer fires (weak fairness of
their steps, the two at the end of the acknowledgement thread included); the handler runs, and succeeds in sending again and again
(`TimeoutRoutine(FALSE)`), as `LOST_PROB` is 20 and draws are independent; a
datagram that is in the socket again and again is read (strong fairness of
reading, since the network may take it away in between). Nothing is assumed of
losses and duplications. `SenderThreads`: strong fairness of each thread,
because the handler suspends it but the interval of the timer leaves it time;
that of its retransmission as above. `Session`: both programs run, and the user owes nothing. `FileStore`: a child that has a
request goes on (weak fairness of its own system calls and of `Sent`, so that the client of a
list or download is supposed to acknowledge until the end), and neither its user nor the
client of its upload owes anything. `SelectiveRepeat`: both loops run; since a
wait may always time out, nothing is assumed of the network.

Deadlock checking is off in every configuration: a transfer ends, the user stops asking, and
the counters of calls and requests are bounded.

### What the violations show

1. `transfer_ack_lost`: the final acknowledgement is sent once
   (`receiver.c:92`) and `clear_junk` answers nothing; if it is lost the sender
   retransmits for ever.
2. `threads_stop`: a SIGALRM raised just before `set_timer(0)` runs the handler after
   the end. It indexes `pkt` at `tot_pkts` and starts the timer again.
3. `threads_flag`: the acknowledgement thread of the first transfer has cleared
   `fileTransfer` and not yet stopped the timer, which expires. The handler runs on top of that
   thread, clears the flag, sends, starts the timer (`sender.c:229`) and is suspended before
   `isTimerStarted = true` (`sender.c:230`). Meanwhile the main thread stops the timer in
   `end_transmission`, returns, and is called for the next file. The handler goes on and
   sets the flag: no timer runs, and `send_window` (`sender.c:194`) will start none. (The late
   `set_timer(0)` of line 117 can stop a timer of the second transfer too; that takes more
   steps.)
4. `session_refusal`: `memset(buff, 0, sizeof(buff))` clears eight bytes, and NOVERW is eight
   without a 0. LIST leaves the list in the client's buffer; the name of the GET after it is
   sent with what is left of the list behind it; a GET that the user then declines sends NOVERW,
   which the child does not recognise: it answers NFOUND and ends, with the client at
   its menu. Short names and patience do not help; a long name does the same by itself.
5. `session_junk`: a request within half a second of an upload is swallowed.

The passing runs say under which condition the rest holds: `transfer_live` with
the last acknowledgement safe, `threads_one` in the first transfer, `session`
with a user who waits for the server and declines to overwrite a file only while the ninth
byte of the child's buffer is 0 (`Cautious`): for instance before any list and any name of
more than eight characters. No user can see that byte; the condition says exactly when the
program keeps its promises.

`threads_two` and `EndsOnlyWhenDelivered` leave one thing open that is wrong in the code: a signal of the transfer before,
handled between `initialize_send` (`sender.c:77`) and the end of the filling
(`sender.c:174`), sends packet 1 of the old file, with the old number of packets, or a zeroed one. The
receiver that has just been entered takes its size from it (`receiver.c:60`) and
may end with another file, or at once. The model says that the peer may take it, and
nothing of the transfer after that.

## 4. What is proved

`TransferProofs` proves, for every file, every pair of window sizes, every
`MaxCopies` and every `NetFaults`, assuming only the ASSUMEs of `Transfer`:

| theorem | statement |
|---|---|
| `Invariant` | `Spec => []IndInv` |
| `TypeCorrect`, `CountersCorrect`, `AckedCorrect`, `WindowsFit`, `TimerCorrect` | `TypeOK`, `CountersAgree`, `AckedIsBuffered`, `NoFreshPacketDiscarded`, `TimerCovers` are invariants |
| `Refinement` | `Spec => Implements`: a transfer implements `FileDelivery` |

None of the five is inductive. `AckedIsBuffered` needs that the sender's base is
never ahead of the receiver's, which needs that no acknowledgement in flight is
ahead of it; `NoFreshPacketDiscarded` needs where packets in flight can be with
respect to `SendBase`, and that the base is not ahead of the receiver's, so that
the widths of the windows can be compared; `TimerCovers`
needs how `timerArmed`, `sigalrm`, `isTimerStarted`, `fileTransfer`, `SendBase` and the life
of the acknowledgement thread hang together. `IndInv` is

- `TypeOK` and `CountersAgree`;
- `ReceiverInv`: what the receiver's variables say of each other, what is
  buffered has its content, and once the loop is over everything was received
  and the file is the file;
- `NetworkInv`: `SendBase <= ReceiveBase`, acknowledgements in flight are at most
  `ReceiveBase`, packets in flight at most `SendWindowEnd`;
- `SenderInv`: during the transfer the flag is set exactly while the timer runs or its
  signal is pending, and where `SendBase` is at each place of the acknowledgement thread.

The proof has a lemma for what a step does to each part: `SenderTypes`,
`NetworkTypes`, `ReceiverStep`, `NetworkStep`, `SenderStep`, over lemmas about
the helpers (`PutType`, `SendWindowEndBounds`, `SendPacket`, `Arrival`,
`MarkPacket`, `PutInWindow`) and two facts about the state (`AllReceived`: a
counter equal to `TotPkts` means every packet was received; `InFlightStarted`).
`WindowsFit` uses `TRAN_WIN <= RECV_WIN`, which `comm.h` satisfies (32 and 32).

`FileStoreProofs` proves, for any children, names, uploads and requests:

| theorem | statement |
|---|---|
| `TypeCorrect` | `TypeOK`: with the loops over lists and packets inside their bounds |
| `Settled` | `SettledStays`: PUT protects a file that exists and is not being written |
| `Whole` | `UncontestedIsWhole`: a file no two children found absent at once is never mixed or cut |

`TypeCorrect` needs `Descriptors`: what the descriptor of a child is on wherever it
reads or writes, so that nothing is read from a file that is not there.
`Whole` needs `OneWriter`: an uncontested name has at most one child past the test,
the file is absent until that child creates it and holds the first `i` packets of
its upload afterwards. The proof goes by what a step is to a name: of a bystander
(`Bystander`), a test (`PutTestKeepsOneWriter`), or of its writer
(`WriterKeepsOneWriter`, over `WriteNext`: writing the next chunk behind a prefix makes
the next prefix).

`FileReadersProofs` proves, under the same assumptions:

| theorem | statement |
|---|---|
| `EmptyWhileReceived` | `EmptyOnlyWhileReceived`: a download has no packet only during an upload of its file |
| `ListIsComplete` | `ListComplete`: a list that no other child opened meanwhile is whole and in order |

For the first, `EmptyInv`: behind an empty file there is a child that created it and has
written nothing since, since a write at any offset leaves at least one packet. For
the second, `ListInv`: the file a child opened alone (`Alone`) holds the first `i` names it has
scanned (`Lister`), and an open by another child ends `Alone`; a removal does not, since the
descriptor keeps the file (`OthersKeepList`).

`Rto` proves `TimerAlwaysStarted`: with samples of 1 microsecond to `MaxSample`, and
`5 * MaxSample <= INT_MAX` (seven minutes), `set_timer(timeoutInterval)` always starts the
timer, for at most `MAX_RTO`. The invariant `Estimates` bounds the estimate and the
deviation by the samples; an estimate of 1 stays 1 because 7/8 of it and 1/8 of a
sample make 1. The hypotheses are needed: a sample of 0 would bring the estimate down
to 0, which stops the timer, and a clock set back gives an unsigned sample
of almost 2^64, for which nothing is proved.

`SenderThreadsProofs` proves, for any file, window, socket and number of transfers:

| theorem | statement |
|---|---|
| `TypeCorrect` | `TypeOK` |
| `SendsInWindow` | `MainSendsInWindow`: the two unlocked writers of `WindowEnd` never make the main thread leave the window |
| `EndsWhenDelivered` | `EndsOnlyWhenDelivered`: no late thread or signal ends a transfer early, unless the peer has taken a packet sent from the wrong array |
| `FlagCorrect` | `FlagTellsTimer`, when `MaxTransfers = 1` |

The invariant says what each program counter knows. `ThreadsInv`: the thread of an
earlier call has cleared `fileTransfer` already and can only still stop the timer.
`DeliveryInv`: acknowledgements, `SendBase` and `ack_num` are at most the first
packet missing as long as the peer has taken no packet of another file, so that the thread
which finds the file acknowledged is right; in the first transfer it never takes one, as no
signal is raised before `pkt` is filled (`FirstInv`).
`WindowInv`: a `WindowEnd` or a `seen` that is out of date is too small, never too large,
because `SendBase` only grows during a transfer. The packets a peer misses have a
first one by `LeastNumber` (the well-founded order of the library); `SendPacket` is what a
send, from any of its three callers, does to them. `FlagCorrect` adds `FlagInv`: once
covered by the timer, its signal or its handler, the flag stays so until the end of
the file. It needs the hypothesis, as `threads_flag` shows: with a second transfer the
thread of the first may stop the timer.

`SessionProofs` proves `ServerFilesStay`, `NeverOverwritten` for any names of any
length, folders and requests and a user who waits and declines when he likes. A child creates the file whose name it
reads after PUT, so the invariant `PutInv` says that a name follows each PUT
in the socket, even when `clear_junk` has thrown away what was before it, and that
the file the child receives is the empty one it created.

`PatientSessionProofs` proves, for any names, folders, requests and copies, when
`PatientUser` holds (`Patient` and `Cautious` are `TRUE`; names are of any length):

| theorem | statement |
|---|---|
| `ChildServesOn` | `ChildEndsForAReason`: no message makes the child end early |
| `RequestsAreRead` | `NoLeftoverRead`: no packet or acknowledgement is read as a request |
| `RightFile` | `DownloadsTheFileAsked`: the file received is the one asked for |
| `JunkIsCopies` | `JunkIsRetransmission`: `clear_junk` of the server eats no request |
| `InRange` | `TypeOK`, when `MaxRequests > 0`: a socket holds no more than the requests and copies sent |
| `NoCircularWait` | `NobodyStuck`: client and server never wait for each other |
| `Refinement` | `Spec => Implements`: a session is a `FileService` |

The proof has four invariants, each inductive given those before it.

- `IInv`, of `SessionProofs`: the types and what a PUT is followed by.
- `PatientInv` is `Talking` and `Heard`. The second says that a refusal which the child has not read
  finds its ninth byte 0: nothing but names and lists changes that byte, and neither comes
  between a refusal and its reading (`RefusalsSent`, `RefusalsRead`). The first says what the three sockets hold at each pair of places, in five
  phases: `Connecting`, `Requesting`, `Downloading`, `Uploading`, `Leaving`. In `Requesting` the
  client may be ahead of the child by any number of refused downloads, so the child's
  socket, with the GET it has begun (`Unread`), is some number of GET and NOVERW pairs
  (`Refusals`) and then what the client has sent of its last request (`Asked`): it grows
  at its end by `LastRefusal`, and is read from its front by `FirstRefusal`. In the two
  transfers a socket holds `Copies` of one packet.
- `FolderInv` says where a file may be empty: at the client only the one it
  downloads, at the server only the one its child receives; and of which file the
  packets in the sockets are. `Refinement` needs it to say that what arrives is the file, and that
  a file is only missing when the answer says so.
- `CountInv` counts the messages of each socket by the requests and copies made, which
  gives the bound of `TypeOK`.

`NoCircularWait` follows from the first three: at each pair of places in which the client
waits, the phase names the message or the packet. It is about the guards of the code,
written out, because ENABLED is beyond the provers; TLC checks the same formula on
`session`, and `Answered` adds that the steps are taken. `Refinement` has a lemma for each
side (`UserServes`, `ClientServes`, `ServerServes`): which steps are visible in the folders
and which stutter. The assumption `MaxRequests > 0` of `InRange` is there because the
bound of `TypeOK` is 0 for a session without a request and copies, which sends SYN all the same.
Both parts of `PatientUser` are needed by some theorem: without the first `session_junk`
violates `JunkIsRetransmission`, without the second `session_refusal` violates
`ChildEndsForAReason`.

`SelectiveRepeatProofs` proves, for any file, any `N >= 4` slots, any `MAX_ERR`, any losses and
timeouts at any time:

| theorem | statement |
|---|---|
| `Invariant` | `Spec => []IInv` |
| `TypeCorrect` | `TypeOK` |
| `WritesTheFile` | `WrittenIsPrefix`: a slot number never brings a packet of another round |
| `CountersCorrect` | `CountersAgree` |
| `FinishedCorrect` | `FinishedMeansWhole` |
| `Refinement` | `Spec => Implements`: a transfer is a `StreamDelivery` |

Packets are known by their slot alone, so the proof is about packets, `At(i)` being the slot
of packet `i`, and shows that a slot says which packet is meant. Packets less than `N`
apart have different slots (`SameSlot`, from the uniqueness of a quotient, `Division`),
and the two windows together are at most `N` wide. `Windows` keeps the two bases within
one window of each other; `PacketsInv` and `AcksInv` say that what is in flight is less
than one window behind anything received, or acknowledged, and that, the network being
first in first out, so is each datagram behind those before it. The file index of an
acknowledgement is not in the state, so `AcksInv` says that there is one. What arrives
is then less than two windows away from the base it is compared with, which is
the hypothesis of `SameSlot`. `SenderInv` and `ReceiverInv` say what the arrays hold of
the window; the counters follow because the slots of `N` packets in a row are as many as
the packets (`SlotsOf`, a bijection), and `UnsentIs` shows that the test `tot_sent < tot_pkts`
stops the loop of `send_window` exactly at the end of the file. `AckMoves` and `ReceiverMoves`
are the moves of the two windows. `Refinement` rests on `Inductive`, on `WrittenIs` (what is written is
the first `Len(written)` packets, before and after a step) and on `WholeWhenFinished`.

Only model-checked: liveness (`Termination`, `Returns`, `Answered`, `BothClose`,
`ServedUnlessEmpty`, `BothReturn`), which TLAPS does not reach. Every other property of a passing
run is proved, on the hypotheses named above.

## 5. What is not modelled

- A clock that is set during a transfer (see `Rto`). In `Transfer` and `SenderThreads` the
  timer may expire whenever it runs, which covers every estimate that starts it.
- The sessions of the earlier version (`jacServer.c`, `jacClient.c`): not compiled, and
  replaced by the programs of `Session`.
- An empty file: it has no packet, so the receiver waits for ever for one and the
  sender for an acknowledgement. `Transfer` has this behaviour (`File` may be
  empty; the theorems cover it); `Termination` is checked on other files.
- Lost messages of the session: each is sent once and waited for without a
  timeout, so a loss blocks the side that waits. There is no property to check.
- Failures of `recvfrom`, `fork`, `open`, `write`; folder listings, printing.

## 6. Plan

1. `Session`: theorems on weaker hypotheses than `PatientUser`. `DownloadsTheFileAsked` and
   `TypeOK` should need none of it, `ChildEndsForAReason` and `Implements` only `Cautious`,
   `JunkIsRetransmission` only `Patient`. The proof needs an invariant
   that says which message may follow which in the child's socket, in place of
   `Requesting`, since `clear_junk` may have thrown away the front of it.
2. `SenderThreads`: a peer with the buffers it has when it has taken a packet of another file, in
   place of `PeerConfused`, to say which file is received.
