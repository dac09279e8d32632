------------------------------- MODULE Session -------------------------------
(***************************************************************************)
(* One session between the client (src/client.c) and the server            *)
(* (src/server.c): connection, the menu of requests, disconnection.  The   *)
(* server is the process that listens and the child it forks, which serves *)
(* the client on a socket of its own, port included.                       *)
(*                                                                         *)
(* Only the data packets of a transfer are ever dropped on purpose; the    *)
(* messages of the session are sent once and waited for without a timeout. *)
(* The network here is the machine itself: it keeps messages in order and  *)
(* loses none.  A transfer (module Transfer) is one packet, which may be   *)
(* sent again until its acknowledgement is read, and what clear_junk does. *)
(***************************************************************************)
EXTENDS Integers, Sequences, FiniteSetsExt

CONSTANTS
  Names,         \* the file names a user may type
  Length,        \* how many characters each name has
  ServerFolder,  \* files in serverFiles/ at the start
  ClientFolder,  \* files in clientFiles/ at the start
  Patient,       \* TRUE: the user lets clear_junk of the server end before a request
  Cautious,      \* TRUE: the user declines to overwrite only if the refusal will be understood
  MaxRequests,   \* bound: requests of the user
  MaxCopies      \* bound: times a data packet is sent

ASSUME FolderAssumption ==
  ServerFolder \subseteq Names /\ ClientFolder \subseteq Names /\ Length \in [Names -> Nat \ {0}]
ASSUME BoundsAssumption ==
  /\ Patient \in BOOLEAN /\ Cautious \in BOOLEAN
  /\ MaxRequests \in Nat /\ MaxCopies \in Nat \ {0}

\* What a file holds: where its content was made, or nothing at all.
Content == {"absent", "empty", "fromServer", "fromClient"}

\* A name is sent as all the PKT_SIZE bytes of buff: tail tells whether the ninth is not 0.
Message(type, arg) == [type |-> type, arg |-> arg, tail |-> FALSE]
Command(type) == Message(type, "none")
Name(n, tail) == [type |-> "name", arg |-> n, tail |-> tail]

VARIABLES
  client,       \* where the client is in main
  clientName,   \* the name the user has typed
  clientResidue,\* the ninth byte of the client's buff is not 0
  clientFiles,  \* content of each file of clientFiles/
  requests,     \* requests made so far
  child,        \* where the child of the server is, "none" before the fork
  path,         \* the file the child works on
  residue,      \* the ninth byte of the child's buff is not 0
  payload,      \* what the child's sender sends
  serverFiles,  \* content of each file of serverFiles/
  copies,       \* times the current data packet has been sent
  toListener, toChild, toClient   \* messages in the three sockets, in order

clientVars == <<client, clientName, clientResidue, clientFiles, requests>>
childVars == <<child, path, residue, payload, serverFiles>>
net == <<toListener, toChild, toClient>>
vars == <<clientVars, childVars, copies, net>>

FromChild(type) == toChild # << >> /\ Head(toChild).type = type

-----------------------------------------------------------------------------
(* Connection: client_reliable_conn, server_reliable_conn.                   *)

ClientSyn ==
  /\ client = "start"
  /\ toListener' = Append(toListener, Command("syn"))
  /\ client' = "synack"
  /\ UNCHANGED <<clientName, clientResidue, clientFiles, requests, childVars, copies, toChild, toClient>>

\* The server answers and forks; it does not wait for anything else.
ServerAccept ==
  /\ toListener # << >>
  /\ toListener' = Tail(toListener)
  /\ toClient' = Append(toClient, Command("synack"))
  /\ child' = "starting"
  /\ UNCHANGED <<clientVars, path, residue, payload, serverFiles, copies, toChild>>

\* The child creates its socket and tells the client of it.
ChildReady ==
  /\ child = "starting"
  /\ toClient' = Append(toClient, Command("ready"))
  /\ child' = "request"
  /\ UNCHANGED <<clientVars, path, residue, payload, serverFiles, copies, toListener, toChild>>

\* Any first message that is not SYNACK ends the client.
ClientSynack ==
  /\ client = "synack"
  /\ toClient # << >>
  /\ toClient' = Tail(toClient)
  /\ client' = IF Head(toClient).type = "synack" THEN "ready" ELSE "exited"
  /\ UNCHANGED <<clientName, clientResidue, clientFiles, requests, childVars, copies, toListener, toChild>>

\* Whatever comes next is taken for READY.
ClientReady ==
  /\ client = "ready"
  /\ toClient # << >>
  /\ toClient' = Tail(toClient)
  /\ client' = "menu"
  /\ UNCHANGED <<clientName, clientResidue, clientFiles, requests, childVars, copies, toListener, toChild>>

-----------------------------------------------------------------------------
(* Requests of the user.                                                     *)

\* The user chooses, and types quickly or waits for the server to be quiet.
Ask ==
  /\ client = "menu"
  /\ requests < MaxRequests
  /\ Patient => child # "junk"
  /\ requests' = requests + 1

RequestList ==
  /\ Ask
  /\ toChild' = Append(toChild, Command("list"))
  /\ client' = "listing"
  /\ UNCHANGED <<clientName, clientResidue, clientFiles, childVars, copies, toListener, toClient>>

RequestGet ==
  /\ Ask
  /\ toChild' = Append(toChild, Command("get"))
  /\ client' = "get_name"
  /\ UNCHANGED <<clientName, clientResidue, clientFiles, childVars, copies, toListener, toClient>>

\* memset clears eight bytes of buff, a pointer, and scanf writes the name and a 0: what a
\* longer name, or list, has left behind them stays there.
Typed(n) == Length[n] > 8 \/ (Length[n] < 8 /\ clientResidue)

\* Mutant of RefuseOverwrite: the user is asked for another name, with no new GET.
RefuseOverwrite_again(n) ==
  /\ client = "get_name"
  /\ clientFiles[n] # "absent"
  /\ Cautious => ~residue
  /\ clientResidue' = Typed(n)
  /\ toChild' = Append(toChild, Command("nooverwr"))
  /\ UNCHANGED <<client, clientName, clientFiles, requests, childVars, copies, toListener, toClient>>

\* The user declines to overwrite the file of that name: NOVERW, back to the menu.
RefuseOverwrite(n) ==
  /\ client = "get_name"
  /\ clientFiles[n] # "absent"
  /\ Cautious => ~residue
  /\ clientResidue' = Typed(n)
  /\ toChild' = Append(toChild, Command("nooverwr"))
  /\ client' = "menu"
  /\ UNCHANGED <<clientName, clientFiles, requests, childVars, copies, toListener, toClient>>

\* The name is sent, and the local file made empty before the answer.
NameDownload(n) ==
  /\ client = "get_name"
  /\ clientName' = n /\ clientResidue' = Typed(n)
  /\ toChild' = Append(toChild, Name(n, clientResidue'))
  /\ clientFiles' = [clientFiles EXCEPT ![n] = "empty"]
  /\ client' = "get_reply"
  /\ UNCHANGED <<requests, childVars, copies, toListener, toClient>>

\* NFOUND removes the local file and ends the client.
DownloadReply ==
  /\ client = "get_reply"
  /\ toClient # << >>
  /\ toClient' = Tail(toClient)
  /\ \/ /\ Head(toClient).type = "notfound"
        /\ clientFiles' = [clientFiles EXCEPT ![clientName] = "absent"]
        /\ client' = "exited"
     \/ /\ Head(toClient).type # "notfound"
        /\ client' = "getting"
        /\ UNCHANGED clientFiles
  /\ UNCHANGED <<clientName, clientResidue, requests, childVars, copies, toListener, toChild>>

\* Only a file of the client's folder can be uploaded.
RequestMissing(n) ==
  /\ Ask
  /\ clientFiles[n] = "absent"
  /\ clientResidue' = Typed(n)
  /\ UNCHANGED <<client, clientName, clientFiles, childVars, copies, net>>

\* PUT, then the name.
RequestPut(n) ==
  /\ Ask
  /\ clientFiles[n] # "absent"
  /\ clientName' = n /\ clientResidue' = Typed(n)
  /\ toChild' = toChild \o <<Command("put"), Name(n, clientResidue')>>
  /\ client' = "put_reply"
  /\ UNCHANGED <<clientFiles, childVars, copies, toListener, toClient>>

\* NOVERW cancels the upload, anything else starts it.  Nine bytes are cleared for the
\* answer, so that NOVERW is recognised.
UploadReply ==
  /\ client = "put_reply"
  /\ toClient # << >>
  /\ toClient' = Tail(toClient)
  /\ client' = IF Head(toClient).type = "nooverwr" THEN "menu" ELSE "putting"
  /\ clientResidue' = FALSE
  /\ copies' = 0
  /\ UNCHANGED <<clientName, clientFiles, requests, childVars, toListener, toChild>>

-----------------------------------------------------------------------------
(* The child serves a request.                                               *)

\* A command is the first int of what is read, whatever it is: a packet begins with its
\* number, 1, and an acknowledgement of it is 2, of nothing 1.
command(m) ==
  CASE m.type \in {"data", "ack_none"} -> "list"
    [] m.type = "ack" -> "get"
    [] OTHER -> m.type

\* The ninth byte of buff once a message is in: only names and packets are that long.
ninth(m) ==
  CASE m.type = "name" -> {m.tail}
    [] m.type = "data" -> BOOLEAN
    [] OTHER -> {residue}

Listed == {n \in Names : serverFiles[n] # "absent"}

\* LIST writes the names in buff, each with a new line, in the order of the folder.
NinthListed(before) ==
  IF \E n \in Listed : Length[n] >= 7
    THEN {Length[n] > 7 : n \in {l \in Listed : Length[l] >= 7}} ELSE before

\* Anything that is no command is a wrong request.
ReadRequest ==
  /\ child = "request"
  /\ toChild # << >>
  /\ toChild' = Tail(toChild)
  /\ copies' = 0
  /\ LET m == Head(toChild) IN
       /\ child' = CASE command(m) = "list" -> "sending"
                     [] command(m) = "get" -> "get_name"
                     [] command(m) = "put" -> "put_name"
                     [] command(m) = "close" -> "fin"
                     [] OTHER -> "request"
       /\ residue' \in IF command(m) = "list" THEN NinthListed(ninth(m)) ELSE ninth(m)
       /\ payload' = CASE command(m) # "list" -> payload
                       [] Listed = {} -> "empty"
                       [] OTHER -> "fromServer"
  /\ UNCHANGED <<clientVars, path, serverFiles, toListener, toClient>>

\* Mutant of is_noverw: the refusal is not looked for.
is_noverw_deaf(m) == FALSE

\* memset clears eight bytes here too: NOVERW, eight characters sent without a
\* terminator, is recognised only if the ninth byte is 0.
is_noverw(m) == m.type = "nooverwr" /\ ~residue

\* Mutant of requested: the path of the request before is opened again.
requested_stale(m) == serverFiles[path]

\* What open(path, O_RDONLY) finds under the name received.
requested(m) == serverFiles[m.arg]

\* GET: FOUND and the file, or NFOUND and the end of the child, or a refusal.
ChildGetName ==
  /\ child = "get_name"
  /\ toChild # << >>
  /\ toChild' = Tail(toChild)
  /\ LET m == Head(toChild)
         exists == m.type = "name" /\ requested(m) # "absent"
     IN
       \/ /\ exists
          /\ toClient' = Append(toClient, Command("found"))
          /\ path' = m.arg /\ payload' = requested(m)
          /\ residue' = m.tail
          /\ child' = "sending"
       \/ /\ is_noverw(m)
          /\ child' = "request"
          /\ UNCHANGED <<path, payload, residue, toClient>>
       \/ /\ ~exists /\ ~is_noverw(m)
          /\ toClient' = Append(toClient, Command("notfound"))
          /\ child' = "ended"
          /\ UNCHANGED <<path, payload, residue>>
  /\ UNCHANGED <<clientVars, serverFiles, copies, toListener>>

\* Mutant of present: the file is not looked up before it is created.
present_unchecked(n) == FALSE

\* Mutant of present: the path of the request before is looked up.
present_stale(n) == serverFiles[path] # "absent"

present(n) == serverFiles[n] # "absent"

\* Mutant of refuse_upload: the client is not told.
refuse_upload_mute == UNCHANGED toClient

refuse_upload == toClient' = Append(toClient, Command("nooverwr"))

\* PUT: a file that exists is not overwritten; else it is created, empty.
ChildPutName ==
  /\ child = "put_name"
  /\ toChild # << >>
  /\ toChild' = Tail(toChild)
  /\ LET n == Head(toChild).arg IN
       /\ path' = n /\ residue' = Head(toChild).tail
       /\ \/ /\ present(n)
             /\ refuse_upload
             /\ child' = "request"
             /\ UNCHANGED serverFiles
          \/ /\ ~present(n)
             /\ toClient' = Append(toClient, Command("notfound"))
             /\ serverFiles' = [serverFiles EXCEPT ![n] = "empty"]
             /\ child' = "receiving"
  /\ UNCHANGED <<clientVars, payload, copies, toListener>>

-----------------------------------------------------------------------------
(* The two directions of a transfer, and what clear_junk swallows.           *)

\* An empty file has no packet: nothing is sent and nothing acknowledged.
ChildSends ==
  /\ child = "sending"
  /\ payload # "empty"
  /\ copies < MaxCopies
  /\ copies' = copies + 1
  /\ toClient' = Append(toClient, Message("data", payload))
  /\ UNCHANGED <<clientVars, childVars, toListener, toChild>>

ChildAcked ==
  /\ child = "sending"
  /\ FromChild("ack")
  /\ toChild' = Tail(toChild)
  /\ child' = "request"
  /\ UNCHANGED <<clientVars, path, residue, payload, serverFiles, copies, toListener, toClient>>

\* The list has the name of each file and a new line.
ListLength == MapThenSumSet(LAMBDA n : Length[n] + 1, Listed)

\* LIST and GET: receiver of the client writes the file and acknowledges it.  A message
\* that is no packet has no number of packets: it ends the transfer with nothing written.
\* The whole list is then read in buff, which has been cleared for none of it.
ClientReceives ==
  /\ client \in {"listing", "getting"}
  /\ toClient # << >>
  /\ toClient' = Tail(toClient)
  /\ LET m == Head(toClient)
         isPacket == m.type = "data"
     IN
       /\ toChild' = Append(toChild, Command(IF isPacket THEN "ack" ELSE "ack_none"))
       /\ clientFiles' = IF client = "listing" THEN clientFiles
                         ELSE [clientFiles EXCEPT ![clientName] = IF isPacket THEN m.arg ELSE "empty"]
       /\ clientResidue' = (clientResidue \/ (client = "listing" /\ isPacket /\ ListLength > 8))
       /\ client' = IF client = "listing" /\ ~isPacket THEN "empty_list" ELSE "junk"
  /\ UNCHANGED <<clientName, requests, childVars, copies, toListener>>

ClientJunk ==
  /\ client \in {"junk", "empty_list"}
  /\ toClient # << >>
  /\ toClient' = Tail(toClient)
  /\ UNCHANGED <<clientVars, childVars, copies, toListener, toChild>>

\* Half a second of silence, longer than the sender needs to read the last
\* acknowledgement and to stop its timer (MAX_RTO is 0.3 s).  After a list that is empty
\* case LIST has no break: it goes on as a GET.
ClientJunkEnds ==
  /\ client \in {"junk", "empty_list"}
  /\ toClient = << >>
  /\ child # "sending"
  /\ client' = IF client = "junk" THEN "menu" ELSE "get_name"
  /\ toChild' = IF client = "junk" THEN toChild ELSE Append(toChild, Command("get"))
  /\ UNCHANGED <<clientName, clientResidue, clientFiles, requests, childVars, copies,
                 toListener, toClient>>

\* PUT: the same transfer the other way.
ClientSends ==
  /\ client = "putting"
  /\ clientFiles[clientName] # "empty"
  /\ copies < MaxCopies
  /\ copies' = copies + 1
  /\ toChild' = Append(toChild, Message("data", clientFiles[clientName]))
  /\ UNCHANGED <<clientVars, childVars, toListener, toClient>>

\* sender returns to the menu at once; there is no clear_junk on this side.
ClientAcked ==
  /\ client = "putting"
  /\ toClient # << >> /\ Head(toClient).type = "ack"
  /\ toClient' = Tail(toClient)
  /\ client' = "menu"
  /\ UNCHANGED <<clientName, clientResidue, clientFiles, requests, childVars, copies, toListener, toChild>>

ChildReceives ==
  /\ child = "receiving"
  /\ FromChild("data")
  /\ toChild' = Tail(toChild)
  /\ toClient' = Append(toClient, Command("ack"))
  /\ serverFiles' = [serverFiles EXCEPT ![path] = Head(toChild).arg]
  /\ child' = "junk"
  /\ UNCHANGED <<clientVars, path, residue, payload, copies, toListener>>

\* clear_junk does not look at what it throws away.
ChildJunk ==
  /\ child = "junk"
  /\ toChild # << >>
  /\ toChild' = Tail(toChild)
  /\ UNCHANGED <<clientVars, childVars, copies, toListener, toClient>>

\* Mutant of ChildJunkEnds: one silence is not waited for.
ChildJunkEnds_hasty ==
  /\ child = "junk"
  /\ client # "putting"
  /\ child' = "request"
  /\ UNCHANGED <<clientVars, path, residue, payload, serverFiles, copies, net>>

ChildJunkEnds ==
  /\ child = "junk"
  /\ toChild = << >>
  /\ client # "putting"
  /\ child' = "request"
  /\ UNCHANGED <<clientVars, path, residue, payload, serverFiles, copies, net>>

-----------------------------------------------------------------------------
(* Disconnection: client_reliable_close, server_reliable_close.              *)

RequestClose ==
  /\ Ask
  /\ toChild' = toChild \o <<Command("close"), Command("fin")>>
  /\ client' = "finack"
  /\ UNCHANGED <<clientName, clientResidue, clientFiles, childVars, copies, toListener, toClient>>

\* Mutant of ChildFin: the server's own FIN is not sent.
ChildFin_half ==
  /\ child = "fin"
  /\ toChild # << >>
  /\ toChild' = Tail(toChild)
  /\ LET close == Head(toChild).type = "fin" IN
       /\ toClient' = IF close THEN Append(toClient, Command("ackfin")) ELSE toClient
       /\ child' = IF close THEN "finack" ELSE "ended"
  /\ UNCHANGED <<clientVars, path, residue, payload, serverFiles, copies, toListener>>

\* FIN is answered by FINACK and the server's own FIN.
ChildFin ==
  /\ child = "fin"
  /\ toChild # << >>
  /\ toChild' = Tail(toChild)
  /\ LET close == Head(toChild).type = "fin" IN
       /\ toClient' = IF close THEN toClient \o <<Command("ackfin"), Command("fin")>>
                      ELSE toClient
       /\ child' = IF close THEN "finack" ELSE "ended"
  /\ UNCHANGED <<clientVars, path, residue, payload, serverFiles, copies, toListener>>

ClientFinack ==
  /\ client = "finack"
  /\ toClient # << >>
  /\ toClient' = Tail(toClient)
  /\ client' = IF Head(toClient).type = "ackfin" THEN "fin" ELSE "exited"
  /\ UNCHANGED <<clientName, clientResidue, clientFiles, requests, childVars, copies, toListener, toChild>>

\* Mutant of ClientFin: the last FINACK is not sent.
ClientFin_silent ==
  /\ client = "fin"
  /\ toClient # << >>
  /\ toClient' = Tail(toClient)
  /\ client' = IF Head(toClient).type = "fin" THEN "closed" ELSE "exited"
  /\ UNCHANGED <<clientName, clientResidue, clientFiles, requests, childVars, copies, toListener, toChild>>

ClientFin ==
  /\ client = "fin"
  /\ toClient # << >>
  /\ toClient' = Tail(toClient)
  /\ client' = IF Head(toClient).type = "fin" THEN "closed" ELSE "exited"
  /\ toChild' = IF client' = "closed" THEN Append(toChild, Command("ackfin")) ELSE toChild
  /\ UNCHANGED <<clientName, clientResidue, clientFiles, requests, childVars, copies, toListener>>

\* The child ends, whatever the last message is.
ChildFinack ==
  /\ child = "finack"
  /\ toChild # << >>
  /\ toChild' = Tail(toChild)
  /\ child' = "ended"
  /\ UNCHANGED <<clientVars, path, residue, payload, serverFiles, copies, toListener, toClient>>

-----------------------------------------------------------------------------

Folder(names, content) == [n \in Names |-> IF n \in names THEN content ELSE "absent"]

Init ==
  /\ client = "start" /\ requests = 0
  /\ clientName \in Names /\ path = clientName
  /\ clientFiles = Folder(ClientFolder, "fromClient")
  /\ child = "none" /\ residue = FALSE /\ clientResidue = FALSE /\ payload = "empty"
  /\ serverFiles = Folder(ServerFolder, "fromServer")
  /\ copies = 0
  /\ toListener = << >> /\ toChild = << >> /\ toClient = << >>

\* What a user decides to do.
User ==
  \/ RequestList \/ RequestGet \/ RequestClose
  \/ \E n \in Names : RequestPut(n) \/ RequestMissing(n) \/ RefuseOverwrite(n) \/ NameDownload(n)

Client ==
  \/ ClientSyn \/ ClientSynack \/ ClientReady \/ DownloadReply \/ UploadReply
  \/ ClientReceives \/ ClientJunk \/ ClientJunkEnds
  \/ ClientSends \/ ClientAcked \/ ClientFinack \/ ClientFin

Server ==
  \/ ServerAccept \/ ChildReady \/ ReadRequest \/ ChildGetName \/ ChildPutName
  \/ ChildSends \/ ChildAcked \/ ChildReceives \/ ChildJunk \/ ChildJunkEnds
  \/ ChildFin \/ ChildFinack

Next == User \/ Client \/ Server

Spec == Init /\ [][Next]_vars

\* Both programs run; the user owes nothing.
FairSpec == Spec /\ WF_vars(Client) /\ WF_vars(Server)

-----------------------------------------------------------------------------
(* Properties.                                                               *)

Resting == {"start", "menu", "get_name", "closed", "exited"}

\* Positions, files and messages stay in range; no socket fills up.
TypeOK ==
  /\ client \in Resting \cup {"synack", "ready", "listing", "get_reply", "getting", "junk",
                              "empty_list", "put_reply", "putting", "finack", "fin"}
  /\ child \in {"none", "starting", "request", "get_name", "put_name", "sending",
                "receiving", "junk", "fin", "finack", "ended"}
  /\ clientFiles \in [Names -> Content] /\ serverFiles \in [Names -> Content]
  /\ residue \in BOOLEAN /\ clientResidue \in BOOLEAN /\ payload \in Content
  /\ requests \in 0..MaxRequests /\ copies \in 0..MaxCopies
  /\ \A s \in {toListener, toChild, toClient} : Len(s) <= 2 * MaxRequests + MaxCopies

\* Whatever the user asks for, the client comes back from waiting: no message
\* it waits for is one the server has missed, refused or taken for another.
Answered == (client \notin Resting) ~> (client \in Resting)

\* The child goes on serving until the client has closed the session, or has
\* asked for a file that does not exist (and leaves in its turn).  In
\* particular a refusal to overwrite only cancels the download: "Il client ha
\* rifiutato di sovrascrivere il file" (src/server.c:127).
ChildEndsForAReason ==
  child = "ended" => client \in {"get_reply", "closed", "exited"}

\* What clear_junk throws away is what is left of the transfer, "pacchetti dovuti
\* a precedenti ritrasmissioni" (src/lib/receiver.c:163), never a request.
JunkIsRetransmission ==
  child = "junk" => \A i \in 1..Len(toChild) : toChild[i].type = "data"

\* The child never takes what is left of a transfer for a request, though a command is the
\* first int of any datagram (src/server.c:75) and packets and acknowledgements start with one.
NoLeftoverRead ==
  child = "request" /\ toChild # << >>
    => Head(toChild).type \notin {"data", "ack", "ack_none"}

\* A download leaves the client with the server's file of the name it typed.
DownloadsTheFileAsked ==
  [][ (client = "getting" /\ client' = "junk")
        => clientFiles'[clientName] = serverFiles[clientName] ]_vars

\* A file of the server never changes once it has been received.
NeverOverwritten ==
  [][ \A n \in Names : serverFiles[n] \in {"fromServer", "fromClient"}
        => serverFiles'[n] = serverFiles[n] ]_vars

\* No wait is circular: as long as the client waits, it or the server can go on.  Only the
\* list of an empty folder is never sent, as sender has no packet for an empty file.
ClientGoesOn ==
  \/ client \in {"synack", "ready", "get_reply", "listing", "getting", "put_reply", "finack", "fin"}
     /\ toClient # << >>
  \/ client = "putting" /\ clientFiles[clientName] # "empty" /\ copies < MaxCopies
  \/ client = "putting" /\ toClient # << >> /\ Head(toClient).type = "ack"
  \/ client \in {"junk", "empty_list"} /\ (toClient # << >> \/ child # "sending")

ServerGoesOn ==
  \/ toListener # << >> \/ child = "starting"
  \/ child \in {"request", "get_name", "put_name", "junk", "fin", "finack"} /\ toChild # << >>
  \/ child = "receiving" /\ FromChild("data")
  \/ child = "sending" /\ FromChild("ack")
  \/ child = "sending" /\ payload # "empty" /\ copies < MaxCopies

NobodyStuck ==
  client \notin Resting =>
    \/ ClientGoesOn \/ ServerGoesOn
    \/ client = "listing" /\ child = "sending" /\ payload = "empty"

\* When the client has closed the session, the child ends too.
BothClose == (client = "closed") ~> (child = "ended")

\* A session is a sequence of whole transfers between the two folders, each the one asked
\* for, and every answer to a request is true.  A file being received counts when it is there.
Wish ==
  CASE client \in {"get_reply", "getting"} -> "get"
    [] client = "put_reply" \/ (client = "putting" /\ child = "receiving") -> "put"
    [] client \in {"finack", "fin", "closed", "exited"} -> "over"
    [] OTHER -> "none"

Received(folder) == [n \in Names |-> IF folder[n] = "empty" THEN "absent" ELSE folder[n]]

Service == INSTANCE FileService WITH
  wish <- Wish, name <- clientName,
  clientFiles <- Received(clientFiles), serverFiles <- Received(serverFiles)

Implements == Service!Spec
=============================================================================
