------------------------ MODULE PatientSessionProofs ------------------------
(***************************************************************************)
(* Proofs about Session, for names of any length, when the user waits for  *)
(* clear_junk of the server and declines to overwrite a file only while    *)
(* the child's buff can take the refusal.  PatientInv says that every      *)
(* message is read by the step it is for; FolderInv what the files hold    *)
(* meanwhile; CountInv how many messages there are.  With them the session *)
(* implements the abstract FileService, no wait is circular and no socket  *)
(* fills up.                                                               *)
(***************************************************************************)
EXTENDS SessionProofs

\* Refusals to overwrite that the child has not read: each is a GET and a NOVERW.
Refusal(j) == Command(IF j % 2 = 1 THEN "get" ELSE "nooverwr")
Refusals(q) == [j \in 1 .. 2 * q |-> Refusal(j)]

\* What the client has sent of its last request, as it was before the child began it.
Asked ==
  CASE client = "menu" -> << >>
    [] client = "listing" -> <<Command("list")>>
    [] client = "get_name" -> <<Command("get")>>
    [] client = "get_reply" -> <<Command("get"), Name(clientName, clientResidue)>>
    [] client = "put_reply" -> <<Command("put"), Name(clientName, clientResidue)>>
    [] client = "finack" -> <<Command("close"), Command("fin")>>

\* The requests of the client, with the GET that the child has begun.
Unread == IF child = "get_name" THEN <<Command("get")>> \o toChild ELSE toChild

\* Copies of one packet.
Copies(s, v) == \A j \in 1 .. Len(s) : s[j] = Message("data", v)

Connecting ==
  /\ toChild = << >>
  /\ \/ client = "start" /\ child = "none" /\ toListener = << >> /\ toClient = << >>
     \/ client = "synack" /\ child = "none" /\ toListener = <<Command("syn")>> /\ toClient = << >>
     \/ /\ toListener = << >>
        /\ \/ client = "synack" /\ child = "starting" /\ toClient = <<Command("synack")>>
           \/ client = "ready" /\ child = "starting" /\ toClient = << >>
           \/ /\ client = "synack" /\ child = "request"
              /\ toClient = <<Command("synack"), Command("ready")>>
           \/ client = "ready" /\ child = "request" /\ toClient = <<Command("ready")>>

Requesting ==
  /\ child \in {"request", "get_name"}
  /\ client \in {"menu", "listing", "get_name", "get_reply", "put_reply", "finack"}
  /\ toListener = << >> /\ toClient = << >>
  /\ \E q \in Nat : Unread = Refusals(q) \o Asked

Downloading ==
  /\ toListener = << >>
  /\ \/ /\ client \in {"listing", "getting"} /\ child = "sending"
        /\ toChild = << >> /\ Copies(toClient, payload)
     \/ /\ client = "get_reply" /\ child = "sending" /\ toChild = << >>
        /\ toClient # << >> /\ Head(toClient) = Command("found")
        /\ Copies(Tail(toClient), payload)
     \/ /\ client = "junk" /\ child = "sending"
        /\ toChild = <<Command("ack")>> /\ Copies(toClient, payload)
     \/ /\ client = "junk" /\ child = "request"
        /\ toChild = << >> /\ Copies(toClient, payload)
  /\ client \in {"get_reply", "getting"} => path = clientName /\ payload = serverFiles[path]

Uploading ==
  /\ toListener = << >>
  /\ \/ /\ client = "put_reply" /\ toChild = << >>
        /\ \/ child = "request" /\ toClient = <<Command("nooverwr")>>
           \/ child = "receiving" /\ toClient = <<Command("notfound")>>
     \/ /\ client = "put_reply" /\ child = "put_name"
        /\ toChild = <<Name(clientName, clientResidue)>> /\ toClient = << >>
     \/ /\ Copies(toChild, clientFiles[clientName])
        /\ \/ client = "putting" /\ child = "receiving" /\ toClient = << >>
           \/ client = "putting" /\ child = "junk" /\ toClient = <<Command("ack")>>
           \/ client = "menu" /\ child = "junk" /\ toClient = << >>

Leaving ==
  /\ toListener = << >>
  /\ \/ client = "finack" /\ child = "fin" /\ toChild = <<Command("fin")>> /\ toClient = << >>
     \/ /\ client = "finack" /\ child = "finack" /\ toChild = << >>
        /\ toClient = <<Command("ackfin"), Command("fin")>>
     \/ client = "fin" /\ child = "finack" /\ toChild = << >> /\ toClient = <<Command("fin")>>
     \/ client = "closed" /\ child = "finack" /\ toChild = <<Command("ackfin")>> /\ toClient = << >>
     \/ client \in {"closed", "exited"} /\ child = "ended" /\ toChild = << >> /\ toClient = << >>
     \/ /\ client = "get_reply" /\ child = "ended" /\ toChild = << >>
        /\ toClient = <<Command("notfound")>>

Talking == Connecting \/ Requesting \/ Downloading \/ Uploading \/ Leaving

\* The refusals that the child has not read find its ninth byte 0.
NoRefusal(s) == \A j \in 1 .. Len(s) : s[j].type # "nooverwr"
Heard == residue = FALSE \/ NoRefusal(toChild)

PatientInv == Talking /\ Heard

\* A user who waits, and declines only what the child will understand.
PatientUser == Patient = TRUE /\ Cautious = TRUE

-----------------------------------------------------------------------------
(* Sockets.                                                                  *)

LEMMA OneMessage ==
  ASSUME NEW x
  PROVE  /\ <<x>> # << >> /\ Head(<<x>>) = x /\ Tail(<<x>>) = << >>
         /\ Append(<< >>, x) = <<x>> /\ << >> \o <<x>> = <<x>>
OBVIOUS

\* Elements, to compare sequences by.
LEMMA Elements ==
  ASSUME NEW s \in Seq(Messages), NEW t \in Seq(Messages)
  PROVE  /\ s \o t \in Seq(Messages) /\ Len(s \o t) = Len(s) + Len(t)
         /\ \A j \in 1 .. Len(s) : (s \o t)[j] = s[j]
         /\ \A j \in 1 .. Len(t) : (s \o t)[Len(s) + j] = t[j]
OBVIOUS

LEMMA Same ==
  ASSUME NEW s \in Seq(Messages), NEW t \in Seq(Messages), Len(s) = Len(t),
         \A j \in 1 .. Len(s) : s[j] = t[j]
  PROVE  s = t
OBVIOUS

LEMMA TwoMessages ==
  ASSUME NEW x \in Messages, NEW y \in Messages
  PROVE  /\ <<x, y>> # << >> /\ Head(<<x, y>>) = x /\ Tail(<<x, y>>) = <<y>>
         /\ Append(<<x>>, y) = <<x, y>> /\ << >> \o <<x, y>> = <<x, y>>
         /\ <<x>> \o <<y>> = <<x, y>> /\ <<x>> \o << >> = <<x>>
<1> DEFINE t == <<x, y>>
<1>1. /\ t \in Seq(Messages) /\ Len(t) = 2 /\ t[1] = x /\ t[2] = y
      /\ <<x>> \in Seq(Messages) /\ Len(<<x>>) = 1 /\ <<x>>[1] = x
      /\ <<y>> \in Seq(Messages) /\ Len(<<y>>) = 1 /\ <<y>>[1] = y
  OBVIOUS
<1>2. t # << >> /\ Head(t) = x /\ Tail(t) = <<y>> /\ << >> \o t = t /\ <<x>> \o << >> = <<x>>
  OBVIOUS
<1>3. \A u, v \in Seq(Messages) : Append(u, y) = u \o <<y>>
  OBVIOUS
<1> HIDE DEF t
<1>4. <<x>> \o <<y>> = t
  <2>1. /\ <<x>> \o <<y>> \in Seq(Messages) /\ Len(<<x>> \o <<y>>) = 2
        /\ (<<x>> \o <<y>>)[1] = x /\ (<<x>> \o <<y>>)[1 + 1] = y
    BY <1>1, Elements
  <2>2. \A j \in 1 .. 2 : (<<x>> \o <<y>>)[j] = t[j]
    BY <1>1, <2>1
  <2> QED
    BY <1>1, <2>1, <2>2, Same
<1>5. Append(<<x>>, y) = t
  BY <1>1, <1>3, <1>4
<1> QED
  BY <1>2, <1>4, <1>5 DEF t

LEMMA Associative ==
  ASSUME NEW s \in Seq(Messages), NEW t \in Seq(Messages), NEW u \in Seq(Messages)
  PROVE  (s \o t) \o u = s \o (t \o u)
OBVIOUS

LEMMA Prefixed ==
  ASSUME NEW x \in Messages, NEW s \in Seq(Messages)
  PROVE  /\ <<x>> \o s \in Seq(Messages) /\ <<x>> \o s # << >>
         /\ Head(<<x>> \o s) = x /\ Tail(<<x>> \o s) = s
         /\ s # << >> => s = <<Head(s)>> \o Tail(s) /\ Tail(s) \in Seq(Messages)
OBVIOUS

LEMMA RefusalsType ==
  ASSUME NEW q \in Nat
  PROVE  /\ Refusals(q) \in Seq(Messages) /\ Len(Refusals(q)) = 2 * q
         /\ \A j \in 1 .. 2 * q : Refusals(q)[j] = Refusal(j)
         /\ Refusals(0) = << >>
<1>1. \A j \in 1 .. 2 * q : Refusal(j) \in Messages
  BY Commands DEF Refusal, Kinds
<1> QED
  BY <1>1 DEF Refusals

\* The first refusal, and the last one.
LEMMA FirstRefusal ==
  ASSUME NEW q \in Nat
  PROVE  Refusals(q + 1) = <<Command("get"), Command("nooverwr")>> \o Refusals(q)
<1> DEFINE two == <<Command("get"), Command("nooverwr")>>
<1>1. /\ two \in Seq(Messages) /\ Len(two) = 2
      /\ two[1] = Command("get") /\ two[2] = Command("nooverwr")
  BY Commands DEF Kinds
<1> HIDE DEF two
<1> DEFINE s == Refusals(q + 1)
           t == two \o Refusals(q)
<1>q. q + 1 \in Nat /\ 2 * (q + 1) = 2 * q + 2
  OBVIOUS
<1>r. /\ s \in Seq(Messages) /\ Len(s) = 2 * q + 2
      /\ \A j \in 1 .. 2 * q + 2 : s[j] = Refusal(j)
  BY <1>q, RefusalsType, Zenon
<1>t. /\ Refusals(q) \in Seq(Messages) /\ Len(Refusals(q)) = 2 * q
      /\ \A j \in 1 .. 2 * q : Refusals(q)[j] = Refusal(j)
  BY RefusalsType
<1>e. /\ t \in Seq(Messages) /\ Len(t) = 2 + 2 * q /\ t[1] = two[1] /\ t[2] = two[2]
      /\ \A j \in 1 .. 2 * q : t[2 + j] = Refusals(q)[j]
  <2> DEFINE r == Refusals(q)
  <2>1. r \in Seq(Messages) /\ Len(r) = 2 * q
    BY <1>t
  <2> HIDE DEF r
  <2> DEFINE w == two \o r
  <2>3. /\ w \in Seq(Messages) /\ Len(w) = Len(two) + Len(r)
        /\ \A j \in 1 .. Len(two) : w[j] = two[j]
        /\ \A j \in 1 .. Len(r) : w[Len(two) + j] = r[j]
    BY <1>1, <2>1, Elements, Zenon
  <2> HIDE DEF w
  <2>2. /\ w \in Seq(Messages) /\ Len(w) = 2 + 2 * q
        /\ w[1] = two[1] /\ w[2] = two[2]
        /\ \A j \in 1 .. 2 * q : w[2 + j] = r[j]
    BY <1>1, <2>1, <2>3
  <2> QED
    BY <2>2 DEF r, w
<1> HIDE DEF s, t
<1>2. /\ s \in Seq(Messages) /\ Len(s) = 2 * q + 2 /\ t \in Seq(Messages) /\ Len(t) = 2 * q + 2
      /\ \A j \in 1 .. 2 * q + 2 : s[j] = Refusal(j)
      /\ t[1] = Command("get") /\ t[2] = Command("nooverwr")
      /\ \A j \in 1 .. 2 * q : t[2 + j] = Refusal(j)
  BY <1>1, <1>r, <1>t, <1>e
<1>3. ASSUME NEW j \in 1 .. 2 * q + 2 PROVE s[j] = t[j]
  <2>1. CASE j \in {1, 2}
    BY <1>2, <2>1 DEF Refusal
  <2>2. CASE j > 2
    <3>1. j - 2 \in 1 .. 2 * q /\ 2 + (j - 2) = j /\ Refusal(j - 2) = Refusal(j)
      BY <2>2 DEF Refusal
    <3> QED
      BY <1>2, <3>1
  <2> QED
    BY <2>1, <2>2
<1>4. s = t
  BY <1>2, <1>3, Same
<1> QED
  BY <1>4 DEF s, t, two

LEMMA LastRefusal ==
  ASSUME NEW q \in Nat
  PROVE  Refusals(q + 1) = Refusals(q) \o <<Command("get"), Command("nooverwr")>>
<1> DEFINE two == <<Command("get"), Command("nooverwr")>>
<1>1. /\ two \in Seq(Messages) /\ Len(two) = 2
      /\ two[1] = Command("get") /\ two[2] = Command("nooverwr")
  BY Commands DEF Kinds
<1> HIDE DEF two
<1> DEFINE s == Refusals(q + 1)
           t == Refusals(q) \o two
<1>q. q + 1 \in Nat /\ 2 * (q + 1) = 2 * q + 2
  OBVIOUS
<1>r. /\ s \in Seq(Messages) /\ Len(s) = 2 * q + 2
      /\ \A j \in 1 .. 2 * q + 2 : s[j] = Refusal(j)
  BY <1>q, RefusalsType, Zenon
<1>t. /\ Refusals(q) \in Seq(Messages) /\ Len(Refusals(q)) = 2 * q
      /\ \A j \in 1 .. 2 * q : Refusals(q)[j] = Refusal(j)
  BY RefusalsType
<1>e. /\ t \in Seq(Messages) /\ Len(t) = 2 * q + 2
      /\ \A j \in 1 .. 2 * q : t[j] = Refusals(q)[j]
      /\ t[2 * q + 1] = two[1] /\ t[2 * q + 2] = two[2]
  <2> DEFINE r == Refusals(q)
  <2>1. r \in Seq(Messages) /\ Len(r) = 2 * q
    BY <1>t
  <2> HIDE DEF r
  <2> DEFINE w == r \o two
  <2>3. /\ w \in Seq(Messages) /\ Len(w) = Len(r) + Len(two)
        /\ \A j \in 1 .. Len(r) : w[j] = r[j]
        /\ \A j \in 1 .. Len(two) : w[Len(r) + j] = two[j]
    BY <1>1, <2>1, Elements, Zenon
  <2> HIDE DEF w
  <2>2. /\ w \in Seq(Messages) /\ Len(w) = 2 * q + 2
        /\ \A j \in 1 .. 2 * q : w[j] = r[j]
        /\ w[2 * q + 1] = two[1] /\ w[2 * q + 2] = two[2]
    BY <1>1, <2>1, <2>3
  <2> QED
    BY <2>2 DEF r, w
<1> HIDE DEF s, t
<1>2. /\ s \in Seq(Messages) /\ Len(s) = 2 * q + 2 /\ t \in Seq(Messages) /\ Len(t) = 2 * q + 2
      /\ \A j \in 1 .. 2 * q + 2 : s[j] = Refusal(j)
      /\ \A j \in 1 .. 2 * q : t[j] = Refusal(j)
      /\ t[2 * q + 1] = Command("get") /\ t[2 * q + 2] = Command("nooverwr")
  BY <1>1, <1>r, <1>t, <1>e
<1>3. ASSUME NEW j \in 1 .. 2 * q + 2 PROVE s[j] = t[j]
  <2>1. CASE j \in {2 * q + 1, 2 * q + 2}
    <3>1. Refusal(2 * q + 1) = Command("get") /\ Refusal(2 * q + 2) = Command("nooverwr")
      BY DEF Refusal
    <3> QED
      BY <1>2, <2>1, <3>1
  <2>2. CASE j \in 1 .. 2 * q
    BY <1>2, <2>2
  <2> QED
    BY <2>1, <2>2
<1>4. s = t
  BY <1>2, <1>3, Same
<1> QED
  BY <1>4 DEF s, t, two

-----------------------------------------------------------------------------
(* Steps.                                                                    *)

\* Where the other side is, for each place of one side.
LEMMA Phases ==
  ASSUME PatientInv
  PROVE  /\ client \in {"start", "synack", "ready"} => Connecting
         /\ client \in {"menu", "get_name"} /\ child # "junk" => Requesting
         /\ client = "get_name" => child # "junk"
         /\ child \in {"get_name"} => Requesting
         /\ child = "request" /\ toChild # << >> => Requesting
         /\ child \in {"none", "starting"} => Connecting
         /\ child \in {"put_name", "receiving", "junk"} => Uploading
         /\ child \in {"fin", "finack", "ended"} => Leaving
         /\ child = "sending" => Downloading
         /\ client \in {"getting", "junk", "empty_list"} => Downloading
         /\ client = "listing" /\ toClient # << >> => Downloading
         /\ client = "get_reply" /\ toClient # << >> => Downloading \/ Leaving
         /\ client = "putting" => Uploading
         /\ client = "put_reply" /\ toClient # << >> => Uploading
         /\ client = "finack" /\ toClient # << >> => Leaving
         /\ client = "fin" => Leaving
         /\ toListener # << >> => Connecting
BY DEF PatientInv, Talking, Connecting, Requesting, Downloading, Uploading, Leaving

LEMMA InitPatient == Init => PatientInv
BY DEF Init, PatientInv, Talking, Connecting, Heard

\* The client at its menu, the child waiting, and nothing in the sockets.
LEMMA Quiet ==
  ASSUME client' = "menu", child' = "request",
         toListener' = << >>, toChild' = << >>, toClient' = << >>
  PROVE  Talking'
<1>1. Unread' = << >> /\ Asked' = << >>
  BY DEF Unread, Asked
<1>2. << >> \o << >> = << >> /\ 0 \in Nat
  OBVIOUS
<1>3. Unread' = Refusals(0) \o Asked'
  BY <1>1, <1>2, RefusalsType
<1> QED
  BY <1>2, <1>3 DEF Talking, Requesting

LEMMA ConnectionSteps ==
  ASSUME IInv, PatientInv,
         ClientSyn \/ ServerAccept \/ ChildReady \/ ClientSynack \/ ClientReady
  PROVE  Talking'
<1>0. Connecting
  BY Phases DEF Talking, ClientSyn, ServerAccept, ChildReady, ClientSynack, ClientReady
<1>1. CASE ClientSyn
  BY <1>0, <1>1, OneMessage DEF ClientSyn, Talking, Connecting, childVars
<1>2. CASE ServerAccept
  BY <1>0, <1>2, OneMessage DEF ServerAccept, Talking, Connecting, clientVars
<1>3. CASE ChildReady
  <2>1. Append(<<Command("synack")>>, Command("ready")) = <<Command("synack"), Command("ready")>>
    BY TwoMessages, Commands DEF Kinds
  <2> QED
    BY <1>0, <1>3, <2>1, OneMessage DEF ChildReady, Talking, Connecting, clientVars
<1>4. CASE ClientSynack
  <2>1. LET two == <<Command("synack"), Command("ready")>>
        IN  Head(two).type = "synack" /\ Tail(two) = <<Command("ready")>>
    BY TwoMessages, Commands DEF Kinds
  <2>2. Command("synack").type = "synack"
    BY DEF Command, Message
  <2> QED
    BY <1>0, <1>4, <2>1, <2>2, OneMessage DEF ClientSynack, Talking, Connecting, childVars
<1>5. CASE ClientReady
  <2>1. /\ child' = "request" /\ client' = "menu"
        /\ toListener' = << >> /\ toClient' = << >> /\ toChild' = << >>
    BY <1>0, <1>5, OneMessage DEF ClientReady, Connecting, childVars
  <2> QED
    BY <2>1, Quiet
<1> QED
  BY <1>1, <1>2, <1>3, <1>4, <1>5

\* What the client adds to its requests.
LEMMA Speak ==
  ASSUME IInv, NEW t \in Seq(Messages), child' = child, toChild' = toChild \o t,
         NEW q \in Nat, NEW a \in Seq(Messages), Unread = Refusals(q) \o a
  PROVE  Unread' = Refusals(q) \o (a \o t)
<1>1. toChild \in Seq(Messages) /\ <<Command("get")>> \in Seq(Messages)
  BY Commands DEF IInv, Types, Kinds
<1>2. Unread' = Unread \o t
  BY <1>1, Associative DEF Unread
<1>3. Refusals(q) \in Seq(Messages)
  BY RefusalsType
<1> QED
  BY <1>2, <1>3, Associative

LEMMA Appended ==
  ASSUME NEW s \in Seq(Messages), NEW m \in Messages
  PROVE  Append(s, m) = s \o <<m>> /\ <<m>> \in Seq(Messages) /\ s \o << >> = s /\ << >> \o s = s
OBVIOUS

\* The client at its menu, or asking for a name, while the child serves.
LEMMA AtMenu ==
  ASSUME IInv, PatientInv, client \in {"menu", "get_name"}, child # "junk"
  PROVE  /\ child \in {"request", "get_name"} /\ toListener = << >> /\ toClient = << >>
        
         /\ \E q \in Nat : Unread = Refusals(q) \o
              (IF client = "menu" THEN << >> ELSE <<Command("get")>>)
<1>1. Requesting
  BY Phases DEF Talking
<1>2. Asked = IF client = "menu" THEN << >> ELSE <<Command("get")>>
  BY DEF Asked
<1> QED
  BY <1>1, <1>2 DEF Requesting

LEMMA MenuSteps ==
  ASSUME IInv, PatientInv, PatientUser, Ask,
         RequestList \/ RequestGet \/ RequestClose \/ \E n \in Names : RequestPut(n)
  PROVE  Talking'
<1>1. client = "menu" /\ child # "junk"
  BY DEF Ask, PatientUser
<1>2. /\ child \in {"request", "get_name"} /\ toListener = << >> /\ toClient = << >>
      /\ child' = child /\ toListener' = << >> /\ toClient' = << >>
     
  BY <1>1, AtMenu DEF RequestList, RequestGet, RequestClose, RequestPut, childVars
<1>3. PICK q \in Nat : Unread = Refusals(q) \o << >>
  BY <1>1, AtMenu
<1>4. toChild \in Seq(Messages) /\ << >> \in Seq(Messages)
  BY DEF IInv, Types
<1>5. /\ client' \in {"listing", "get_name", "put_reply", "finack"}
      /\ toChild' = toChild \o Asked' /\ Asked' \in Seq(Messages)
  <2>1. \A type \in {"list", "get", "put", "close", "fin"} : Command(type) \in Messages
    BY Commands DEF Kinds
  <2>2. CASE RequestList
    BY <1>4, <2>1, <2>2, Appended DEF RequestList, Asked
  <2>3. CASE RequestGet
    BY <1>4, <2>1, <2>3, Appended DEF RequestGet, Asked
  <2>4. CASE RequestClose
    BY <1>4, <2>1, <2>4 DEF RequestClose, Asked
  <2>5. ASSUME NEW n \in Names, RequestPut(n)
        PROVE  /\ client' = "put_reply" /\ toChild' = toChild \o Asked'
               /\ Asked' \in Seq(Messages)
    <3>1. clientResidue' \in BOOLEAN
      BY <2>5 DEF RequestPut, Typed
    <3> QED
      BY <1>4, <2>1, <2>5, <3>1, NameMessages DEF RequestPut, Asked
  <2> QED
    BY <2>2, <2>3, <2>4, <2>5
<1>6. Unread' = Refusals(q) \o Asked'
  <2>1. Unread' = Refusals(q) \o (<< >> \o Asked')
    BY <1>2, <1>3, <1>4, <1>5, Speak
  <2>2. \A t \in Seq(Messages) : << >> \o t = t
    OBVIOUS
  <2> QED
    BY <1>5, <2>1, <2>2
<1> QED
  BY <1>2, <1>5, <1>6 DEF Talking, Requesting

LEMMA NameSteps ==
  ASSUME IInv, PatientInv, NEW n \in Names, RefuseOverwrite(n) \/ NameDownload(n)
  PROVE  Talking'
<1>1. client = "get_name" /\ child # "junk"
  BY Phases DEF RefuseOverwrite, NameDownload
<1>2. /\ child \in {"request", "get_name"} /\ child' = child /\ toListener' = << >>
      /\ toClient' = << >>
  BY <1>1, AtMenu DEF RefuseOverwrite, NameDownload, childVars
<1>3. PICK q \in Nat : Unread = Refusals(q) \o <<Command("get")>>
  BY <1>1, AtMenu
<1>4. /\ toChild \in Seq(Messages) /\ Command("get") \in Messages
      /\ Command("nooverwr") \in Messages
  BY Commands DEF IInv, Types, Kinds
<1>5. CASE NameDownload(n)
  <2>0. Name(n, clientResidue') \in Messages
    <3>1. clientResidue' \in BOOLEAN
      BY <1>5 DEF NameDownload, Typed
    <3> QED
      BY <3>1, NameMessages
  <2>1. Unread' = Refusals(q) \o (<<Command("get")>> \o <<Name(n, clientResidue')>>)
    BY <1>2, <1>3, <1>4, <1>5, <2>0, Speak, Appended DEF NameDownload
  <2>2. client' = "get_reply" /\ Asked' = <<Command("get"), Name(n, clientResidue')>>
    BY <1>5 DEF NameDownload, Asked
  <2>3. Unread' = Refusals(q) \o Asked'
    BY <1>4, <2>0, <2>1, <2>2, TwoMessages
  <2> QED
    BY <1>2, <2>2, <2>3 DEF Talking, Requesting
<1>6. CASE RefuseOverwrite(n)
  <2>1. Unread' = Refusals(q) \o (<<Command("get")>> \o <<Command("nooverwr")>>)
    BY <1>2, <1>3, <1>4, <1>6, Speak, Appended DEF RefuseOverwrite
  <2>2. Unread' = Refusals(q + 1)
    BY <1>4, <2>1, TwoMessages, LastRefusal
  <2>3. q + 1 \in Nat
    OBVIOUS
  <2>4. client' = "menu" /\ Asked' = << >>
    BY <1>6 DEF RefuseOverwrite, Asked
  <2>5. Unread' = Refusals(q + 1) \o Asked'
    <3>1. Refusals(q + 1) \in Seq(Messages)
      BY <2>3, RefusalsType
    <3>2. \A s \in Seq(Messages) : s \o << >> = s
      OBVIOUS
    <3> QED
      BY <2>2, <2>4, <3>1, <3>2
  <2> QED
    BY <1>2, <2>3, <2>4, <2>5 DEF Talking, Requesting
<1> QED
  BY <1>5, <1>6

LEMMA MissingStep ==
  ASSUME IInv, PatientInv, PatientUser, NEW n \in Names, RequestMissing(n)
  PROVE  Talking'
<1>1. client = "menu" /\ child # "junk" /\ client' = "menu" /\ UNCHANGED <<child, net>>
  BY DEF RequestMissing, Ask, PatientUser, childVars
<1>2. Requesting /\ Unread' = Unread /\ Asked' = Asked
  BY <1>1, Phases DEF Unread, Asked, net
<1> QED
  BY <1>1, <1>2 DEF Talking, Requesting, net

\* What the child reads of the requests: a refusal, or the last request.
LEMMA FirstUnread ==
  ASSUME IInv, NEW q \in Nat, Requesting, Unread = Refusals(q) \o Asked, Unread # << >>
  PROVE  /\ q > 0 =>
            /\ Unread = <<Command("get")>> \o
                          (<<Command("nooverwr")>> \o (Refusals(q - 1) \o Asked))
            /\ Refusals(q - 1) \o Asked \in Seq(Messages) /\ Command("nooverwr") \in Messages
            /\ Command("get") \in Messages
         /\ q = 0 => Unread = Asked
<1>1. Asked \in Seq(Messages)
  <2>1. /\ \A type \in {"list", "get", "put", "close", "fin"} : Command(type) \in Messages
        /\ Name(clientName, clientResidue) \in Messages
    BY Commands, NameMessages DEF Kinds, IInv, Types
  <2>2. << >> \in Seq(Messages)
    OBVIOUS
  <2> QED
    BY <2>1, <2>2 DEF Asked, Requesting
<1>2. CASE q > 0
  <2>1. q - 1 \in Nat /\ (q - 1) + 1 = q
    BY <1>2
  <2> DEFINE g == Command("get")
             o == Command("nooverwr")
             r == Refusals(q - 1)
  <2>2. g \in Messages /\ o \in Messages
    BY Commands DEF Kinds
  <2>3. r \in Seq(Messages)
    BY <2>1, RefusalsType
  <2>4. Refusals(q) = <<g, o>> \o r
    BY <2>1, FirstRefusal
  <2> HIDE DEF g, o, r
  <2>5. <<g, o>> = <<g>> \o <<o>> /\ <<g>> \in Seq(Messages) /\ <<o>> \in Seq(Messages)
    <3>1. <<g, o>> = <<g>> \o <<o>>
      BY <2>2, TwoMessages
    <3>2. <<g>> \in Seq(Messages) /\ <<o>> \in Seq(Messages)
      BY <2>2
    <3> QED
      BY <3>1, <3>2
  <2>6. Unread = ((<<g>> \o <<o>>) \o r) \o Asked
    BY <2>4, <2>5
  <2>7. Unread = <<g>> \o (<<o>> \o (r \o Asked)) /\ r \o Asked \in Seq(Messages)
    <3> DEFINE A == Asked
    <3>1. A \in Seq(Messages) /\ Unread = ((<<g>> \o <<o>>) \o r) \o A
      BY <1>1, <2>6
    <3> HIDE DEF A
    <3>2. /\ r \o A \in Seq(Messages) /\ <<o>> \o r \in Seq(Messages)
          /\ (<<g>> \o <<o>>) \o r = <<g>> \o (<<o>> \o r)
          /\ (<<g>> \o (<<o>> \o r)) \o A = <<g>> \o ((<<o>> \o r) \o A)
          /\ (<<o>> \o r) \o A = <<o>> \o (r \o A)
      BY <2>3, <2>5, <3>1, Elements, Associative
    <3> QED
      BY <3>1, <3>2 DEF A
  <2> QED
    BY <1>2, <2>2, <2>7 DEF g, o, r
<1>3. CASE q = 0
  <2>1. \A t \in Seq(Messages) : << >> \o t = t
    OBVIOUS
  <2>2. Unread = Asked
    BY <1>1, <1>3, <2>1, RefusalsType
  <2>3. ~ (q > 0)
    BY <1>3
  <2> QED
    BY <2>2, <2>3
<1> QED
  BY <1>2, <1>3

LEMMA RequestStep ==
  ASSUME IInv, PatientInv, PatientUser, ReadRequest
  PROVE  Talking'
<1>1. Requesting /\ Unread = toChild /\ toChild # << >>
  BY Phases DEF ReadRequest, PatientInv, Unread
<1>2. PICK q \in Nat : Unread = Refusals(q) \o Asked
  BY <1>1 DEF Requesting
<1>3. /\ toListener' = << >> /\ toClient' = << >> /\ client' = client /\ clientName' = clientName
      /\ clientResidue' = clientResidue
      /\ toChild' = Tail(toChild)
      /\ client \in {"menu", "listing", "get_name", "get_reply", "put_reply", "finack"}
  BY <1>1 DEF ReadRequest, Requesting, clientVars
<1>4. \A type \in Kinds : Command(type).type = type
  BY DEF Command, Message
<1>6. CASE Head(toChild) = Command("get") /\ toChild = <<Command("get")>> \o Tail(toChild)
  <2>1. child' = "get_name"
    BY <1>4, <1>6 DEF ReadRequest, command, Kinds
  <2>2. Unread' = Refusals(q) \o Asked'
    BY <1>1, <1>2, <1>3, <1>6, <2>1 DEF Unread, Asked
  <2> QED
    BY <1>3, <2>1, <2>2 DEF Talking, Requesting
<1>7. CASE q > 0
  <2> DEFINE t == Refusals(q - 1) \o Asked
             s == <<Command("nooverwr")>> \o t
  <2>2. /\ toChild = <<Command("get")>> \o s /\ t \in Seq(Messages)
        /\ Command("get") \in Messages /\ Command("nooverwr") \in Messages
    BY <1>1, <1>2, <1>7, FirstUnread
  <2> HIDE DEF t
  <2>1. toChild = <<Command("get")>> \o s /\ s \in Seq(Messages) /\ Command("get") \in Messages
    BY <2>2, Prefixed
  <2> HIDE DEF s
  <2> QED
    BY <1>6, <2>1, Prefixed
<1>8. CASE q = 0
  <2>1. toChild = Asked
    BY <1>1, <1>2, <1>8, FirstUnread
  <2>2. /\ \A type \in {"list", "get", "put", "close", "fin"} : Command(type) \in Messages
        /\ Name(clientName, clientResidue) \in Messages
    BY Commands, NameMessages DEF Kinds, IInv, Types
  <2>3. client # "menu"
    BY <1>1, <2>1 DEF Asked
  <2>4. CASE client = "listing"
    <3>1. toChild = <<Command("list")>> /\ Head(toChild).type = "list"
      BY <1>4, <2>1, <2>4, OneMessage DEF Asked, Kinds
    <3>2. toChild' = << >> /\ child' = "sending"
      BY <1>3, <3>1, OneMessage DEF ReadRequest, command
    <3>3. Copies(toClient', payload')
      BY <1>3 DEF Copies
    <3> QED
      BY <1>3, <2>4, <3>2, <3>3 DEF Talking, Downloading
  <2>5. CASE client = "get_name"
    <3>1. toChild = <<Command("get")>>
      BY <2>1, <2>5 DEF Asked
    <3>2. <<Command("get")>> = <<Command("get")>> \o << >>
      BY <2>2, TwoMessages
    <3> QED
      BY <1>6, <3>1, <3>2, OneMessage
  <2>6. CASE client = "get_reply"
    <3>1. toChild = <<Command("get"), Name(clientName, clientResidue)>>
      BY <2>1, <2>6 DEF Asked
    <3> QED
      BY <1>6, <2>2, <3>1, TwoMessages
  <2>7. CASE client = "put_reply"
    <3>1. toChild = <<Command("put"), Name(clientName, clientResidue)>>
      BY <2>1, <2>7 DEF Asked
    <3>2. Head(toChild).type = "put" /\ toChild' = <<Name(clientName, clientResidue)>>
      BY <1>3, <1>4, <2>2, <3>1, TwoMessages DEF Kinds
    <3>3. child' = "put_name"
      BY <3>2 DEF ReadRequest, command
    <3> QED
      BY <1>3, <2>7, <3>2, <3>3 DEF Talking, Uploading
  <2>8. CASE client = "finack"
    <3>1. toChild = <<Command("close"), Command("fin")>>
      BY <2>1, <2>8 DEF Asked
    <3>2. Head(toChild).type = "close" /\ toChild' = <<Command("fin")>>
      BY <1>3, <1>4, <2>2, <3>1, TwoMessages DEF Kinds
    <3>3. child' = "fin"
      BY <3>2 DEF ReadRequest, command
    <3> QED
      BY <1>3, <2>8, <3>2, <3>3 DEF Talking, Leaving
  <2> QED
    BY <1>3, <2>3, <2>4, <2>5, <2>6, <2>7, <2>8
<1> QED
  BY <1>7, <1>8

\* What the child finds when it reads a name: a refusal, or the name of the last download.
LEMMA NameRead ==
  ASSUME IInv, PatientInv, child = "get_name", toChild # << >>
  PROVE  \/ /\ Head(toChild) = Command("nooverwr")
            /\ \E q \in Nat : Tail(toChild) = Refusals(q) \o Asked
         \/ client = "get_reply" /\ toChild = <<Name(clientName, clientResidue)>>
<1>1. Requesting /\ Unread = <<Command("get")>> \o toChild
  BY Phases DEF Unread
<1>2. PICK q \in Nat : Unread = Refusals(q) \o Asked
  BY <1>1 DEF Requesting
<1>3. toChild \in Seq(Messages) /\ Command("get") \in Messages /\ Unread # << >>
  <2>1. toChild \in Seq(Messages) /\ Command("get") \in Messages
    BY Commands DEF IInv, Types, Kinds
  <2> QED
    BY <1>1, <2>1, Prefixed
<1>4. CASE q > 0
  <2> DEFINE t == Refusals(q - 1) \o Asked
             s == <<Command("nooverwr")>> \o t
  <2>1. /\ Unread = <<Command("get")>> \o s /\ t \in Seq(Messages)
        /\ Command("nooverwr") \in Messages
    BY <1>1, <1>2, <1>3, <1>4, FirstUnread
  <2> HIDE DEF t
  <2>2. s \in Seq(Messages) /\ Head(s) = Command("nooverwr") /\ Tail(s) = t
    BY <2>1, Prefixed
  <2> HIDE DEF s
  <2>3. toChild = s
    BY <1>1, <1>3, <2>1, <2>2, Prefixed
  <2>4. q - 1 \in Nat /\ Tail(toChild) = Refusals(q - 1) \o Asked
    BY <1>4, <2>2, <2>3 DEF t
  <2> QED
    BY <2>2, <2>3, <2>4
<1>5. CASE q = 0
  <2>1. Asked = <<Command("get")>> \o toChild
    BY <1>1, <1>2, <1>3, <1>5, FirstUnread
  <2>2. Head(Asked) = Command("get") /\ Tail(Asked) = toChild /\ Tail(Asked) # << >>
    BY <1>3, <2>1, Prefixed
  <2>3. /\ \A type \in {"list", "get", "put", "close", "fin"} :
               Command(type) \in Messages /\ Command(type).type = type
        /\ Name(clientName, clientResidue) \in Messages
    BY Commands, NameMessages DEF Kinds, IInv, Types
  <2>4. client = "get_reply"
    <3>1. client \notin {"listing", "get_name"}
      BY <2>2, OneMessage DEF Asked
    <3>2. client # "menu"
      BY <1>3, <2>1, Prefixed DEF Asked
    <3>3. client = "put_reply" => Head(Asked).type = "put"
      BY <2>3, TwoMessages DEF Asked
    <3>4. client = "finack" => Head(Asked).type = "close"
      BY <2>3, TwoMessages DEF Asked
    <3> QED
      BY <1>1, <2>2, <2>3, <3>1, <3>2, <3>3, <3>4 DEF Requesting
  <2>5. toChild = <<Name(clientName, clientResidue)>>
    BY <2>2, <2>3, <2>4, TwoMessages DEF Asked
  <2> QED
    BY <2>4, <2>5
<1>6. q = 0 \/ q > 0
  OBVIOUS
<1> QED
  BY <1>4, <1>5, <1>6, Zenon

LEMMA GetNameStep ==
  ASSUME IInv, PatientInv, PatientUser, ChildGetName
  PROVE  Talking'
<1>1. Requesting /\ toChild # << >>
  BY Phases DEF ChildGetName, PatientInv
<1>2. /\ toListener' = << >> /\ toClient = << >> /\ client' = client /\ clientName' = clientName
      /\ clientResidue' = clientResidue
      /\ serverFiles' = serverFiles /\ toChild' = Tail(toChild)
      /\ client \in {"menu", "listing", "get_name", "get_reply", "put_reply", "finack"}
  BY <1>1 DEF ChildGetName, Requesting, clientVars
<1>3. ASSUME Head(toChild) = Command("nooverwr"),
             NEW q \in Nat, Tail(toChild) = Refusals(q) \o Asked
      PROVE  Talking'
  <2>1. child' = "request" /\ toClient' = << >>
    <3>1. residue = FALSE
      <4>1. toChild[1].type = "nooverwr" /\ 1 \in 1 .. Len(toChild)
        BY <1>1, <1>3 DEF IInv, Types, Command, Message
      <4> QED
        BY <4>1 DEF PatientInv, Heard, NoRefusal
    <3> QED
      BY <1>1, <1>2, <1>3, <3>1 DEF ChildGetName, is_noverw, Command, Message
  <2>2. Unread' = Refusals(q) \o Asked'
    BY <1>2, <1>3, <2>1 DEF Unread, Asked
  <2> QED
    BY <1>2, <2>1, <2>2 DEF Talking, Requesting
<1>4. CASE client = "get_reply" /\ toChild = <<Name(clientName, clientResidue)>>
  <2>1. /\ Head(toChild).type = "name" /\ Head(toChild).arg = clientName
        /\ toChild' = << >> /\ ~is_noverw(Head(toChild))
    BY <1>2, <1>4, OneMessage DEF Name, is_noverw
  <2>2. CASE serverFiles[clientName] # "absent"
    <3>1. /\ child' = "sending" /\ path' = clientName /\ payload' = serverFiles[clientName]
          /\ toClient' = <<Command("found")>>
      BY <1>2, <2>1, <2>2, OneMessage DEF ChildGetName, requested
    <3>2. /\ toClient' # << >> /\ Head(toClient') = Command("found") /\ Tail(toClient') = << >>
      BY <3>1, OneMessage
    <3>3. Copies(Tail(toClient'), payload')
      <4>1. \A v : Copies(<< >>, v)
        BY DEF Copies
      <4> QED
        BY <3>2, <4>1
    <3> QED
      BY <1>2, <1>4, <2>1, <3>1, <3>2, <3>3 DEF Talking, Downloading
  <2>3. CASE serverFiles[clientName] = "absent"
    <3>1. child' = "ended" /\ toClient' = <<Command("notfound")>>
      BY <1>1, <1>2, <2>1, <2>3, OneMessage DEF ChildGetName, requested
    <3> QED
      BY <1>2, <1>4, <2>1, <3>1 DEF Talking, Leaving
  <2> QED
    BY <2>2, <2>3
<1> QED
  BY <1>3, <1>4, NameRead DEF ChildGetName

LEMMA PutNameStep ==
  ASSUME IInv, PatientInv, PatientUser, ChildPutName
  PROVE  Talking'
<1>1. /\ client = "put_reply" /\ toChild = <<Name(clientName, clientResidue)>>
      /\ toClient = << >> /\ toListener = << >>
  BY Phases DEF ChildPutName, Uploading
<1>2. /\ client' = "put_reply" /\ toChild' = << >> /\ toListener' = << >>
      /\ \/ child' = "request" /\ toClient' = <<Command("nooverwr")>>
         \/ child' = "receiving" /\ toClient' = <<Command("notfound")>>
  <2>2. Head(toChild).arg = clientName /\ Tail(toChild) = << >>
    BY <1>1, OneMessage DEF Name
  <2>3. /\ client' = client /\ toChild' = Tail(toChild) /\ toListener' = toListener
        /\ \/ child' = "request" /\ toClient' = Append(toClient, Command("nooverwr"))
           \/ child' = "receiving" /\ toClient' = Append(toClient, Command("notfound"))
    BY DEF ChildPutName, refuse_upload, clientVars
  <2> QED
    BY <1>1, <2>2, <2>3, OneMessage
<1> QED
  BY <1>2 DEF Talking, Uploading

\* A queue of copies, read or added to.
LEMMA CopiesKept ==
  ASSUME NEW s \in Seq(Messages), NEW v \in Values, Copies(s, v)
  PROVE  /\ s # << >> => Copies(Tail(s), v) /\ Head(s) = Message("data", v)
         /\ Copies(Append(s, Message("data", v)), v)
<1>1. Message("data", v) \in Messages
  BY DataMessages
<1> DEFINE m == Message("data", v)
<1> HIDE DEF m
<1>2. /\ Len(Append(s, m)) = Len(s) + 1 /\ Append(s, m)[Len(s) + 1] = m
      /\ \A j \in 1 .. Len(s) : Append(s, m)[j] = s[j]
  BY <1>1 DEF m
<1>3. s # << >> => /\ Len(s) >= 1 /\ Len(Tail(s)) = Len(s) - 1 /\ Head(s) = s[1]
                   /\ \A j \in 1 .. Len(s) - 1 : Tail(s)[j] = s[j + 1]
  OBVIOUS
<1>4. \A j \in 1 .. Len(s) : s[j] = m
  BY DEF Copies, m
<1>5. \A j \in 1 .. Len(Append(s, m)) : Append(s, m)[j] = m
  BY <1>2, <1>4
<1>6. ASSUME s # << >> PROVE Head(s) = m /\ \A j \in 1 .. Len(Tail(s)) : Tail(s)[j] = m
  BY <1>3, <1>4, <1>6
<1> QED
  BY <1>5, <1>6 DEF Copies, m

LEMMA DownloadSteps ==
  ASSUME IInv, PatientInv,
         \/ DownloadReply \/ ClientReceives \/ ClientJunk \/ ClientJunkEnds
         \/ ChildSends \/ ChildAcked
  PROVE  Talking'
<1>0. /\ toClient \in Seq(Messages) /\ payload \in Values
      /\ toChild \in Seq(Messages)
  BY DEF Talking, IInv, Types
<1>1. CASE DownloadReply
  <2>1. /\ toListener' = toListener /\ toChild' = toChild /\ child' = child
        /\ path' = path /\ payload' = payload /\ serverFiles' = serverFiles
        /\ clientName' = clientName /\ toClient' = Tail(toClient)
        /\ client = "get_reply" /\ toClient # << >>
        /\ client' = IF Head(toClient).type = "notfound" THEN "exited" ELSE "getting"
    BY <1>0, <1>1 DEF DownloadReply, childVars
  <2>2. CASE Downloading
    <3>1. Head(toClient).type # "notfound"
      BY <2>1, <2>2 DEF Downloading, Command, Message
    <3> QED
      BY <2>1, <2>2, <3>1 DEF Talking, Downloading
  <2>3. CASE Leaving
    <3>1. toClient = <<Command("notfound")>> /\ Head(toClient).type = "notfound"
          /\ Tail(toClient) = << >>
      <4>1. toClient = <<Command("notfound")>>
        BY <2>1, <2>3 DEF Leaving
      <4>2. Command("notfound").type = "notfound"
        BY DEF Command, Message
      <4> QED
        BY <4>1, <4>2, OneMessage
    <3> QED
      BY <2>1, <2>3, <3>1 DEF Talking, Leaving
  <2> QED
    BY <2>1, <2>2, <2>3, Phases
<1>2. CASE ClientReceives
  <2>1. Downloading
    BY <1>2, Phases DEF ClientReceives
  <2>4. Copies(toClient, payload) /\ toClient # << >>
    BY <1>2, <2>1 DEF ClientReceives, Downloading
  <2>5. Head(toClient) = Message("data", payload)
    BY <1>0, <2>4, CopiesKept
  <2>6. Head(toClient).type = "data"
    BY <2>5 DEF Message
  <2>2. /\ client' = "junk" /\ child' = "sending" /\ toListener' = << >>
        /\ toChild' = <<Command("ack")>> /\ toClient' = Tail(toClient) /\ payload' = payload
        /\ Copies(toClient, payload) /\ toClient # << >>
    BY <1>2, <2>1, <2>4, <2>6, OneMessage DEF ClientReceives, Downloading, childVars
  <2>3. Copies(toClient', payload')
    BY <1>0, <2>2, CopiesKept
  <2> QED
    BY <2>2, <2>3 DEF Talking, Downloading
<1>3. CASE ClientJunk
  <2>1. Downloading
    BY <1>3, Phases DEF ClientJunk
  <2>2. /\ client' = "junk" /\ child' = child /\ toListener' = << >>
        /\ toChild' = toChild /\ toClient' = Tail(toClient) /\ payload' = payload
        /\ Copies(toClient, payload) /\ toClient # << >>
        /\ \/ child = "sending" /\ toChild = <<Command("ack")>>
           \/ child = "request" /\ toChild = << >>
    BY <1>0, <1>3, <2>1 DEF ClientJunk, Downloading, childVars, clientVars
  <2>3. Copies(toClient', payload')
    BY <1>0, <2>2, CopiesKept
  <2> QED
    BY <2>2, <2>3 DEF Talking, Downloading
<1>4. CASE ClientJunkEnds
  <2>1. Downloading
    BY <1>4, Phases DEF ClientJunkEnds
  <2>2. /\ client' = "menu" /\ child' = "request" /\ toListener' = << >>
        /\ toChild' = << >> /\ toClient' = << >>
    BY <1>0, <1>4, <2>1 DEF ClientJunkEnds, Downloading, childVars, net
  <2> QED
    BY <2>2, Quiet
<1>5. CASE ChildSends
  <2>1. Downloading
    BY <1>5, Phases DEF ChildSends
  <2> DEFINE m == Message("data", payload)
  <2>2. /\ client' = client /\ clientName' = clientName /\ child' = child /\ path' = path
        /\ payload' = payload /\ serverFiles' = serverFiles
        /\ toListener' = toListener /\ toChild' = toChild /\ toClient' = Append(toClient, m)
        /\ child = "sending"
    BY <1>0, <1>5 DEF ChildSends, childVars, clientVars
  <2>3. Copies(toClient, payload) => Copies(toClient', payload')
    BY <1>0, <2>2, CopiesKept
  <2>4. toClient # << >> =>
          /\ toClient' # << >> /\ Head(toClient') = Head(toClient)
          /\ Tail(toClient') = Append(Tail(toClient), m) /\ Tail(toClient) \in Seq(Messages)
    <3>1. m \in Messages
      BY <1>0, DataMessages
    <3> HIDE DEF m
    <3> QED
      BY <1>0, <2>2, <3>1
  <2>5. toClient # << >> /\ Copies(Tail(toClient), payload) => Copies(Tail(toClient'), payload')
    BY <1>0, <2>2, <2>4, CopiesKept
  <2> HIDE DEF m
  <2> QED
    BY <2>1, <2>2, <2>3, <2>4, <2>5 DEF Talking, Downloading
<1>6. CASE ChildAcked
  <2>1. Downloading
    BY <1>6, Phases DEF ChildAcked
  <2>2. /\ client = "junk" /\ toChild = <<Command("ack")>> /\ Copies(toClient, payload)
        /\ toListener = << >>
    BY <1>6, <2>1 DEF ChildAcked, FromChild, Downloading
  <2>3. /\ client' = "junk" /\ child' = "request" /\ toChild' = << >> /\ toClient' = toClient
        /\ payload' = payload /\ toListener' = << >>
    BY <1>0, <1>6, <2>2, OneMessage DEF ChildAcked, clientVars
  <2> QED
    BY <2>2, <2>3 DEF Talking, Downloading, Copies
<1> QED
  BY <1>1, <1>2, <1>3, <1>4, <1>5, <1>6

LEMMA UploadSteps ==
  ASSUME IInv, PatientInv,
         \/ UploadReply \/ ClientSends \/ ClientAcked
         \/ ChildReceives \/ ChildJunk \/ ChildJunkEnds
  PROVE  Talking'
<1>0. /\ toChild \in Seq(Messages) /\ clientFiles[clientName] \in Values
      /\ Uploading
  BY Phases DEF Talking, IInv, Types, UploadReply, ClientSends, ClientAcked, ChildReceives,
                ChildJunk, ChildJunkEnds
<1>k. \A type \in Kinds : Command(type).type = type
  BY DEF Command, Message
<1>1. CASE UploadReply
  <2>1. /\ toListener' = << >> /\ child' = child /\ toChild' = << >>
        /\ client' = IF Head(toClient).type = "nooverwr" THEN "menu" ELSE "putting"
        /\ toClient' = Tail(toClient)
        /\ \/ child = "request" /\ toClient = <<Command("nooverwr")>>
           \/ child = "receiving" /\ toClient = <<Command("notfound")>>
    BY <1>0, <1>1 DEF UploadReply, Uploading, childVars
  <2>2. CASE child = "request"
    <3>1. client' = "menu" /\ toClient' = << >>
      BY <1>k, <2>1, <2>2, OneMessage DEF Kinds
    <3> QED
      BY <2>1, <2>2, <3>1, Quiet
  <2>3. CASE child = "receiving"
    <3>1. client' = "putting" /\ toClient' = << >>
      BY <1>k, <2>1, <2>3, OneMessage DEF Kinds
    <3>2. Copies(toChild', clientFiles'[clientName'])
      <4>1. \A v : Copies(<< >>, v)
        BY DEF Copies
      <4> QED
        BY <2>1, <4>1
    <3> QED
      BY <2>1, <2>3, <3>1, <3>2 DEF Talking, Uploading
  <2> QED
    BY <2>1, <2>2, <2>3
<1>2. CASE ClientSends
  <2>1. /\ client' = "putting" /\ client = "putting" /\ child' = child
        /\ toListener' = toListener /\ toClient' = toClient
        /\ clientFiles'[clientName'] = clientFiles[clientName]
        /\ toChild' = Append(toChild, Message("data", clientFiles[clientName]))
    BY <1>0, <1>2 DEF ClientSends, clientVars, childVars
  <2>2. Copies(toChild, clientFiles[clientName]) => Copies(toChild', clientFiles'[clientName'])
    BY <1>0, <2>1, CopiesKept
  <2> QED
    BY <1>0, <2>1, <2>2 DEF Talking, Uploading
<1>3. CASE ClientAcked
  <2>1. /\ child = "junk" /\ toClient = <<Command("ack")>> /\ toListener = << >>
        /\ Copies(toChild, clientFiles[clientName])
    BY <1>0, <1>3 DEF ClientAcked, Uploading
  <2>2. /\ client' = "menu" /\ child' = "junk" /\ toClient' = << >> /\ toListener' = << >>
        /\ toChild' = toChild
        /\ clientFiles'[clientName'] = clientFiles[clientName]
    BY <1>0, <1>3, <2>1, OneMessage DEF ClientAcked, childVars
  <2>3. Copies(toChild', clientFiles'[clientName'])
    BY <2>1, <2>2
  <2> QED
    BY <2>2, <2>3 DEF Talking, Uploading
<1>4. ASSUME toChild # << >>, toChild' = Tail(toChild), Copies(toChild, clientFiles[clientName]),
             clientVars' = clientVars
      PROVE  Copies(toChild', clientFiles'[clientName'])
  BY <1>0, <1>4, CopiesKept DEF clientVars
<1>5. CASE ChildReceives
  <2>1. /\ client = "putting" /\ toClient = << >> /\ toListener = << >> /\ toChild # << >>
        /\ Copies(toChild, clientFiles[clientName])
    BY <1>0, <1>5 DEF ChildReceives, FromChild, Uploading
  <2>2. /\ client' = "putting" /\ child' = "junk" /\ toClient' = <<Command("ack")>>
        /\ toListener' = << >>
    BY <1>0, <1>5, <2>1, OneMessage DEF ChildReceives, clientVars
  <2>3. Copies(toChild', clientFiles'[clientName'])
    BY <1>4, <1>5, <2>1 DEF ChildReceives
  <2> QED
    BY <2>2, <2>3 DEF Talking, Uploading
<1>6. CASE ChildJunk
  <2>1. /\ client' = client /\ child' = "junk" /\ child = "junk" /\ toClient' = toClient
        /\ toListener' = toListener
    BY <1>0, <1>6 DEF ChildJunk, clientVars, childVars
  <2>2. Copies(toChild, clientFiles[clientName]) /\ toChild # << >>
    BY <1>0, <1>6 DEF ChildJunk, Uploading
  <2>3. Copies(toChild', clientFiles'[clientName'])
    BY <1>4, <1>6, <2>2 DEF ChildJunk
  <2> QED
    BY <1>0, <2>1, <2>3 DEF Talking, Uploading
<1>7. CASE ChildJunkEnds
  <2>1. client = "menu" /\ toClient = << >> /\ toListener = << >>
    BY <1>0, <1>7 DEF ChildJunkEnds, Uploading
  <2> QED
    BY <1>0, <1>7, <2>1, Quiet DEF ChildJunkEnds, clientVars, net
<1> QED
  BY <1>1, <1>2, <1>3, <1>5, <1>6, <1>7

LEMMA LeavingSteps ==
  ASSUME IInv, PatientInv, ChildFin \/ ClientFinack \/ ClientFin \/ ChildFinack
  PROVE  Talking'
<1>0. Leaving
  BY Phases DEF Talking, ChildFin, ClientFinack, ClientFin, ChildFinack
<1>k. /\ \A type \in Kinds : Command(type).type = type
      /\ Command("ackfin") \in Messages /\ Command("fin") \in Messages
  BY Commands DEF Command, Message, Kinds
<1>1. CASE ChildFin
  <2>1. /\ client = "finack" /\ toChild = <<Command("fin")>> /\ toClient = << >>
        /\ toListener = << >>
    BY <1>0, <1>1 DEF ChildFin, Leaving
  <2>2. Head(toChild).type = "fin" /\ Tail(toChild) = << >>
    BY <1>k, <2>1, OneMessage DEF Kinds
  <2>3. /\ client' = "finack" /\ child' = "finack" /\ toChild' = << >> /\ toListener' = << >>
        /\ toClient' = << >> \o <<Command("ackfin"), Command("fin")>>
    BY <1>0, <1>1, <2>1, <2>2 DEF ChildFin, clientVars
  <2>4. toClient' = <<Command("ackfin"), Command("fin")>>
    BY <1>k, <2>3, TwoMessages
  <2> QED
    BY <2>3, <2>4 DEF Talking, Leaving
<1>2. CASE ClientFinack
  <2>1. /\ child = "finack" /\ toChild = << >> /\ toListener = << >>
        /\ toClient = <<Command("ackfin"), Command("fin")>>
    BY <1>0, <1>2 DEF ClientFinack, Leaving
  <2>2. Head(toClient).type = "ackfin" /\ Tail(toClient) = <<Command("fin")>>
    BY <1>k, <2>1, TwoMessages DEF Kinds
  <2> QED
    BY <1>0, <1>2, <2>1, <2>2 DEF ClientFinack, Talking, Leaving, childVars
<1>3. CASE ClientFin
  <2>1. /\ child = "finack" /\ toChild = << >> /\ toListener = << >>
        /\ toClient = <<Command("fin")>>
    BY <1>0, <1>3 DEF ClientFin, Leaving
  <2>2. Head(toClient).type = "fin" /\ Tail(toClient) = << >>
    BY <1>k, <2>1, OneMessage DEF Kinds
  <2>3. client' = "closed" /\ toChild' = <<Command("ackfin")>>
    BY <1>3, <2>1, <2>2, OneMessage DEF ClientFin
  <2> QED
    BY <1>0, <1>3, <2>1, <2>2, <2>3 DEF ClientFin, Talking, Leaving, childVars
<1>4. CASE ChildFinack
  <2>1. /\ client = "closed" /\ toChild = <<Command("ackfin")>> /\ toClient = << >>
        /\ toListener = << >>
    BY <1>0, <1>4 DEF ChildFinack, Leaving
  <2> QED
    BY <1>0, <1>4, <2>1, OneMessage DEF ChildFinack, Talking, Leaving, clientVars
<1> QED
  BY <1>1, <1>2, <1>3, <1>4

\* The first request that the child reads, if it is one.
LEMMA RequestRead ==
  ASSUME IInv, PatientInv, child = "request", toChild # << >>
  PROVE  \/ Head(toChild) \in {Command("get"), Command("put"), Command("close")}
         \/ Head(toChild) = Command("list") /\ Tail(toChild) = << >>
<1>1. Requesting /\ Unread = toChild
  BY Phases DEF Unread
<1>2. PICK q \in Nat : Unread = Refusals(q) \o Asked
  BY <1>1 DEF Requesting
<1>3. CASE q > 0
  <2> DEFINE t == Refusals(q - 1) \o Asked
             s == <<Command("nooverwr")>> \o t
  <2>2. /\ toChild = <<Command("get")>> \o s /\ t \in Seq(Messages)
        /\ Command("get") \in Messages /\ Command("nooverwr") \in Messages
    BY <1>1, <1>2, <1>3, FirstUnread
  <2> HIDE DEF t
  <2>1. toChild = <<Command("get")>> \o s /\ s \in Seq(Messages) /\ Command("get") \in Messages
    BY <2>2, Prefixed
  <2> HIDE DEF s
  <2> QED
    BY <2>1, Prefixed
<1>4. CASE q = 0
  <2>1. toChild = Asked
    BY <1>1, <1>2, <1>4, FirstUnread
  <2>2. /\ \A type \in {"list", "get", "put", "close", "fin"} : Command(type) \in Messages
        /\ Name(clientName, clientResidue) \in Messages
    BY Commands, NameMessages DEF Kinds, IInv, Types
  <2> QED
    BY <1>1, <2>1, <2>2, OneMessage, TwoMessages DEF Asked, Requesting
<1>5. q = 0 \/ q > 0
  OBVIOUS
<1> QED
  BY <1>3, <1>4, <1>5, Zenon

-----------------------------------------------------------------------------
(* The refusals.                                                             *)

LEMMA RefusalsRead ==
  /\ NoRefusal(<< >>)
  /\ \A s \in Seq(Messages) : NoRefusal(s) /\ s # << >> => NoRefusal(Tail(s))
BY DEF NoRefusal

LEMMA RefusalsSent ==
  ASSUME NEW s \in Seq(Messages), NoRefusal(s), NEW m \in Messages, m.type # "nooverwr"
  PROVE  /\ NoRefusal(Append(s, m))
         /\ \A n \in Messages : n.type # "nooverwr" => NoRefusal(s \o <<m, n>>)
<1>1. ASSUME NEW n \in Messages, n.type # "nooverwr" PROVE NoRefusal(s \o <<m, n>>)
  <2> DEFINE two == <<m, n>>
  <2>1. two \in Seq(Messages) /\ Len(two) = 2 /\ two[1] = m /\ two[2] = n
    OBVIOUS
  <2> HIDE DEF two
  <2> DEFINE w == s \o two
  <2>3. /\ Len(s) \in Nat /\ w \in Seq(Messages) /\ Len(w) = Len(s) + 2
        /\ \A j \in 1 .. Len(s) : w[j] = s[j]
        /\ \A j \in 1 .. 2 : w[Len(s) + j] = two[j]
    BY <2>1, Elements
  <2> HIDE DEF w
  <2>2. ASSUME NEW j \in 1 .. Len(w) PROVE w[j].type # "nooverwr"
    <3>1. CASE j \in 1 .. Len(s)
      BY <2>3, <3>1 DEF NoRefusal
    <3>2. CASE j \in {Len(s) + 1, Len(s) + 2}
      BY <1>1, <2>1, <2>3, <3>2
    <3> QED
      BY <2>2, <2>3, <3>1, <3>2
  <2> QED
    BY <2>2 DEF NoRefusal, w, two
<1>2. NoRefusal(Append(s, m))
  BY DEF NoRefusal
<1> QED
  BY <1>1, <1>2

LEMMA UserHeard ==
  ASSUME IInv, PatientInv, PatientUser, User
  PROVE  Heard'
<1>1. residue' = residue /\ toChild \in Seq(Messages)
  BY DEF User, RequestList, RequestGet, RequestClose, RequestPut, RequestMissing,
         RefuseOverwrite, NameDownload, childVars, IInv, Types
<1>2. \A type \in {"list", "get", "put", "close", "fin"} :
         Command(type) \in Messages /\ Command(type).type # "nooverwr"
  BY Commands DEF Kinds
<1>3. \A n \in Names : Typed(n) \in BOOLEAN
  BY DEF Typed
<1>4. CASE residue = FALSE
  BY <1>1, <1>4 DEF Heard
<1>5. CASE NoRefusal(toChild) /\ residue # FALSE
  <2>1. CASE RequestList \/ RequestGet \/ RequestClose
    BY <1>1, <1>2, <1>5, <2>1, RefusalsSent DEF RequestList, RequestGet, RequestClose, Heard
  <2>2. ASSUME NEW n \in Names, RequestPut(n) PROVE Heard'
    <3>1. clientResidue' \in BOOLEAN
      BY <1>3, <2>2 DEF RequestPut
    <3>2. Name(n, clientResidue') \in Messages /\ Name(n, clientResidue').type # "nooverwr"
      BY <3>1, NameMessages
    <3> QED
      BY <1>1, <1>2, <1>5, <2>2, <3>2, RefusalsSent DEF RequestPut, Heard
  <2>3. ASSUME NEW n \in Names, RequestMissing(n) PROVE Heard'
    BY <1>5, <2>3 DEF RequestMissing, net, Heard
  <2>4. ASSUME NEW n \in Names, RefuseOverwrite(n) PROVE Heard'
    BY <1>5, <2>4 DEF RefuseOverwrite, PatientUser, IInv, Types
  <2>5. ASSUME NEW n \in Names, NameDownload(n) PROVE Heard'
    <3>1. clientResidue' \in BOOLEAN
      BY <1>3, <2>5 DEF NameDownload
    <3>2. Name(n, clientResidue') \in Messages /\ Name(n, clientResidue').type # "nooverwr"
      BY <3>1, NameMessages
    <3> QED
      BY <1>1, <1>5, <2>5, <3>2, RefusalsSent DEF NameDownload, Heard
  <2> QED
    BY <2>1, <2>2, <2>3, <2>4, <2>5 DEF User
<1> QED
  BY <1>4, <1>5 DEF PatientInv, Heard

LEMMA ClientHeard ==
  ASSUME IInv, PatientInv, Client
  PROVE  Heard'
<1>1. residue' = residue /\ toChild \in Seq(Messages) /\ clientFiles[clientName] \in Values
  BY DEF Client, ClientSyn, ClientSynack, ClientReady, DownloadReply, UploadReply, ClientReceives,
         ClientJunk, ClientJunkEnds, ClientSends, ClientAcked, ClientFinack, ClientFin,
         childVars, IInv, Types
<1>2. /\ \A type \in {"ack", "ack_none", "get", "ackfin"} :
              Command(type) \in Messages /\ Command(type).type # "nooverwr"
      /\ Message("data", clientFiles[clientName]) \in Messages
      /\ Message("data", clientFiles[clientName]).type # "nooverwr"
  BY <1>1, Commands, DataMessages DEF Kinds
<1>3. \/ toChild' = toChild
      \/ \E m \in Messages : m.type # "nooverwr" /\ toChild' = Append(toChild, m)
  <2>1. CASE ClientReceives
    BY <1>2, <2>1 DEF ClientReceives
  <2>2. CASE ClientSends
    BY <1>2, <2>2 DEF ClientSends
  <2>3. CASE ClientFin \/ ClientJunkEnds
    BY <1>2, <2>3 DEF ClientFin, ClientJunkEnds
  <2>4. CASE ~ClientReceives /\ ~ClientSends /\ ~ClientFin /\ ~ClientJunkEnds
    BY <2>4 DEF Client, ClientSyn, ClientSynack, ClientReady, DownloadReply, UploadReply,
                ClientJunk, ClientAcked, ClientFinack
  <2> QED
    BY <2>1, <2>2, <2>3, <2>4
<1> QED
  BY <1>1, <1>3, RefusalsSent DEF PatientInv, Heard

LEMMA ServerHeard ==
  ASSUME IInv, PatientInv, Server
  PROVE  Heard'
<1>1. /\ toChild \in Seq(Messages)
      /\ \A type \in Kinds : Command(type).type = type
  BY DEF IInv, Types, Command, Message
<1>2. CASE ReadRequest
  <2>1. child = "request" /\ toChild # << >> /\ toChild' = Tail(toChild)
    BY <1>2 DEF ReadRequest
  <2>2. CASE Head(toChild) \in {Command("get"), Command("put"), Command("close")}
    <3>1. residue' = residue
      BY <1>1, <1>2, <2>2 DEF ReadRequest, command, ninth, Kinds
    <3> QED
      BY <1>1, <2>1, <3>1, RefusalsRead DEF PatientInv, Heard
  <2>3. CASE Tail(toChild) = << >>
    BY <2>1, <2>3, RefusalsRead DEF Heard
  <2> QED
    BY <2>1, <2>2, <2>3, RequestRead
<1>3. CASE ChildGetName
  <2>1. child = "get_name" /\ toChild # << >> /\ toChild' = Tail(toChild)
    BY <1>3 DEF ChildGetName
  <2>2. CASE Head(toChild) = Command("nooverwr")
    <3>1. residue' = residue
      BY <1>1, <1>3, <2>2 DEF ChildGetName, Kinds
    <3> QED
      BY <1>1, <2>1, <3>1, RefusalsRead DEF PatientInv, Heard
  <2>3. CASE toChild = <<Name(clientName, clientResidue)>>
    BY <2>1, <2>3, OneMessage, RefusalsRead DEF Heard
  <2> QED
    BY <2>1, <2>2, <2>3, NameRead
<1>4. CASE ChildPutName
  <2>1. toChild' = << >>
    BY <1>4, Phases, OneMessage DEF ChildPutName, Uploading
  <2> QED
    BY <2>1, RefusalsRead DEF Heard
<1>5. CASE ~ReadRequest /\ ~ChildGetName /\ ~ChildPutName
  <2>1. /\ residue' = residue
        /\ toChild' = toChild \/ (toChild # << >> /\ toChild' = Tail(toChild))
    BY <1>5 DEF Server, ServerAccept, ChildReady, ChildSends, ChildAcked, ChildReceives, FromChild,
                ChildJunk, ChildJunkEnds, ChildFin, ChildFinack, childVars, net
  <2> QED
    BY <1>1, <2>1, RefusalsRead DEF PatientInv, Heard
<1> QED
  BY <1>2, <1>3, <1>4, <1>5

LEMMA PatientInductive == PatientUser /\ IInv /\ PatientInv /\ [Next]_vars => PatientInv'
<1>1. PatientInv /\ UNCHANGED vars => PatientInv'
  BY DEF PatientInv, Talking, Connecting, Requesting, Unread, Asked, Downloading, Uploading,
         Leaving, Heard, vars, clientVars, childVars, net
<1>2. PatientUser /\ IInv /\ PatientInv /\ User => Talking'
  BY MenuSteps, NameSteps, MissingStep DEF User, RequestList, RequestGet, RequestClose, RequestPut
<1>3. IInv /\ PatientInv /\ Client => Talking'
  BY ConnectionSteps, DownloadSteps, UploadSteps, LeavingSteps DEF Client
<1>4. PatientUser /\ IInv /\ PatientInv /\ Server => Talking'
  BY ConnectionSteps, RequestStep, GetNameStep, PutNameStep, DownloadSteps, UploadSteps,
     LeavingSteps DEF Server
<1> QED
  BY <1>1, <1>2, <1>3, <1>4, UserHeard, ClientHeard, ServerHeard DEF Next, PatientInv

LEMMA Talks ==
  ASSUME PatientUser
  PROVE  Spec => [](IInv /\ PatientInv)
<1>1. IInv /\ PatientInv /\ [Next]_vars => (IInv /\ PatientInv)'
  BY Inductive, PatientInductive
<1> QED
  BY <1>1, InitInv, InitPatient, PTL DEF Spec

-----------------------------------------------------------------------------
(* The files of the two folders, and the answers about them.                 *)

\* What a file holds that has been received, or was there from the start.
Kept == {"fromServer", "fromClient"}

\* A file is empty only while it is received, and what one side believes of the files of the
\* other when it answers is so.
FolderInv ==
  /\ \A n \in Names : clientFiles[n] \in Kept \cup {"absent"}
                        \/ (client \in {"get_reply", "getting"} /\ n = clientName)
  /\ \A n \in Names : serverFiles[n] \in Kept \cup {"absent"}
                        \/ (child = "receiving" /\ n = clientName)
  /\ client \in {"get_reply", "getting"} => clientFiles[clientName] = "empty"
  /\ client \in {"put_reply", "putting"} => clientFiles[clientName] \in Kept
  /\ child = "receiving" => path = clientName
  /\ client = "put_reply" /\ child = "request" /\ toClient # << >>
       => serverFiles[clientName] \in Kept
  /\ client = "get_reply" /\ child = "ended" => serverFiles[clientName] = "absent"
  /\ payload \in Kept \cup {"empty"}
  /\ client \in {"get_reply", "getting"} /\ child = "sending" => payload \in Kept

\* Where both sides are when a step begins, and what they read.
LEMMA UserPlaces ==
  ASSUME IInv, PatientInv, PatientUser, User
  PROVE  client \in {"menu", "get_name"} /\ child \in {"request", "get_name"}
         /\ toListener = << >> /\ toClient = << >>
<1>1. client \in {"menu", "get_name"} /\ (client = "menu" => child # "junk")
  BY DEF User, Ask, RequestList, RequestGet, RequestClose, RequestPut, RequestMissing,
         RefuseOverwrite, NameDownload, PatientUser
<1> QED
  BY <1>1, Phases, AtMenu

LEMMA ClientPlaces ==
  ASSUME IInv, PatientInv
  PROVE  /\ ClientSyn => child = "none" /\ toChild = << >>
         /\ ClientSynack \/ ClientReady => child \in {"starting", "request"} /\ toChild = << >>
         /\ DownloadReply => child \in {"sending", "ended"} /\ toChild = << >>
         /\ UploadReply => child \in {"request", "receiving"} /\ toChild = << >>
         /\ ClientReceives => child = "sending" /\ Head(toClient) = Message("data", payload)
         /\ ClientJunk \/ ClientJunkEnds => client = "junk" /\ child \in {"sending", "request"}
         /\ ClientSends => child \in {"receiving", "junk"}
         /\ ClientAcked => child = "junk"
         /\ ClientFinack \/ ClientFin => child = "finack"
<1>1. /\ ClientSyn => child = "none" /\ toChild = << >>
      /\ ClientSynack \/ ClientReady => child \in {"starting", "request"} /\ toChild = << >>
  BY Phases DEF ClientSyn, ClientSynack, ClientReady, Connecting
<1>2. DownloadReply => child \in {"sending", "ended"} /\ toChild = << >>
  BY Phases DEF DownloadReply, Downloading, Leaving
<1>3. UploadReply => child \in {"request", "receiving"} /\ toChild = << >>
  BY Phases DEF UploadReply, Uploading
<1>4. ASSUME ClientReceives
      PROVE  child = "sending" /\ Head(toClient) = Message("data", payload)
  <2>1. child = "sending" /\ Copies(toClient, payload) /\ toClient # << >>
    BY <1>4, Phases DEF ClientReceives, Downloading
  <2>2. toClient \in Seq(Messages) /\ payload \in Values
    BY DEF IInv, Types
  <2> QED
    BY <2>1, <2>2, CopiesKept
<1>5. ClientJunk \/ ClientJunkEnds => client = "junk" /\ child \in {"sending", "request"}
  BY Phases DEF ClientJunk, ClientJunkEnds, Downloading
<1>6. /\ ClientSends => child \in {"receiving", "junk"}
      /\ ClientAcked => child = "junk"
  BY Phases DEF ClientSends, ClientAcked, Uploading
<1>7. ClientFinack \/ ClientFin => child = "finack"
  BY Phases DEF ClientFinack, ClientFin, Leaving
<1> QED
  BY <1>1, <1>2, <1>3, <1>4, <1>5, <1>6, <1>7

LEMMA ServerPlaces ==
  ASSUME IInv, PatientInv, PatientInv'
  PROVE  /\ ServerAccept => client = "synack" /\ toClient = << >>
         /\ ChildReady => client \in {"synack", "ready"} /\ toChild = << >>
         /\ ReadRequest =>
              /\ client \in {"menu", "listing", "get_name", "get_reply", "put_reply", "finack"}
              /\ toClient = << >>
              /\ child' = "sending" => client = "listing"
         /\ ChildGetName =>
              /\ client \in {"menu", "listing", "get_name", "get_reply", "put_reply", "finack"}
              /\ toClient = << >>
              /\ Head(toChild).type = "name" \/ child' # "request"
                   => client = "get_reply" /\ Head(toChild) = Name(clientName, clientResidue)
         /\ ChildPutName =>
              /\ client = "put_reply" /\ Head(toChild).arg = clientName
              /\ toClient = << >> /\ Tail(toChild) = << >>
         /\ ChildAcked => client = "junk" /\ Tail(toChild) = << >>
         /\ ChildReceives => client = "putting" /\ Head(toChild).arg = clientFiles[clientName]
         /\ ChildJunkEnds => client = "menu"
         /\ ChildFin => client = "finack"
         /\ ChildFinack => client = "closed"
<1>1. /\ ServerAccept => client = "synack" /\ toClient = << >>
      /\ ChildReady => client \in {"synack", "ready"} /\ toChild = << >>
  BY Phases DEF ServerAccept, ChildReady, Connecting
<1>2. ASSUME ReadRequest
      PROVE  /\ client \in {"menu", "listing", "get_name", "get_reply", "put_reply", "finack"}
             /\ toClient = << >>
             /\ child' = "sending" => client = "listing"
  <2>1. Requesting
    BY <1>2, Phases DEF ReadRequest
  <2>2. client' = client /\ toClient' = toClient
    BY <1>2 DEF ReadRequest, clientVars
  <2>3. child' = "sending" => Downloading'
    BY DEF PatientInv, Talking, Connecting, Requesting, Uploading, Leaving
  <2> QED
    BY <2>1, <2>2, <2>3 DEF Requesting, Downloading
<1>3. ASSUME ChildGetName
      PROVE  /\ client \in {"menu", "listing", "get_name", "get_reply", "put_reply", "finack"}
             /\ toClient = << >>
             /\ Head(toChild).type = "name" \/ child' # "request"
                  => client = "get_reply" /\ Head(toChild) = Name(clientName, clientResidue)
  <2>1. Requesting /\ child = "get_name" /\ toChild # << >>
    BY <1>3, Phases DEF ChildGetName
  <2>2. Head(toChild) = Command("nooverwr") =>
          Head(toChild).type # "name" /\ child' = "request"
    <3>1. ASSUME Head(toChild) = Command("nooverwr") PROVE residue = FALSE
      <4>1. toChild[1].type = "nooverwr" /\ 1 \in 1 .. Len(toChild)
        BY <2>1, <3>1 DEF IInv, Types, Command, Message
      <4> QED
        BY <4>1 DEF PatientInv, Heard, NoRefusal
    <3>2. Command("nooverwr").type = "nooverwr"
      BY DEF Command, Message
    <3> QED
      BY <1>3, <3>1, <3>2 DEF ChildGetName, is_noverw
  <2> QED
    BY <2>1, <2>2, NameRead, OneMessage DEF Requesting
<1>4. ASSUME ChildPutName
      PROVE  /\ client = "put_reply" /\ Head(toChild).arg = clientName
             /\ toClient = << >> /\ Tail(toChild) = << >>
  <2>1. client = "put_reply" /\ toChild = <<Name(clientName, clientResidue)>> /\ toClient = << >>
    BY <1>4, Phases DEF ChildPutName, Uploading
  <2> QED
    BY <2>1, OneMessage DEF Name
<1>5. ChildAcked => client = "junk" /\ Tail(toChild) = << >>
  BY Phases, OneMessage DEF ChildAcked, FromChild, Downloading
<1>6. ASSUME ChildReceives
      PROVE  client = "putting" /\ Head(toChild).arg = clientFiles[clientName]
  <2>1. client = "putting" /\ Copies(toChild, clientFiles[clientName]) /\ toChild # << >>
    BY <1>6, Phases DEF ChildReceives, FromChild, Uploading
  <2>2. toChild \in Seq(Messages) /\ clientFiles[clientName] \in Values
    BY DEF IInv, Types
  <2>3. Head(toChild) = Message("data", clientFiles[clientName])
    BY <2>1, <2>2, CopiesKept
  <2> QED
    BY <2>1, <2>3 DEF Message
<1>7. ChildJunkEnds => client = "menu"
  BY Phases DEF ChildJunkEnds, Uploading
<1>8. /\ ChildFin => client = "finack"
      /\ ChildFinack => client = "closed"
  BY Phases DEF ChildFin, ChildFinack, Leaving
<1> QED
  BY <1>1, <1>2, <1>3, <1>4, <1>5, <1>6, <1>7, <1>8

LEMMA InitFolder == Init => FolderInv
<1> SUFFICES ASSUME Init PROVE FolderInv
  OBVIOUS
<1> QED
  BY DEF Init, FolderInv, Folder, Kept

LEMMA UserFolder ==
  ASSUME IInv, PatientInv, PatientUser, FolderInv, User
  PROVE  FolderInv'
<1>1. /\ client \in {"menu", "get_name"} /\ child \in {"request", "get_name"}
      /\ toClient = << >> /\ toClient' = << >>
      /\ child' = child /\ path' = path /\ payload' = payload /\ serverFiles' = serverFiles
  BY UserPlaces DEF User, RequestList, RequestGet, RequestClose, RequestPut, RequestMissing,
                    RefuseOverwrite, NameDownload, childVars, net
<1>2. CASE RequestList \/ RequestGet \/ RequestClose
  BY <1>1, <1>2 DEF RequestList, RequestGet, RequestClose, FolderInv
<1>3. ASSUME NEW n \in Names, RequestPut(n) \/ RefuseOverwrite(n) \/ NameDownload(n)
      PROVE  FolderInv'
  BY <1>1, <1>3 DEF RequestPut, RefuseOverwrite, NameDownload, FolderInv, IInv, Types
<1>4. ASSUME NEW n \in Names, RequestMissing(n) PROVE FolderInv'
  BY <1>1, <1>4 DEF RequestMissing, FolderInv
<1> QED
  BY <1>2, <1>3, <1>4 DEF User

LEMMA ClientFolderStep ==
  ASSUME IInv, PatientInv, FolderInv, Client
  PROVE  FolderInv'
<1>1. /\ child' = child /\ path' = path /\ payload' = payload /\ serverFiles' = serverFiles
      /\ clientName' = clientName
  BY DEF Client, ClientSyn, ClientSynack, ClientReady, DownloadReply, UploadReply, ClientReceives,
         ClientJunk, ClientJunkEnds, ClientSends, ClientAcked, ClientFinack, ClientFin,
         clientVars, childVars
<1>2. CASE ClientSyn \/ ClientSynack \/ ClientReady \/ ClientFinack \/ ClientFin
  <2>1. /\ client \in {"start", "synack", "ready", "finack", "fin"}
        /\ client' \in {"synack", "ready", "menu", "fin", "closed", "exited"}
        /\ clientFiles' = clientFiles
    BY <1>2 DEF ClientSyn, ClientSynack, ClientReady, ClientFinack, ClientFin
  <2> QED
    BY <1>1, <2>1 DEF FolderInv
<1>3. CASE DownloadReply
  <2>1. /\ client = "get_reply" /\ client' \in {"exited", "getting"}
        /\ client' = "exited" => clientFiles' = [clientFiles EXCEPT ![clientName] = "absent"]
        /\ client' = "getting" => clientFiles' = clientFiles
    BY <1>3 DEF DownloadReply
  <2> QED
    BY <1>1, <2>1 DEF FolderInv, IInv, Types
<1>4. CASE UploadReply
  <2>1. client = "put_reply" /\ client' \in {"menu", "putting"} /\ clientFiles' = clientFiles
    BY <1>4 DEF UploadReply
  <2> QED
    BY <1>1, <2>1 DEF FolderInv
<1>5. CASE ClientReceives
  <2>0. child = "sending" /\ Head(toClient).type = "data" /\ Head(toClient).arg = payload
    BY <1>5, ClientPlaces DEF Message
  <2>1. /\ client \in {"listing", "getting"} /\ client' = "junk" /\ child = "sending"
        /\ client = "listing" => clientFiles' = clientFiles
        /\ client = "getting" => clientFiles' = [clientFiles EXCEPT ![clientName] = payload]
    BY <1>5, <2>0, ClientPlaces DEF ClientReceives
  <2> QED
    BY <1>1, <2>1 DEF FolderInv, IInv, Types
<1>6. CASE ClientJunk \/ ClientJunkEnds \/ ClientSends \/ ClientAcked
  <2>1. /\ client \in {"junk", "putting"}
        /\ client' = client \/ client' = "menu"
        /\ clientFiles' = clientFiles
    BY <1>6, ClientPlaces DEF ClientJunk, ClientJunkEnds, ClientSends, ClientAcked, clientVars
  <2> QED
    BY <1>1, <2>1 DEF FolderInv
<1> QED
  BY <1>2, <1>3, <1>4, <1>5, <1>6 DEF Client

LEMMA ServerFolderStep ==
  ASSUME IInv, PatientInv, PatientInv', FolderInv, Server
  PROVE  FolderInv'
<1>1. client' = client /\ clientName' = clientName /\ clientFiles' = clientFiles
  BY DEF Server, ServerAccept, ChildReady, ReadRequest, ChildGetName, ChildPutName, ChildSends,
         ChildAcked, ChildReceives, ChildJunk, ChildJunkEnds, ChildFin, ChildFinack, clientVars
<1>2. CASE ServerAccept \/ ChildReady \/ ChildAcked \/ ChildJunkEnds \/ ChildFin \/ ChildFinack
  <2>1. /\ client \in {"synack", "ready", "junk", "menu", "finack", "closed"}
        /\ child' # "receiving" /\ serverFiles' = serverFiles /\ path' = path /\ payload' = payload
        /\ child = "receiving" => child' = "starting"
    BY <1>2, ServerPlaces DEF ServerAccept, ChildReady, ChildAcked, ChildJunkEnds, ChildFin,
                              ChildFinack
  <2>2. child # "receiving"
    BY <1>2, Phases
    DEF ServerAccept, ChildReady, ChildAcked, ChildJunkEnds, ChildFin, ChildFinack, Connecting
  <2> QED
    BY <1>1, <2>1, <2>2 DEF FolderInv
<1>3. CASE ReadRequest
  <2>1. /\ toClient' = << >> /\ serverFiles' = serverFiles /\ path' = path
        /\ payload' \in Kept \cup {"empty"} /\ child = "request"
        /\ child' \in {"sending", "get_name", "put_name", "fin", "request"}
        /\ child' = "sending" => client = "listing"
    <3>1. toClient' = << >> /\ (child' = "sending" => client = "listing")
      BY <1>3, ServerPlaces DEF ReadRequest
    <3>2. payload' \in {payload, "empty", "fromServer"}
      BY <1>3 DEF ReadRequest
    <3>3. payload \in Kept \cup {"empty"}
      BY DEF FolderInv
    <3> QED
      BY <1>3, <3>1, <3>2, <3>3 DEF ReadRequest, Kept
  <2> QED
    BY <1>1, <2>1 DEF FolderInv
<1>4. CASE ChildGetName
  <2>1. /\ serverFiles' = serverFiles /\ child = "get_name"
        /\ child' \in {"sending", "request", "ended"}
        /\ child' = "request" => toClient' = << >> /\ payload' = payload
        /\ child' # "request" => Head(toChild) = Name(clientName, clientResidue)
    BY <1>4, ServerPlaces DEF ChildGetName
  <2>2. child' = "sending" => payload' = serverFiles[clientName] /\ payload' # "absent"
    BY <1>4, <2>1 DEF ChildGetName, requested, Name
  <2>3. child' = "ended" => payload' = payload /\ serverFiles[clientName] = "absent"
    BY <1>4, <2>1 DEF ChildGetName, requested, Name
  <2>4. clientName \in Names
    BY DEF IInv, Types
  <2> QED
    BY <1>1, <2>1, <2>2, <2>3, <2>4 DEF FolderInv
<1>5. CASE ChildPutName
  <2>1. /\ child = "put_name" /\ path' = clientName /\ payload' = payload
        /\ \/ /\ child' = "request" /\ serverFiles' = serverFiles
              /\ serverFiles[clientName] # "absent"
           \/ /\ child' = "receiving"
              /\ serverFiles' = [serverFiles EXCEPT ![clientName] = "empty"]
    BY <1>5, ServerPlaces DEF ChildPutName, present
  <2>2. clientName \in Names /\ serverFiles \in [Names -> Values]
    BY DEF IInv, Types
  <2> QED
    BY <1>1, <2>1, <2>2 DEF FolderInv
<1>6. CASE ChildSends
  BY <1>1, <1>6 DEF ChildSends, childVars, FolderInv
<1>7. CASE ChildReceives
  <2>1. /\ child = "receiving" /\ child' = "junk" /\ client = "putting" /\ payload' = payload
        /\ serverFiles' = [serverFiles EXCEPT ![path] = clientFiles[clientName]]
    BY <1>7, ServerPlaces DEF ChildReceives
  <2>2. clientName \in Names /\ serverFiles \in [Names -> Values] /\ path = clientName
        /\ clientFiles[clientName] \in Kept
    BY <2>1 DEF IInv, Types, FolderInv
  <2> QED
    BY <1>1, <2>1, <2>2 DEF FolderInv
<1>8. CASE ChildJunk
  BY <1>1, <1>8 DEF ChildJunk, childVars, FolderInv
<1> QED
  BY <1>2, <1>3, <1>4, <1>5, <1>6, <1>7, <1>8 DEF Server

LEMMA FolderInductive ==
  PatientUser /\ IInv /\ PatientInv /\ FolderInv /\ [Next]_vars => FolderInv'
<1>1. FolderInv /\ UNCHANGED vars => FolderInv'
  BY DEF FolderInv, vars, clientVars, childVars, net
<1> QED
  BY <1>1, UserFolder, ClientFolderStep, ServerFolderStep, PatientInductive DEF Next

-----------------------------------------------------------------------------
(* How much waits in the sockets.                                            *)

One(condition) == IF condition THEN 1 ELSE 0

\* Every request puts at most two messages in the socket of the child, the second of a GET when
\* its name is typed; the copies of a packet that were sent are there until one is read.
CountInv ==
  /\ requests \in 0 .. MaxRequests /\ copies \in 0 .. MaxCopies
  /\ child \in {"request", "get_name"} =>
       Len(toChild) + One(child = "get_name") + One(client = "get_name") <= 2 * requests
  /\ child = "get_name" => copies = 0
  /\ child = "sending" => IF client = "junk" THEN Len(toClient) <= copies
                          ELSE Len(toClient) = copies + One(client = "get_reply")
  /\ child = "request" /\ client = "junk" => Len(toClient) <= copies
  /\ client = "putting" /\ child = "receiving" => Len(toChild) = copies
  /\ child = "junk" => Len(toChild) <= copies

LEMMA Lengths ==
  ASSUME NEW s \in Seq(Messages), NEW m \in Messages, NEW n \in Messages
  PROVE  /\ Len(s) \in Nat /\ Len(Append(s, m)) = Len(s) + 1 /\ Len(s \o <<m, n>>) = Len(s) + 2
         /\ s # << >> => Len(s) >= 1 /\ Len(Tail(s)) = Len(s) - 1
         /\ s = << >> <=> Len(s) = 0
         /\ Len(<<m>>) = 1 /\ Len(<<m, n>>) = 2
OBVIOUS

\* What a step does to the length of a socket.
LEMMA SocketLengths ==
  ASSUME IInv
  PROVE  /\ Len(toListener) \in Nat /\ Len(toChild) \in Nat /\ Len(toClient) \in Nat
         /\ toChild # << >> => Len(toChild) >= 1 /\ Len(Tail(toChild)) = Len(toChild) - 1
         /\ toClient # << >> => Len(toClient) >= 1 /\ Len(Tail(toClient)) = Len(toClient) - 1
         /\ toListener = << >> => Len(toListener) = 0
         /\ toChild = << >> <=> Len(toChild) = 0
         /\ toClient = << >> <=> Len(toClient) = 0
         /\ \A m \in Messages : /\ Len(Append(toChild, m)) = Len(toChild) + 1
                                /\ Len(Append(toClient, m)) = Len(toClient) + 1
         /\ \A m, n \in Messages : Len(toChild \o <<m, n>>) = Len(toChild) + 2
<1>1. toListener \in Seq(Messages) /\ toChild \in Seq(Messages) /\ toClient \in Seq(Messages)
  BY DEF IInv, Types
<1>2. Command("get") \in Messages
  BY Commands DEF Kinds
<1> QED
  BY <1>1, <1>2, Lengths

LEMMA SocketNumbers == IInv => Len(toListener) \in Nat /\ Len(toChild) \in Nat /\ Len(toClient) \in Nat
BY SocketLengths

LEMMA InitCount == Init => CountInv
<1> SUFFICES ASSUME Init PROVE CountInv
  OBVIOUS
<1> QED
  BY BoundsAssumption DEF Init, CountInv

LEMMA UserCount ==
  ASSUME IInv, PatientInv, PatientUser, CountInv, User
  PROVE  CountInv'
<1>0. /\ MaxRequests \in Nat /\ requests \in Nat
  BY BoundsAssumption DEF CountInv
<1>1. /\ client \in {"menu", "get_name"} /\ child \in {"request", "get_name"}
      /\ child' = child /\ copies' = copies
  BY UserPlaces DEF User, RequestList, RequestGet, RequestClose, RequestPut, RequestMissing,
                    RefuseOverwrite, NameDownload, childVars
<1>2. \A type \in {"list", "get", "nooverwr", "put", "close", "fin"} : Command(type) \in Messages
  BY Commands DEF Kinds
<1>3. CASE Ask /\ client' \in {"listing", "get_name", "put_reply", "finack"}
  <2>1. /\ requests < MaxRequests /\ requests' = requests + 1 /\ client = "menu"
    BY <1>3 DEF Ask
  <2>2. requests' \in 0 .. MaxRequests
    BY <1>0, <2>1
  <2>3. ASSUME Len(toChild') + One(client' = "get_name") <= Len(toChild) + 2,
               Len(toChild') \in Nat
        PROVE  CountInv'
    <3>1. Len(toChild) + One(child = "get_name") <= 2 * requests
      BY <1>1, <2>1 DEF CountInv, One
    <3>2. One(child = "get_name") \in Nat /\ One(client' = "get_name") \in Nat
      BY DEF One
    <3>3. Len(toChild') + One(child = "get_name") + One(client' = "get_name") <= 2 * requests'
      BY <1>0, <2>1, <2>3, <3>1, <3>2, SocketNumbers
    <3>4. copies \in 0 .. MaxCopies /\ (child = "get_name" => copies = 0)
      BY DEF CountInv
    <3> QED
      BY <1>1, <1>3, <2>2, <3>3, <3>4 DEF CountInv
  <2>4. ASSUME RequestList \/ RequestGet PROVE CountInv'
    BY <1>2, <2>3, <2>4, SocketLengths DEF RequestList, RequestGet, One
  <2>5. ASSUME RequestClose PROVE CountInv'
    BY <1>2, <2>3, <2>5, SocketLengths DEF RequestClose, One
  <2>6. ASSUME NEW n \in Names, RequestPut(n) PROVE CountInv'
    <3>1. clientResidue' \in BOOLEAN
      BY <2>6 DEF RequestPut, Typed
    <3>2. Name(n, clientResidue') \in Messages
      BY <3>1, NameMessages
    <3> QED
      BY <1>2, <2>3, <2>6, <3>2, SocketLengths DEF RequestPut, One
  <2> QED
    BY <1>3, <2>4, <2>5, <2>6 DEF User, Ask, RefuseOverwrite, NameDownload, RequestMissing
<1>4. ASSUME NEW n \in Names, RefuseOverwrite(n) \/ NameDownload(n)
      PROVE  CountInv'
  <2>1. /\ client = "get_name" /\ client' \in {"menu", "get_reply"} /\ requests' = requests
        /\ Len(toChild') = Len(toChild) + 1
    <3>1. clientResidue' \in BOOLEAN
      BY <1>4 DEF RefuseOverwrite, NameDownload, Typed
    <3>2. Name(n, clientResidue') \in Messages
      BY <3>1, NameMessages
    <3> QED
      BY <1>2, <1>4, <3>2, SocketLengths DEF RefuseOverwrite, NameDownload
  <2> QED
    BY <1>0, <1>1, <2>1, SocketNumbers DEF CountInv, One
<1>5. ASSUME NEW n \in Names, RequestMissing(n) PROVE CountInv'
  <2>1. /\ client = "menu" /\ client' = "menu" /\ requests < MaxRequests
        /\ requests' = requests + 1 /\ toChild' = toChild
    BY <1>5 DEF RequestMissing, Ask, net
  <2> QED
    BY <1>0, <1>1, <2>1, SocketNumbers DEF CountInv, One
<1> QED
  BY <1>3, <1>4, <1>5 DEF User, RequestList, RequestGet, RequestClose, RequestPut

LEMMA ClientCount ==
  ASSUME IInv, PatientInv, CountInv, Client
  PROVE  CountInv'
<1>0. /\ MaxRequests \in Nat /\ MaxCopies \in Nat /\ requests \in Nat /\ copies \in Nat
  BY BoundsAssumption DEF CountInv
<1>1. child' = child /\ requests' = requests
  BY DEF Client, ClientSyn, ClientSynack, ClientReady, DownloadReply, UploadReply, ClientReceives,
         ClientJunk, ClientJunkEnds, ClientSends, ClientAcked, ClientFinack, ClientFin,
         clientVars, childVars
<1>2. CASE ClientSyn \/ ClientSynack \/ ClientReady
  <2>1. /\ child \in {"none", "starting", "request"} /\ toChild' = << >> /\ copies' = copies
        /\ client' \in {"synack", "ready", "menu", "exited"}
    BY <1>2, ClientPlaces DEF ClientSyn, ClientSynack, ClientReady
  <2>2. Len(toChild') = 0
    BY <2>1
  <2> QED
    BY <1>0, <1>1, <2>1, <2>2 DEF CountInv, One
<1>3. CASE DownloadReply
  <2>1. /\ child \in {"sending", "ended"} /\ copies' = copies /\ client = "get_reply"
        /\ client' \in {"getting", "exited"} /\ Len(toClient') = Len(toClient) - 1
    BY <1>3, ClientPlaces, SocketLengths DEF DownloadReply
  <2>2. child = "sending" => Len(toClient') = copies
    BY <1>0, <2>1, SocketNumbers DEF CountInv, One
  <2>3. requests \in 0 .. MaxRequests /\ copies \in 0 .. MaxCopies
    BY DEF CountInv
  <2>4. child = "sending" => Len(toClient') = copies + One(client' = "get_reply")
    BY <1>0, <2>1, <2>2 DEF One
  <2> QED
    BY <1>1, <2>1, <2>3, <2>4 DEF CountInv
<1>4. CASE UploadReply
  <2>1. /\ child \in {"request", "receiving"} /\ copies' = 0 /\ toChild' = << >>
        /\ client' \in {"menu", "putting"}
    BY <1>4, ClientPlaces DEF UploadReply
  <2>2. Len(toChild') = 0
    BY <2>1
  <2> QED
    BY <1>0, <1>1, <2>1, <2>2 DEF CountInv, One
<1>5. CASE ClientReceives
  <2>1. /\ child = "sending" /\ copies' = copies /\ client \in {"listing", "getting"}
        /\ client' = "junk" /\ Len(toClient') = Len(toClient) - 1
    BY <1>5, ClientPlaces, SocketLengths DEF ClientReceives, Message
  <2> QED
    BY <1>0, <1>1, <2>1, SocketNumbers DEF CountInv, One
<1>6. CASE ClientJunk
  <2>1. /\ child \in {"sending", "request"} /\ copies' = copies /\ toChild' = toChild
        /\ client = "junk" /\ client' = "junk" /\ Len(toClient') = Len(toClient) - 1
    BY <1>6, ClientPlaces, SocketLengths DEF ClientJunk, clientVars
  <2> QED
    BY <1>0, <1>1, <2>1, SocketNumbers DEF CountInv, One
<1>7. CASE ClientJunkEnds
  <2>1. /\ child = "request" /\ copies' = copies /\ toChild' = toChild
        /\ client = "junk" /\ client' = "menu"
    BY <1>7, ClientPlaces DEF ClientJunkEnds, net
  <2> QED
    BY <1>0, <1>1, <2>1 DEF CountInv, One
<1>8. CASE ClientSends
  <2>1. Message("data", clientFiles[clientName]) \in Messages
    BY DataMessages DEF IInv, Types
  <2>2. /\ child \in {"receiving", "junk"} /\ copies' = copies + 1 /\ copies < MaxCopies
        /\ client = "putting" /\ client' = "putting" /\ Len(toChild') = Len(toChild) + 1
    BY <1>8, <2>1, ClientPlaces, SocketLengths DEF ClientSends, clientVars
  <2>3. copies' \in 0 .. MaxCopies
    BY <1>0, <2>2
  <2> QED
    BY <1>0, <1>1, <2>2, <2>3, SocketNumbers DEF CountInv, One
<1>9. CASE ClientAcked
  <2>1. child = "junk" /\ copies' = copies /\ client' = "menu" /\ toChild' = toChild
    BY <1>9, ClientPlaces DEF ClientAcked
  <2> QED
    BY <1>0, <1>1, <2>1 DEF CountInv, One
<1>10. CASE ClientFinack \/ ClientFin
  <2>1. child = "finack" /\ copies' = copies /\ client' \in {"fin", "closed", "exited"}
    BY <1>10, ClientPlaces DEF ClientFinack, ClientFin
  <2> QED
    BY <1>0, <1>1, <2>1 DEF CountInv, One
<1> QED
  BY <1>2, <1>3, <1>4, <1>5, <1>6, <1>7, <1>8, <1>9, <1>10 DEF Client

LEMMA ServerCount ==
  ASSUME IInv, PatientInv, PatientInv', CountInv, Server
  PROVE  CountInv'
<1>0. /\ MaxRequests \in Nat /\ MaxCopies \in Nat /\ requests \in Nat /\ copies \in Nat
  BY BoundsAssumption DEF CountInv
<1>1. client' = client /\ requests' = requests
  BY DEF Server, ServerAccept, ChildReady, ReadRequest, ChildGetName, ChildPutName, ChildSends,
         ChildAcked, ChildReceives, ChildJunk, ChildJunkEnds, ChildFin, ChildFinack, clientVars
<1>2. CASE ServerAccept \/ ChildFin \/ ChildFinack
  <2>1. /\ client \in {"synack", "finack", "closed"} /\ child' \in {"starting", "finack", "ended"}
        /\ copies' = copies
    BY <1>2, ServerPlaces DEF ServerAccept, ChildFin, ChildFinack
  <2> QED
    BY <1>0, <1>1, <2>1 DEF CountInv, One
<1>3. CASE ChildReady \/ ChildAcked \/ ChildJunkEnds
  <2>1. /\ client \in {"synack", "ready", "junk", "menu"} /\ child' = "request"
        /\ toChild' = << >> /\ copies' = copies
        /\ client = "junk" => child = "sending" /\ toClient' = toClient
    BY <1>3, ServerPlaces DEF ChildReady, ChildAcked, ChildJunkEnds, net
  <2>2. Len(toChild') = 0
    BY <2>1
  <2> QED
    BY <1>0, <1>1, <2>1, <2>2 DEF CountInv, One
<1>4. CASE ReadRequest
  <2>1. /\ client \in {"menu", "listing", "get_name", "get_reply", "put_reply", "finack"}
        /\ Len(toClient') = 0 /\ copies' = 0 /\ child = "request"
        /\ Len(toChild') = Len(toChild) - 1
        /\ child' = "sending" => client = "listing"
    BY <1>4, ServerPlaces, SocketLengths DEF ReadRequest
  <2>2. child' \in {"sending", "get_name", "put_name", "fin", "request"}
    BY <1>4 DEF ReadRequest
  <2>3. Len(toChild') + 1 + One(client = "get_name") <= 2 * requests
    BY <1>0, <2>1, SocketNumbers DEF CountInv, One
  <2>4. /\ One(client = "get_name") \in Nat
        /\ One(child' = "get_name") = 0 \/ One(child' = "get_name") = 1
    BY DEF One
  <2>5. Len(toChild') + One(child' = "get_name") + One(client = "get_name") <= 2 * requests
    BY <1>0, <2>1, <2>3, <2>4, SocketNumbers
  <2>6. child' = "sending" => Len(toClient') = copies' + One(client = "get_reply")
    BY <2>1 DEF One
  <2>7. requests \in 0 .. MaxRequests /\ copies' \in 0 .. MaxCopies
    BY <1>0, <2>1 DEF CountInv
  <2> QED
    BY <1>1, <2>1, <2>2, <2>5, <2>6, <2>7 DEF CountInv
<1>5. CASE ChildGetName
  <2>1. /\ client \in {"menu", "listing", "get_name", "get_reply", "put_reply", "finack"}
        /\ child = "get_name" /\ child' \in {"sending", "request", "ended"} /\ copies' = copies
        /\ Len(toClient) = 0 /\ Len(toChild') = Len(toChild) - 1
    BY <1>5, ServerPlaces, SocketLengths DEF ChildGetName
  <2>2. child' = "sending" => client = "get_reply" /\ Len(toClient') = 1
    <3>1. Command("found") \in Messages
      BY Commands DEF Kinds
    <3> QED
      BY <1>5, <2>1, <3>1, ServerPlaces, SocketLengths DEF ChildGetName
  <2>3. Len(toChild') + One(client = "get_name") <= 2 * requests
    BY <1>0, <2>1, SocketNumbers DEF CountInv, One
  <2>4. copies = 0 /\ requests \in 0 .. MaxRequests
    BY <2>1 DEF CountInv
  <2>5. child' = "request" =>
          Len(toChild') + One(child' = "get_name") + One(client = "get_name") <= 2 * requests
    <3>1. Len(toChild') \in Nat /\ One(client = "get_name") \in Nat
      BY <2>1, SocketNumbers DEF One
    <3>2. child' = "request" => One(child' = "get_name") = 0
      BY DEF One
    <3> QED
      BY <2>3, <3>1, <3>2
  <2>6. child' = "sending" => Len(toClient') = copies' + One(client = "get_reply")
    BY <2>1, <2>2, <2>4 DEF One
  <2> QED
    BY <1>0, <1>1, <2>1, <2>4, <2>5, <2>6 DEF CountInv
<1>6. CASE ChildPutName
  <2>1. /\ client = "put_reply" /\ toChild' = << >> /\ copies' = copies
        /\ child' \in {"request", "receiving"}
    BY <1>6, ServerPlaces DEF ChildPutName
  <2>2. Len(toChild') = 0
    BY <2>1
  <2> QED
    BY <1>0, <1>1, <2>1, <2>2 DEF CountInv, One
<1>7. CASE ChildSends
  <2>1. Message("data", payload) \in Messages
    BY DataMessages DEF IInv, Types
  <2>2. /\ child = "sending" /\ child' = "sending" /\ copies' = copies + 1 /\ copies < MaxCopies
        /\ Len(toClient') = Len(toClient) + 1
    BY <1>7, <2>1, SocketLengths DEF ChildSends, childVars
  <2>3. copies' \in 0 .. MaxCopies
    BY <1>0, <2>2
  <2> QED
    BY <1>0, <1>1, <2>2, <2>3, SocketNumbers DEF CountInv, One
<1>8. CASE ChildReceives
  <2>1. /\ client = "putting" /\ child = "receiving" /\ child' = "junk" /\ copies' = copies
        /\ Len(toChild') = Len(toChild) - 1
    BY <1>8, ServerPlaces, SocketLengths DEF ChildReceives, FromChild
  <2> QED
    BY <1>0, <1>1, <2>1, SocketNumbers DEF CountInv, One
<1>9. CASE ChildJunk
  <2>1. /\ child = "junk" /\ child' = "junk" /\ copies' = copies
        /\ Len(toChild') = Len(toChild) - 1
    BY <1>9, SocketLengths DEF ChildJunk, childVars
  <2> QED
    BY <1>0, <1>1, <2>1, SocketNumbers DEF CountInv, One
<1> QED
  BY <1>2, <1>3, <1>4, <1>5, <1>6, <1>7, <1>8, <1>9 DEF Server

LEMMA CountInductive ==
  PatientUser /\ IInv /\ PatientInv /\ CountInv /\ [Next]_vars => CountInv'
<1>1. CountInv /\ UNCHANGED vars => CountInv'
  BY DEF CountInv, One, vars, clientVars, childVars, net
<1> QED
  BY <1>1, UserCount, ClientCount, ServerCount, PatientInductive DEF Next

LEMMA Serves ==
  ASSUME PatientUser
  PROVE  Spec => [](IInv /\ PatientInv /\ FolderInv /\ CountInv)
<1>1. IInv /\ PatientInv /\ FolderInv /\ CountInv /\ [Next]_vars =>
        (IInv /\ PatientInv /\ FolderInv /\ CountInv)'
  BY Inductive, PatientInductive, FolderInductive, CountInductive
<1> QED
  BY <1>1, InitInv, InitPatient, InitFolder, InitCount, PTL DEF Spec

LEMMA ShortSockets ==
  /\ Len(<< >>) = 0
  /\ \A x : Len(<<x>>) = 1
  /\ \A x, y : Len(<<x, y>>) = 2
OBVIOUS

\* The child has a request to read as long as the client waits for its answer.
LEMMA RequestWaits ==
  ASSUME IInv, Requesting, client \in {"listing", "get_reply", "put_reply", "finack"}
  PROVE  toChild # << >>
<1>1. PICK q \in Nat : Unread = Refusals(q) \o Asked
  BY DEF Requesting
<1>2. /\ \A type \in {"list", "get", "put", "close", "fin"} :
             Command(type) \in Messages /\ Command(type).type = type
      /\ Name(clientName, clientResidue) \in Messages
  BY Commands, NameMessages DEF Kinds, IInv, Types
<1>3. Asked \in Seq(Messages) /\ Len(Asked) \in {1, 2} /\ (Len(Asked) = 1 => Asked = <<Command("list")>>)
  BY <1>2 DEF Asked
<1>4. Len(Unread) = 2 * q + Len(Asked)
  <2>1. Refusals(q) \in Seq(Messages) /\ Len(Refusals(q)) = 2 * q
    BY RefusalsType
  <2> DEFINE r == Refusals(q)
             a == Asked
  <2>2. r \in Seq(Messages) /\ a \in Seq(Messages) /\ Unread = r \o a
    BY <1>1, <1>3, <2>1
  <2> HIDE DEF r, a
  <2>3. Len(Unread) = Len(r) + Len(a)
    BY <2>2, Elements
  <2> QED
    BY <2>1, <2>3 DEF r, a
<1>5. /\ 2 * q + Len(Asked) > 0
      /\ 2 * q + Len(Asked) = 1 => q = 0 /\ Len(Asked) = 1
  <2> DEFINE n == Len(Asked)
  <2>1. n \in {1, 2} /\ q \in Nat
    BY <1>3
  <2> HIDE DEF n
  <2>2. /\ 2 * q + n > 0
        /\ 2 * q + n = 1 => q = 0 /\ n = 1
    BY <2>1
  <2> QED
    BY <2>2 DEF n
<1>6. ASSUME toChild = << >> PROVE FALSE
  <2>1. CASE child = "request"
    <3>1. Len(Unread) = 0
      BY <1>6, <2>1, ShortSockets DEF Unread
    <3> QED
      BY <1>4, <1>5, <3>1
  <2>2. CASE child = "get_name"
    <3>1. Unread = <<Command("get")>>
      BY <1>2, <1>6, <2>2, Appended DEF Unread
    <3>2. Len(Unread) = 1
      BY <3>1, ShortSockets, Zenon
    <3>3. q = 0 /\ Asked = <<Command("list")>>
      BY <1>3, <1>4, <1>5, <3>2
    <3>4. Unread = <<Command("list")>>
      BY <1>1, <1>2, <3>3, RefusalsType, Appended
    <3> QED
      BY <1>2, <3>1, <3>4, OneMessage
  <2> QED
    BY <2>1, <2>2 DEF Requesting
<1> QED
  BY <1>6

-----------------------------------------------------------------------------
(* A session seen as a FileService.                                          *)

\* A folder as the user sees it, before and after a step.
LEMMA ReceivedFiles ==
  ASSUME NEW f \in [Names -> Values], NEW m \in Names
  PROVE  /\ Received(f)[m] = IF f[m] = "empty" THEN "absent" ELSE f[m]
         /\ \A v : Received([f EXCEPT ![m] = v])
                     = [Received(f) EXCEPT ![m] = IF v = "empty" THEN "absent" ELSE v]
BY DEF Received

LEMMA Wishes ==
  /\ client \in {"get_reply", "getting"} => Wish = "get"
  /\ client = "put_reply" \/ (client = "putting" /\ child = "receiving") => Wish = "put"
  /\ client \in {"finack", "fin", "closed", "exited"} => Wish = "over"
  /\ client \in {"start", "synack", "ready", "menu", "listing", "get_name", "junk"} => Wish = "none"
  /\ client = "putting" /\ child # "receiving" => Wish = "none"
BY DEF Wish

LEMMA WishesNext ==
  /\ client' \in {"get_reply", "getting"} => Wish' = "get"
  /\ client' = "put_reply" \/ (client' = "putting" /\ child' = "receiving") => Wish' = "put"
  /\ client' \in {"finack", "fin", "closed", "exited"} => Wish' = "over"
  /\ client' \in {"start", "synack", "ready", "menu", "listing", "get_name", "junk"}
       => Wish' = "none"
  /\ client' = "putting" /\ child' # "receiving" => Wish' = "none"
BY DEF Wish

\* Nothing that the user sees has changed.
LEMMA Stutters ==
  ASSUME Wish' = Wish, clientName' = clientName,
         Received(clientFiles)' = Received(clientFiles),
         Received(serverFiles)' = Received(serverFiles)
  PROVE  [Service!Next]_(Service!vars)
BY DEF Service!vars

LEMMA UserServes ==
  ASSUME IInv, PatientInv, PatientUser, FolderInv, User
  PROVE  [Service!Next]_(Service!vars)
<1>1. /\ client \in {"menu", "get_name"} /\ Wish = "none"
      /\ child' = child /\ serverFiles' = serverFiles
      /\ Received(serverFiles)' = Received(serverFiles)
  BY UserPlaces, Wishes DEF Received, User, RequestList, RequestGet, RequestClose, RequestPut,
                            RequestMissing, RefuseOverwrite, NameDownload, childVars
<1>2. CASE RequestList \/ RequestGet \/ RequestClose
  <2>1. /\ clientName' = clientName /\ Received(clientFiles)' = Received(clientFiles)
        /\ client' \in {"listing", "get_name", "finack"}
    BY <1>2 DEF RequestList, RequestGet, RequestClose, Received
  <2>2. CASE client' = "finack"
    BY <1>1, <2>1, <2>2, WishesNext DEF Service!Next, Service!Leave
  <2>3. CASE client' # "finack"
    BY <1>1, <2>1, <2>3, WishesNext, Stutters
  <2> QED
    BY <2>2, <2>3
<1>3. ASSUME NEW n \in Names, RequestPut(n) PROVE Service!AskUpload(n)
  <2>1. /\ clientFiles' = clientFiles /\ clientName' = n /\ client' = "put_reply"
        /\ clientFiles[n] # "absent"
    BY <1>3 DEF RequestPut
  <2>2. Received(clientFiles)' = Received(clientFiles) /\ Received(clientFiles)[n] # "absent"
    BY <1>1, <2>1, ReceivedFiles DEF FolderInv, Kept, Received, IInv, Types
  <2> QED
    BY <1>1, <2>1, <2>2, WishesNext DEF Service!AskUpload
<1>4. ASSUME NEW n \in Names, RefuseOverwrite(n) PROVE [Service!Next]_(Service!vars)
  <2>1. /\ clientName' = clientName /\ Received(clientFiles)' = Received(clientFiles)
        /\ client' = "menu"
    BY <1>4 DEF RefuseOverwrite, Received
  <2> QED
    BY <1>1, <2>1, WishesNext, Stutters
<1>5. ASSUME NEW n \in Names, NameDownload(n) PROVE Service!AskDownload(n)
  <2>1. /\ clientFiles' = [clientFiles EXCEPT ![n] = "empty"] /\ clientName' = n
        /\ client' = "get_reply"
    BY <1>5 DEF NameDownload
  <2>2. Received(clientFiles') = [Received(clientFiles) EXCEPT ![n] = "absent"]
    BY <2>1, ReceivedFiles DEF IInv, Types
  <2>3. Received(clientFiles)' = Received(clientFiles')
    BY DEF Received
  <2> QED
    BY <1>1, <2>1, <2>2, <2>3, WishesNext DEF Service!AskDownload
<1>6. ASSUME NEW n \in Names, RequestMissing(n) PROVE [Service!Next]_(Service!vars)
  <2>1. /\ clientName' = clientName /\ Received(clientFiles)' = Received(clientFiles)
        /\ client' = client
    BY <1>6 DEF RequestMissing, Received
  <2> QED
    BY <1>1, <2>1, WishesNext, Stutters DEF Wish
<1> QED
  BY <1>2, <1>3, <1>4, <1>5, <1>6 DEF User, Service!Next

LEMMA ClientServes ==
  ASSUME IInv, PatientInv, PatientInv', FolderInv, Client
  PROVE  [Service!Next]_(Service!vars)
<1>1. /\ child' = child /\ clientName' = clientName /\ serverFiles' = serverFiles
      /\ Received(serverFiles)' = Received(serverFiles)
  BY DEF Client, ClientSyn, ClientSynack, ClientReady, DownloadReply, UploadReply, ClientReceives,
         ClientJunk, ClientJunkEnds, ClientSends, ClientAcked, ClientFinack, ClientFin,
         clientVars, childVars, Received
<1>2. /\ clientName \in Names /\ clientFiles \in [Names -> Values]
      /\ serverFiles \in [Names -> Values]
  BY DEF IInv, Types
<1>3. Received(clientFiles)' = Received(clientFiles')
  BY DEF Received
<1>4. CASE ClientSyn \/ ClientSynack \/ ClientReady
  <2>1. /\ client \in {"start", "synack", "ready"} /\ clientFiles' = clientFiles
        /\ client' \in {"synack", "ready", "menu", "exited"}
    BY <1>4 DEF ClientSyn, ClientSynack, ClientReady
  <2>2. CASE client' = "exited"
    BY <1>1, <1>3, <2>1, <2>2, Wishes, WishesNext DEF Service!Next, Service!Leave
  <2>3. CASE client' # "exited"
    BY <1>1, <1>3, <2>1, <2>3, Wishes, WishesNext, Stutters
  <2> QED
    BY <2>2, <2>3
<1>5. CASE DownloadReply
  <2>1. CASE client' = "exited"
    <3>1. child = "ended"
      BY <1>1, <1>5, <2>1, ClientPlaces
      DEF PatientInv, Talking, Connecting, Requesting, Downloading, Uploading, Leaving
    <3>2. /\ client = "get_reply" /\ clientFiles' = [clientFiles EXCEPT ![clientName] = "absent"]
          /\ clientFiles[clientName] = "empty" /\ serverFiles[clientName] = "absent"
      BY <1>5, <2>1, <3>1 DEF DownloadReply, FolderInv
    <3>3. Received(clientFiles') = Received(clientFiles)
      BY <1>2, <3>2 DEF Received
    <3>4. Received(serverFiles)[clientName] = "absent"
      BY <1>2, <3>2, ReceivedFiles
    <3> QED
      BY <1>1, <1>3, <2>1, <3>2, <3>3, <3>4, Wishes, WishesNext DEF Service!Next, Service!NotFound
  <2>2. CASE client' # "exited"
    <3>1. client = "get_reply" /\ client' = "getting" /\ clientFiles' = clientFiles
      BY <1>5, <2>2 DEF DownloadReply
    <3> QED
      BY <1>1, <1>3, <3>1, Wishes, WishesNext, Stutters
  <2> QED
    BY <2>1, <2>2
<1>6. CASE UploadReply
  <2>1. /\ client = "put_reply" /\ client' \in {"menu", "putting"} /\ clientFiles' = clientFiles
        /\ toClient # << >> /\ child \in {"request", "receiving"}
    BY <1>6, ClientPlaces DEF UploadReply
  <2>2. CASE child = "request"
    <3>1. client' = "menu"
      BY <1>1, <2>1, <2>2 DEF PatientInv, Talking, Connecting, Requesting, Downloading, Uploading, Leaving
    <3>2. serverFiles[clientName] \in Kept
      BY <2>1, <2>2 DEF FolderInv
    <3>3. Received(serverFiles)[clientName] # "absent"
      BY <1>2, <3>2, ReceivedFiles DEF Kept
    <3> QED
      BY <1>1, <1>3, <2>1, <3>1, <3>3, Wishes, WishesNext DEF Service!Next, Service!Refuse
  <2>3. CASE child = "receiving"
    <3>1. client' = "putting"
      BY <1>1, <2>1, <2>3 DEF PatientInv, Talking, Connecting, Requesting, Downloading, Uploading, Leaving
    <3> QED
      BY <1>1, <1>3, <2>1, <2>3, <3>1, Wishes, WishesNext, Stutters
  <2> QED
    BY <2>1, <2>2, <2>3
<1>7. CASE ClientReceives
  <2>0. child = "sending" /\ Head(toClient).type = "data" /\ Head(toClient).arg = payload
    BY <1>7, ClientPlaces DEF Message
  <2>1. /\ client \in {"listing", "getting"} /\ client' = "junk" /\ child = "sending"
        /\ Head(toClient).type = "data" /\ Head(toClient).arg = payload
    BY <1>7, <2>0 DEF ClientReceives
  <2>2. CASE client = "listing"
    <3>1. clientFiles' = clientFiles
      BY <1>7, <2>2 DEF ClientReceives
    <3> QED
      BY <1>1, <1>3, <2>1, <2>2, <3>1, Wishes, WishesNext, Stutters
  <2>3. CASE client = "getting"
    <3>1. clientFiles' = [clientFiles EXCEPT ![clientName] = payload]
      BY <1>7, <2>1, <2>3 DEF ClientReceives
    <3>2. payload \in Kept /\ payload = serverFiles[clientName]
      BY <2>1, <2>3, Phases DEF FolderInv, Downloading
    <3>3. Received(serverFiles)[clientName] = payload /\ payload \notin {"absent", "empty"}
      BY <1>2, <3>2, ReceivedFiles DEF Kept
    <3>4. Received(clientFiles') = [Received(clientFiles) EXCEPT ![clientName] = payload]
      <4>1. Received(clientFiles')
              = [Received(clientFiles) EXCEPT
                   ![clientName] = IF payload = "empty" THEN "absent" ELSE payload]
        BY <1>2, <3>1, ReceivedFiles, Zenon
      <4>2. (IF payload = "empty" THEN "absent" ELSE payload) = payload
        BY <3>3
      <4> QED
        BY <4>1, <4>2, Zenon
    <3> QED
      BY <1>1, <1>3, <2>1, <2>3, <3>3, <3>4, Wishes, WishesNext DEF Service!Next, Service!Download
  <2> QED
    BY <2>1, <2>2, <2>3
<1>8. CASE ClientJunk \/ ClientJunkEnds \/ ClientSends \/ ClientAcked \/ ClientFinack \/ ClientFin
  <2>1. /\ clientFiles' = clientFiles
        /\ \/ client = "junk" /\ client' \in {"junk", "menu"}
           \/ client = "putting" /\ client' = "putting"
           \/ client = "putting" /\ client' = "menu" /\ child = "junk"
           \/ client \in {"finack", "fin"} /\ client' \in {"fin", "closed", "exited"}
    BY <1>8, ClientPlaces DEF ClientJunk, ClientJunkEnds, ClientSends, ClientAcked, ClientFinack,
                              ClientFin, clientVars
  <2>2. Wish' = Wish
    BY <1>1, <2>1, Wishes, WishesNext
  <2> QED
    BY <1>1, <1>3, <2>1, <2>2, Stutters
<1> QED
  BY <1>4, <1>5, <1>6, <1>7, <1>8 DEF Client

LEMMA ServerServes ==
  ASSUME IInv, PatientInv, PatientInv', FolderInv, Server
  PROVE  [Service!Next]_(Service!vars)
<1>1. /\ client' = client /\ clientName' = clientName
      /\ Received(clientFiles)' = Received(clientFiles)
  BY DEF Server, ServerAccept, ChildReady, ReadRequest, ChildGetName, ChildPutName, ChildSends,
         ChildAcked, ChildReceives, ChildJunk, ChildJunkEnds, ChildFin, ChildFinack, clientVars,
         Received
<1>2. /\ clientName \in Names /\ clientFiles \in [Names -> Values]
      /\ serverFiles \in [Names -> Values]
  BY DEF IInv, Types
<1>3. Received(serverFiles)' = Received(serverFiles')
  BY DEF Received
<1>4. CASE ChildReceives
  <2>1. /\ client = "putting" /\ child = "receiving" /\ child' = "junk"
        /\ serverFiles' = [serverFiles EXCEPT ![path] = clientFiles[clientName]]
    BY <1>4, ServerPlaces DEF ChildReceives
  <2>2. /\ path = clientName /\ serverFiles[clientName] = "empty"
        /\ clientFiles[clientName] \notin {"absent", "empty"}
    BY <2>1 DEF FolderInv, Kept, IInv, PutInv
  <2>3. /\ Received(serverFiles)[clientName] = "absent"
        /\ Received(clientFiles)[clientName] = clientFiles[clientName]
        /\ Received(serverFiles')
             = [Received(serverFiles) EXCEPT ![clientName] = clientFiles[clientName]]
    BY <1>2, <2>1, <2>2, ReceivedFiles
  <2> QED
    BY <1>1, <1>3, <2>1, <2>3, Wishes, WishesNext DEF Service!Next, Service!Upload
<1>5. CASE ChildPutName
  <2>1. /\ client = "put_reply"
        /\ \/ serverFiles' = serverFiles
           \/ /\ serverFiles[clientName] = "absent"
              /\ serverFiles' = [serverFiles EXCEPT ![clientName] = "empty"]
    BY <1>5, ServerPlaces DEF ChildPutName, present
  <2>2. Received(serverFiles') = Received(serverFiles)
    BY <1>2, <2>1 DEF Received
  <2> QED
    BY <1>1, <1>3, <2>1, <2>2, Wishes, WishesNext, Stutters
<1>6. ASSUME Server, ~ChildReceives, ~ChildPutName PROVE [Service!Next]_(Service!vars)
  <2>1. serverFiles' = serverFiles
    BY <1>6 DEF Server, ServerAccept, ChildReady, ReadRequest, ChildGetName, ChildSends,
                ChildAcked, ChildJunk, ChildJunkEnds, ChildFin, ChildFinack, childVars
  <2>2. client = "putting" => (child' = child)
    <3>1. client = "putting" => child \in {"receiving", "junk"}
      BY Phases DEF Uploading
    <3> QED
      BY <1>6, <3>1, ServerPlaces
      DEF Server, ServerAccept, ChildReady, ReadRequest, ChildGetName, ChildSends, ChildAcked,
          ChildJunk, ChildJunkEnds, ChildFin, ChildFinack, childVars
  <2>3. Wish' = Wish
    BY <1>1, <2>2 DEF Wish
  <2> QED
    BY <1>1, <1>3, <2>1, <2>3, Stutters
<1> QED
  BY <1>4, <1>5, <1>6

-----------------------------------------------------------------------------
(* Theorems.                                                                 *)

\* With a user who waits, and who declines to overwrite a file only while the ninth byte of
\* the child's buff is 0, the child never takes a message for another, whatever names of
\* whatever length were typed or listed before: it ends when the client has closed the session
\* or has asked for a file that is not there, and after any number of such refusals it goes on
\* serving (server.c:127).
THEOREM ChildServesOn ==
  ASSUME PatientUser
  PROVE  Spec => []ChildEndsForAReason
<1>1. PatientInv => ChildEndsForAReason
  BY Phases DEF Leaving, ChildEndsForAReason
<1> QED
  BY <1>1, Talks, PTL

\* With such a user, what clear_junk of the server throws away is only copies of the last
\* packet of the upload (receiver.c:163), never a request.
THEOREM JunkIsCopies ==
  ASSUME PatientUser
  PROVE  Spec => []JunkIsRetransmission
<1>1. IInv /\ PatientInv => JunkIsRetransmission
  <2>1. ASSUME PatientInv, child = "junk" PROVE Copies(toChild, clientFiles[clientName])
    BY <2>1, Phases DEF Uploading
  <2> QED
    BY <2>1 DEF JunkIsRetransmission, Copies, Message
<1> QED
  BY <1>1, Talks, PTL

\* With such a user, no packet or acknowledgement that a transfer has left behind is read as the
\* next request (server.c:75).
THEOREM RequestsAreRead ==
  ASSUME PatientUser
  PROVE  Spec => []NoLeftoverRead
<1>1. ASSUME IInv, PatientInv, child = "request", toChild # << >>
      PROVE  Head(toChild).type \notin {"data", "ack", "ack_none"}
  <2>1. Head(toChild) \in {Command("get"), Command("put"), Command("close"), Command("list")}
    BY <1>1, RequestRead
  <2> QED
    BY <2>1 DEF Command, Message
<1>2. IInv /\ PatientInv => NoLeftoverRead
  BY <1>1 DEF NoLeftoverRead
<1> QED
  BY <1>2, Talks, PTL

\* With such a user, however many requests came before and whatever was refused: a download
\* leaves the client with the server's file of the name it typed (server.c:108, client.c:131).
THEOREM RightFile ==
  ASSUME PatientUser
  PROVE  Spec => DownloadsTheFileAsked
<1> DEFINE Right == client = "getting" /\ client' = "junk"
                      => clientFiles'[clientName] = serverFiles[clientName]
<1>1. ASSUME IInv, PatientInv, [Next]_vars, client = "getting", client' = "junk"
      PROVE  clientFiles'[clientName] = serverFiles[clientName]
  <2>1. ClientReceives
    BY <1>1 DEF Next, User, Ask, RequestList, RequestGet, RequestClose, RequestPut, RequestMissing,
       RefuseOverwrite, NameDownload, Client, ClientSyn, ClientSynack, ClientReady, DownloadReply, UploadReply,
       ClientReceives, ClientJunk, ClientJunkEnds, ClientSends, ClientAcked, ClientFinack,
       ClientFin, Server, ServerAccept, ChildReady, ReadRequest, ChildGetName, ChildPutName, ChildSends,
       ChildAcked, ChildReceives, ChildJunk, ChildJunkEnds, ChildFin, ChildFinack, clientVars, vars
  <2>2. Downloading /\ Copies(toClient, payload) /\ payload = serverFiles[clientName]
    BY <1>1, Phases DEF Downloading
  <2>3. Head(toClient) = Message("data", payload)
    BY <1>1, <2>1, <2>2, CopiesKept DEF ClientReceives, IInv, Types
  <2> QED
    <3>1. Head(toClient).type = "data" /\ Head(toClient).arg = payload
      BY <2>3 DEF Message
    <3>2. clientFiles' = [clientFiles EXCEPT ![clientName] = payload]
      BY <1>1, <2>1, <3>1 DEF ClientReceives
    <3> QED
      BY <1>1, <2>2, <3>2 DEF IInv, Types
<1>2. IInv /\ PatientInv /\ [Next]_vars => [Right]_vars
  BY <1>1
<1> QED
  BY <1>2, Talks, PTL DEF Spec, DownloadsTheFileAsked

\* Whatever was asked for and refused before, positions, files and counters stay in range, and
\* no socket holds more than the requests and copies that were sent.
THEOREM InRange ==
  ASSUME PatientUser, MaxRequests > 0
  PROVE  Spec => []TypeOK
<1>1. ASSUME IInv, PatientInv, FolderInv, CountInv PROVE TypeOK
  <2> DEFINE Room == 2 * MaxRequests + MaxCopies
  <2>0. /\ MaxRequests \in Nat /\ MaxCopies \in Nat /\ MaxRequests >= 1 /\ MaxCopies >= 1
        /\ requests \in Nat /\ requests <= MaxRequests
        /\ copies \in Nat /\ copies <= MaxCopies
    BY <1>1, BoundsAssumption DEF CountInv
  <2>1. /\ client \in Resting \cup {"synack", "ready", "listing", "get_reply", "getting", "junk",
                                    "put_reply", "putting", "finack", "fin"}
        /\ child \in {"none", "starting", "request", "get_name", "put_name", "sending",
                      "receiving", "junk", "fin", "finack", "ended"}
        /\ residue \in BOOLEAN /\ clientResidue \in BOOLEAN
    BY <1>1 DEF IInv, Types, PatientInv, Talking, Connecting, Requesting, Downloading, Uploading, Leaving, Resting
  <2>2. clientFiles \in [Names -> Content] /\ serverFiles \in [Names -> Content]
        /\ payload \in Content
    <3>1. \A n \in Names : clientFiles[n] \in Content
      BY <1>1 DEF FolderInv, Kept, Content
    <3>2. \A n \in Names : serverFiles[n] \in Content
      BY <1>1 DEF FolderInv, PutInv, IInv, Kept, Content
    <3>3. payload \in Content
      BY <1>1 DEF FolderInv, Kept, Content
    <3> QED
      BY <1>1, <3>1, <3>2, <3>3 DEF IInv, Types
  <2>3. requests \in 0 .. MaxRequests /\ copies \in 0 .. MaxCopies
    BY <1>1 DEF CountInv
  <2>5. Len(toListener) \in Nat /\ Len(toChild) \in Nat /\ Len(toClient) \in Nat
    BY <1>1, SocketNumbers
  <2>4. ASSUME NEW n \in Nat,
               n = 0 \/ n = 1 \/ n = 2 \/ n <= 2 * requests \/ n <= copies \/ n <= copies + 1
        PROVE  n <= Room
    BY <2>0, <2>4
  <2> HIDE DEF Room
  <2>7. Len(toListener) <= Room
    <3>1. toListener = << >> \/ toListener = <<Command("syn")>>
      BY <1>1 DEF PatientInv, Talking, Connecting, Requesting, Downloading, Uploading, Leaving
    <3>2. Len(toListener) = 0 \/ Len(toListener) = 1
      BY <3>1, ShortSockets, Zenon
    <3> QED
      BY <2>4, <2>5, <3>2, Zenon
  <2>8. Len(toChild) <= Room
    <3>1. CASE Connecting \/ Downloading \/ Leaving
      <4>1. toChild = << >> \/ \E m : toChild = <<m>>
        BY <3>1, Zenon DEF Connecting, Downloading, Leaving
      <4>2. Len(toChild) = 0 \/ Len(toChild) = 1
        BY <4>1, ShortSockets, Zenon
      <4> QED
        BY <2>4, <2>5, <4>2, Zenon
    <3>2. CASE Requesting
      <4>1. Len(toChild) <= 2 * requests
        <5>1. Len(toChild) + One(child = "get_name") + One(client = "get_name") <= 2 * requests
          BY <1>1, <3>2 DEF Requesting, CountInv
        <5>2. One(child = "get_name") \in Nat /\ One(client = "get_name") \in Nat
          BY DEF One
        <5> QED
          BY <1>1, <2>0, <5>1, <5>2, SocketNumbers
      <4> QED
        BY <2>4, <2>5, <4>1, Zenon
    <3>3. CASE Uploading
      <4>1. \/ toChild = << >> \/ toChild = <<Name(clientName, clientResidue)>>
            \/ child = "junk" \/ (client = "putting" /\ child = "receiving")
        BY <3>3 DEF Uploading
      <4>2. child = "junk" \/ (client = "putting" /\ child = "receiving") => Len(toChild) <= copies
        BY <1>1, <2>0, SocketNumbers DEF CountInv
      <4>3. Len(toChild) = 0 \/ Len(toChild) = 1 \/ Len(toChild) <= copies
        BY <4>1, <4>2, ShortSockets, Zenon
      <4> QED
        BY <2>4, <2>5, <4>3, Zenon
    <3> QED
      BY <1>1, <3>1, <3>2, <3>3 DEF PatientInv, Talking
  <2>9. Len(toClient) <= Room
    <3>1. CASE Connecting \/ Requesting \/ Uploading \/ Leaving
      <4>1. toClient = << >> \/ \E m, n : toClient = <<m>> \/ toClient = <<m, n>>
        BY <3>1, Zenon DEF Connecting, Requesting, Uploading, Leaving
      <4>2. Len(toClient) = 0 \/ Len(toClient) = 1 \/ Len(toClient) = 2
        BY <4>1, ShortSockets, Zenon
      <4> QED
        BY <2>4, <2>5, <4>2, Zenon
    <3>2. CASE Downloading
      <4>1. One(client = "get_reply") = 0 \/ One(client = "get_reply") = 1
        BY DEF One
      <4>2. Len(toClient) <= copies + 1
        BY <1>1, <2>0, <3>2, <4>1, SocketNumbers DEF Downloading, CountInv
      <4> QED
        BY <2>4, <2>5, <4>2, Zenon
    <3> QED
      BY <1>1, <3>1, <3>2 DEF PatientInv, Talking
  <2> QED
    BY <2>1, <2>2, <2>3, <2>7, <2>8, <2>9 DEF TypeOK, Room
<1> QED
  BY <1>1, Serves, PTL

\* With such a user no wait is circular: whenever the client waits, it or the server has a
\* message to read or a packet to send, unless it waits for the list of an empty folder
\* (client.c:67, server.c:78).
THEOREM NoCircularWait ==
  ASSUME PatientUser
  PROVE  Spec => []NobodyStuck
<1>1. ASSUME IInv, PatientInv, FolderInv, CountInv, client \notin Resting
      PROVE  \/ ClientGoesOn \/ ServerGoesOn
             \/ client = "listing" /\ child = "sending" /\ payload = "empty"
  <2>0. /\ MaxCopies \in Nat /\ MaxCopies >= 1 /\ copies \in Nat /\ copies <= MaxCopies
        /\ Len(toChild) \in Nat /\ Len(toClient) \in Nat
        /\ toChild = << >> <=> Len(toChild) = 0
        /\ toClient = << >> <=> Len(toClient) = 0
    BY <1>1, BoundsAssumption, SocketLengths DEF CountInv
  <2>1. /\ \A m : <<m>> # << >> /\ Head(<<m>>) = m
        /\ \A m, n : <<m, n>> # << >>
        /\ Command("ack").type = "ack"
    BY OneMessage DEF Command, Message
  <2>2. CASE Connecting
    BY <1>1, <2>1, <2>2 DEF Connecting, ClientGoesOn, ServerGoesOn, Resting
  <2>3. CASE Requesting
    BY <1>1, <2>3, RequestWaits DEF Requesting, ServerGoesOn, Resting
  <2>4. CASE Downloading
    <3>1. CASE client \in {"listing", "getting"} /\ child = "sending"
      <4>1. Len(toClient) = copies
        BY <1>1, <2>0, <3>1 DEF CountInv, One
      <4>2. client = "getting" => payload # "empty"
        BY <1>1, <3>1 DEF FolderInv, Kept
      <4> QED
        BY <2>0, <3>1, <4>1, <4>2 DEF ClientGoesOn, ServerGoesOn
    <3>2. CASE client = "junk" /\ child = "sending" /\ toChild = <<Command("ack")>>
      BY <2>1, <3>2 DEF ServerGoesOn, FromChild
    <3> QED
      BY <1>1, <2>4, <3>1, <3>2 DEF Downloading, ClientGoesOn
  <2>5. CASE Uploading
    <3>1. CASE client = "putting" /\ child = "receiving"
      <4>1. /\ Len(toChild) = copies /\ clientFiles[clientName] # "empty"
            /\ Copies(toChild, clientFiles[clientName])
        BY <1>1, <2>5, <3>1 DEF CountInv, FolderInv, Kept, Uploading
      <4>2. toChild # << >> => FromChild("data")
        <5>1. toChild \in Seq(Messages) /\ clientFiles[clientName] \in Values
          BY <1>1 DEF IInv, Types
        <5>2. toChild # << >> => Head(toChild) = Message("data", clientFiles[clientName])
          BY <4>1, <5>1, CopiesKept, Zenon
        <5> QED
          BY <5>2 DEF FromChild, Message
      <4> QED
        BY <2>0, <3>1, <4>1, <4>2 DEF ClientGoesOn, ServerGoesOn
    <3> QED
      BY <1>1, <2>1, <2>5, <3>1 DEF Uploading, ClientGoesOn, ServerGoesOn, Resting
  <2>6. CASE Leaving
    BY <1>1, <2>1, <2>6 DEF Leaving, ClientGoesOn, ServerGoesOn, Resting
  <2> QED
    BY <1>1, <2>2, <2>3, <2>4, <2>5, <2>6 DEF PatientInv, Talking
<1>2. IInv /\ PatientInv /\ FolderInv /\ CountInv => NobodyStuck
  BY <1>1 DEF NobodyStuck
<1> QED
  BY <1>2, Serves, PTL

\* With such a user a session is a FileService: whole transfers between the two folders, each
\* the one that was asked for; the client is told that a file is not there (server.c:136) or
\* that its upload is refused (server.c:172) only when that is so; and the folder of the server
\* is only added to.
THEOREM Refinement ==
  ASSUME PatientUser
  PROVE  Spec => Implements
<1>1. Init => Service!Init
  <2>1. Init => Received(clientFiles) = Service!Folder(ClientFolder, "fromClient")
    BY DEF Init, Received, Folder, Service!Folder
  <2>2. Init => Received(serverFiles) = Service!Folder(ServerFolder, "fromServer")
    BY DEF Init, Received, Folder, Service!Folder
  <2>3. Init => client = "start" /\ clientName \in Names
    BY DEF Init
  <2> QED
    BY <2>1, <2>2, <2>3, Wishes DEF Service!Init
<1>2. UNCHANGED vars => [Service!Next]_(Service!vars)
  BY Stutters DEF Wish, Received, vars, clientVars, childVars
<1>3. IInv /\ PatientInv /\ FolderInv /\ [Next]_vars => [Service!Next]_(Service!vars)
  BY <1>2, UserServes, ClientServes, ServerServes, PatientInductive DEF Next
<1> QED
  BY <1>1, <1>3, Serves, PTL DEF Spec, Implements, Service!Spec
=============================================================================
