---------------------------- MODULE SessionProofs ----------------------------
(***************************************************************************)
(* Proofs about Session, for any names, folders, requests and copies, and  *)
(* a user who waits or not: whatever clear_junk swallows and whatever is   *)
(* taken for something else, no session overwrites a file of the server.   *)
(***************************************************************************)
EXTENDS Session, TLAPS

\* What a message may carry, or a file may hold when a message is taken for a packet.
Values == Names \cup Content \cup {"none"}
Kinds == {"syn", "synack", "ready", "list", "get", "put", "name", "nooverwr", "found", "notfound",
          "data", "ack", "ack_none", "close", "fin", "ackfin"}
Messages ==
  {m \in [type : Kinds, arg : Values, tail : BOOLEAN] : m.type = "name" => m.arg \in Names}

Types ==
  /\ path \in Names /\ clientName \in Names
  /\ serverFiles \in [Names -> Values] /\ clientFiles \in [Names -> Values]
  /\ payload \in Values /\ clientResidue \in BOOLEAN /\ residue \in BOOLEAN
  /\ toListener \in Seq(Messages) /\ toChild \in Seq(Messages) /\ toClient \in Seq(Messages)

\* Behind a PUT there is its name, if it is read at all.
NameFollows(s) ==
  \A i \in 1 .. Len(s) : s[i].type = "put" => i < Len(s) /\ s[i + 1].arg \in Names

\* The child opens for writing a file that it has just created.
PutInv ==
  /\ NameFollows(toChild)
  /\ child = "put_name" => toChild # << >> /\ Head(toChild).arg \in Names
  /\ child = "receiving" => serverFiles[path] = "empty"

IInv == Types /\ PutInv

-----------------------------------------------------------------------------
(* Sockets.                                                                  *)

LEMMA Commands ==
  ASSUME NEW type \in Kinds \ {"name"}
  PROVE  Command(type) \in Messages /\ Command(type).type = type
BY DEF Command, Message, Messages, Values

LEMMA NameMessages ==
  ASSUME NEW n \in Names, NEW t \in BOOLEAN
  PROVE  Name(n, t) \in Messages /\ Name(n, t).type = "name"
         /\ Name(n, t).arg = n /\ Name(n, t).tail = t
BY DEF Name, Messages, Kinds, Values

LEMMA DataMessages ==
  ASSUME NEW v \in Values
  PROVE  Message("data", v) \in Messages /\ Message("data", v).type = "data"
BY DEF Message, Messages, Kinds, Values

LEMMA Reads ==
  ASSUME NEW s \in Seq(Messages), s # << >>
  PROVE  /\ Tail(s) \in Seq(Messages) /\ Head(s) \in Messages /\ Head(s) = s[1]
         /\ Head(s).arg \in Values /\ Head(s).tail \in BOOLEAN
         /\ Head(s).type = "name" => Head(s).arg \in Names
BY DEF Messages

LEMMA ReadFollows ==
  ASSUME NEW s \in Seq(Messages), s # << >>, NameFollows(s)
  PROVE  /\ NameFollows(Tail(s))
         /\ Head(s).type = "put" => Tail(s) # << >> /\ Head(Tail(s)).arg \in Names
<1>1. /\ Len(s) \in Nat /\ Len(s) >= 1 /\ Len(Tail(s)) = Len(s) - 1 /\ Head(s) = s[1]
      /\ \A i \in 1 .. Len(s) - 1 : Tail(s)[i] = s[i + 1]
      /\ Tail(s) \in Seq(Messages)
  OBVIOUS
<1>2. NameFollows(Tail(s))
  BY <1>1 DEF NameFollows
<1>3. ASSUME Head(s).type = "put" PROVE Tail(s) # << >> /\ Head(Tail(s)).arg \in Names
  <2>1. Len(s) > 1 /\ s[2].arg \in Names
    BY <1>1, <1>3 DEF NameFollows
  <2>2. \A t \in Seq(Messages) : Len(t) >= 1 => t # << >> /\ Head(t) = t[1]
    OBVIOUS
  <2>3. Len(Tail(s)) >= 1 /\ Tail(s)[1] = s[2]
    BY <1>1, <2>1
  <2>4. Tail(s) # << >> /\ Head(Tail(s)) = s[2]
    BY <1>1, <2>2, <2>3
  <2> QED
    BY <2>1, <2>4
<1> QED
  BY <1>2, <1>3

LEMMA AppendFollows ==
  ASSUME NEW s \in Seq(Messages), NEW m \in Messages, m.type # "put", NameFollows(s)
  PROVE  /\ Append(s, m) \in Seq(Messages) /\ NameFollows(Append(s, m))
         /\ s # << >> => Append(s, m) # << >> /\ Head(Append(s, m)) = Head(s)
<1>1. /\ Len(s) \in Nat /\ Len(Append(s, m)) = Len(s) + 1
      /\ \A i \in 1 .. Len(s) : Append(s, m)[i] = s[i]
      /\ Append(s, m)[Len(s) + 1] = m
  OBVIOUS
<1>2. NameFollows(Append(s, m))
  BY <1>1 DEF NameFollows
<1> QED
  BY <1>1, <1>2

LEMMA PutFollows ==
  ASSUME NEW s \in Seq(Messages), NEW p \in Messages, NEW q \in Messages,
         q.type # "put", p.type = "put" => q.arg \in Names, NameFollows(s)
  PROVE  /\ s \o <<p, q>> \in Seq(Messages) /\ NameFollows(s \o <<p, q>>)
         /\ s # << >> => s \o <<p, q>> # << >> /\ Head(s \o <<p, q>>) = Head(s)
<1> DEFINE t == s \o <<p, q>>
<1>1. /\ Len(s) \in Nat /\ Len(t) = Len(s) + 2 /\ t \in Seq(Messages)
      /\ \A i \in 1 .. Len(s) : t[i] = s[i]
      /\ t[Len(s) + 1] = p /\ t[Len(s) + 2] = q
  OBVIOUS
<1> HIDE DEF t
<1>2. NameFollows(t)
  BY <1>1 DEF NameFollows
<1>3. s # << >> => t # << >> /\ Head(t) = Head(s)
  BY <1>1
<1> QED
  BY <1>1, <1>2, <1>3 DEF t

-----------------------------------------------------------------------------
(* The invariant.                                                            *)

LEMMA InitInv == Init => IInv
<1> SUFFICES ASSUME Init PROVE IInv
  OBVIOUS
<1>1. Types
  <2>1. clientFiles \in [Names -> Values] /\ serverFiles \in [Names -> Values]
    BY DEF Init, Folder, Values, Content
  <2>2. /\ path \in Names /\ clientName \in Names /\ payload \in Values
        /\ clientResidue \in BOOLEAN /\ residue \in BOOLEAN
    BY DEF Init, Values, Content
  <2>3. toListener \in Seq(Messages) /\ toChild \in Seq(Messages) /\ toClient \in Seq(Messages)
    BY DEF Init
  <2> QED
    BY <2>1, <2>2, <2>3 DEF Types
<1>2. PutInv
  BY DEF Init, PutInv, NameFollows
<1> QED
  BY <1>1, <1>2 DEF IInv

\* What the client does to the invariant: it only adds to the socket of the child.
LEMMA ClientSide ==
  ASSUME IInv, clientName' \in Names, clientFiles' \in [Names -> Values],
         clientResidue' \in BOOLEAN,
         toListener' \in Seq(Messages), toClient' \in Seq(Messages), UNCHANGED childVars,
         \/ toChild' = toChild
         \/ \E m \in Messages : m.type # "put" /\ toChild' = Append(toChild, m)
         \/ \E p, q \in Messages : /\ q.type # "put" /\ (p.type = "put" => q.arg \in Names)
                                   /\ toChild' = toChild \o <<p, q>>
  PROVE  IInv'
<1>1. /\ toChild' \in Seq(Messages) /\ NameFollows(toChild')
      /\ toChild # << >> => toChild' # << >> /\ Head(toChild') = Head(toChild)
  <2>0. toChild \in Seq(Messages) /\ NameFollows(toChild)
    BY DEF IInv, Types, PutInv
  <2>1. CASE toChild' = toChild
    BY <2>0, <2>1
  <2>2. ASSUME NEW m \in Messages, m.type # "put", toChild' = Append(toChild, m)
        PROVE  /\ toChild' \in Seq(Messages) /\ NameFollows(toChild')
               /\ toChild # << >> => toChild' # << >> /\ Head(toChild') = Head(toChild)
    BY <2>0, <2>2, AppendFollows
  <2>3. ASSUME NEW p \in Messages, NEW q \in Messages, q.type # "put",
               p.type = "put" => q.arg \in Names, toChild' = toChild \o <<p, q>>
        PROVE  /\ toChild' \in Seq(Messages) /\ NameFollows(toChild')
               /\ toChild # << >> => toChild' # << >> /\ Head(toChild') = Head(toChild)
    BY <2>0, <2>3, PutFollows
  <2> QED
    BY <2>1, <2>2, <2>3
<1> QED
  BY <1>1 DEF IInv, Types, PutInv, childVars

\* What a step of the child that reads, or not, its socket does to it.
LEMMA ChildSide ==
  ASSUME IInv, path' \in Names, serverFiles' \in [Names -> Values], payload' \in Values,
         residue' \in BOOLEAN,
         toListener' \in Seq(Messages), toClient' \in Seq(Messages), UNCHANGED clientVars,
         toChild' = toChild \/ (toChild # << >> /\ toChild' = Tail(toChild)),
         child' # "put_name",
         child' = "receiving" => serverFiles'[path'] = "empty"
  PROVE  IInv'
<1>1. toChild' \in Seq(Messages) /\ NameFollows(toChild')
  BY Reads, ReadFollows DEF IInv, Types, PutInv
<1> QED
  BY <1>1 DEF IInv, Types, PutInv, clientVars

LEMMA UserStep ==
  ASSUME IInv, User
  PROVE  IInv'
<1>0. \A type \in {"list", "get", "nooverwr", "put", "close", "fin"} :
           Command(type) \in Messages /\ Command(type).type = type
  BY Commands DEF Kinds
<1>1. CASE RequestList
  BY <1>0, <1>1, ClientSide DEF RequestList, Ask, IInv, Types
<1>2. CASE RequestGet
  BY <1>0, <1>2, ClientSide DEF RequestGet, Ask, IInv, Types
<1>3. CASE RequestClose
  BY <1>0, <1>3, ClientSide DEF RequestClose, Ask, IInv, Types
<1>4. \A n \in Names : Typed(n) \in BOOLEAN
  BY DEF Typed
<1>5. ASSUME NEW n \in Names, RequestPut(n) PROVE IInv'
  <2>1. clientResidue' \in BOOLEAN
    BY <1>4, <1>5 DEF RequestPut
  <2>2. /\ toChild' = toChild \o <<Command("put"), Name(n, clientResidue')>>
        /\ Command("put") \in Messages /\ Name(n, clientResidue') \in Messages
        /\ Name(n, clientResidue').type # "put" /\ Name(n, clientResidue').arg \in Names
    BY <1>0, <1>5, <2>1, NameMessages DEF RequestPut
  <2> QED
    BY <1>5, <2>1, <2>2, ClientSide DEF RequestPut, Ask, IInv, Types
<1>6. ASSUME NEW n \in Names, RequestMissing(n) PROVE IInv'
  <2>1. clientResidue' \in BOOLEAN
    BY <1>4, <1>6 DEF RequestMissing
  <2> QED
    BY <1>6, <2>1, ClientSide DEF RequestMissing, net, IInv, Types
<1>7. ASSUME NEW n \in Names, RefuseOverwrite(n) PROVE IInv'
  <2>1. clientResidue' \in BOOLEAN
    BY <1>4, <1>7 DEF RefuseOverwrite
  <2> QED
    BY <1>0, <1>7, <2>1, ClientSide DEF RefuseOverwrite, IInv, Types
<1>8. ASSUME NEW n \in Names, NameDownload(n) PROVE IInv'
  <2>1. clientResidue' \in BOOLEAN
    BY <1>4, <1>8 DEF NameDownload
  <2>2. clientFiles' \in [Names -> Values]
    BY <1>8 DEF NameDownload, IInv, Types, Values, Content
  <2>3. /\ Name(n, clientResidue') \in Messages /\ Name(n, clientResidue').type # "put"
        /\ toChild' = Append(toChild, Name(n, clientResidue'))
    BY <1>8, <2>1, NameMessages DEF NameDownload
  <2> QED
    BY <1>8, <2>1, <2>2, <2>3, ClientSide DEF NameDownload, IInv, Types
<1> QED
  BY <1>1, <1>2, <1>3, <1>5, <1>6, <1>7, <1>8 DEF User

LEMMA ClientStep ==
  ASSUME IInv, Client
  PROVE  IInv'
<1>1. toClient # << >> => /\ Tail(toClient) \in Seq(Messages)
                          /\ Head(toClient).arg \in Values
  BY Reads DEF IInv, Types
<1>2. CASE ClientSyn
  <2>1. toListener' \in Seq(Messages)
    BY <1>2, Commands DEF ClientSyn, Kinds, IInv, Types
  <2> QED
    BY <1>2, <2>1, ClientSide DEF ClientSyn, IInv, Types
<1>3. CASE ClientSynack
  BY <1>1, <1>3, ClientSide DEF ClientSynack, IInv, Types
<1>4. CASE ClientReady
  BY <1>1, <1>4, ClientSide DEF ClientReady, IInv, Types
<1>5. CASE DownloadReply
  <2>1. clientFiles' \in [Names -> Values]
    BY <1>5 DEF DownloadReply, IInv, Types, Values, Content
  <2> QED
    BY <1>1, <1>5, <2>1, ClientSide DEF DownloadReply, IInv, Types
<1>6. CASE UploadReply
  BY <1>1, <1>6, ClientSide DEF UploadReply, IInv, Types
<1>7. CASE ClientReceives
  <2>1. clientFiles' \in [Names -> Values]
    BY <1>1, <1>7 DEF ClientReceives, IInv, Types, Values, Content
  <2>2. clientResidue' \in BOOLEAN
    BY <1>7 DEF ClientReceives
  <2>3. \E m \in Messages : m.type # "put" /\ toChild' = Append(toChild, m)
    BY <1>7, Commands DEF ClientReceives, Kinds
  <2>4. UNCHANGED <<clientName, toListener, childVars>> /\ toClient' = Tail(toClient)
        /\ toClient # << >>
    BY <1>7 DEF ClientReceives
  <2> QED
    BY <1>1, <2>1, <2>2, <2>3, <2>4, ClientSide DEF IInv, Types
<1>8. CASE ClientJunk
  BY <1>1, <1>8, ClientSide DEF ClientJunk, clientVars, IInv, Types
<1>9. CASE ClientJunkEnds
  <2>1. Command("get") \in Messages /\ Command("get").type # "put"
    BY Commands DEF Kinds
  <2>2. toChild' = toChild \/ toChild' = Append(toChild, Command("get"))
    BY <1>9 DEF ClientJunkEnds
  <2> QED
    BY <1>9, <2>1, <2>2, ClientSide DEF ClientJunkEnds, IInv, Types
<1>10. CASE ClientSends
  <2>1. clientFiles[clientName] \in Values
    BY DEF IInv, Types
  <2> QED
    BY <1>10, <2>1, DataMessages, ClientSide DEF ClientSends, clientVars, IInv, Types
<1>11. CASE ClientAcked
  BY <1>1, <1>11, ClientSide DEF ClientAcked, IInv, Types
<1>12. CASE ClientFinack
  BY <1>1, <1>12, ClientSide DEF ClientFinack, IInv, Types
<1>13. CASE ClientFin
  <2>1. Command("ackfin") \in Messages /\ Command("ackfin").type # "put"
    BY Commands DEF Kinds
  <2>2. toChild' = toChild \/ toChild' = Append(toChild, Command("ackfin"))
    BY <1>13 DEF ClientFin
  <2> QED
    BY <1>1, <1>13, <2>1, <2>2, ClientSide DEF ClientFin, IInv, Types
<1> QED
  BY <1>2, <1>3, <1>4, <1>5, <1>6, <1>7, <1>8, <1>9, <1>10, <1>11, <1>12, <1>13 DEF Client

LEMMA NinthTypes ==
  ASSUME NEW m \in Messages, residue \in BOOLEAN
  PROVE  ninth(m) \subseteq BOOLEAN /\ NinthListed(ninth(m)) \subseteq BOOLEAN
<1>1. ninth(m) \subseteq BOOLEAN
  BY DEF ninth, Messages
<1>2. \A n \in Listed : (Length[n] > 7) \in BOOLEAN
  OBVIOUS
<1> QED
  BY <1>1, <1>2 DEF NinthListed

LEMMA ServerStep ==
  ASSUME IInv, Server
  PROVE  IInv'
<1>1. /\ toChild # << >> => /\ Head(toChild).arg \in Values /\ Head(toChild).tail \in BOOLEAN
                            /\ Head(toChild).type = "name" => Head(toChild).arg \in Names
      /\ toListener # << >> => Tail(toListener) \in Seq(Messages)
  BY Reads DEF IInv, Types
<1>2. \A type \in {"synack", "ready", "found", "notfound", "nooverwr", "ack"} :
        Append(toClient, Command(type)) \in Seq(Messages)
  BY Commands DEF Kinds, IInv, Types
<1>3. CASE ServerAccept
  BY <1>1, <1>2, <1>3, ChildSide DEF ServerAccept, IInv, Types
<1>4. CASE ChildReady
  BY <1>2, <1>4, ChildSide DEF ChildReady, IInv, Types
<1>5. CASE ReadRequest
  <2>0. child' = "put_name" => Head(toChild).type = "put"
    BY <1>5 DEF ReadRequest, command
  <2>1. /\ path' = path /\ serverFiles' = serverFiles /\ toListener' = toListener
        /\ toClient' = toClient /\ clientVars' = clientVars /\ payload' \in Values
        /\ toChild # << >> /\ toChild' = Tail(toChild)
        /\ child' \in {"sending", "get_name", "put_name", "fin", "request"}
    BY <1>5 DEF ReadRequest, IInv, Types, Values, Content
  <2>3. residue' \in BOOLEAN
    <3> DEFINE read == ninth(Head(toChild))
               listed == NinthListed(ninth(Head(toChild)))
    <3>1. Head(toChild) \in Messages /\ residue \in BOOLEAN
      BY <1>5, Reads DEF ReadRequest, IInv, Types
    <3>2. residue' \in listed \/ residue' \in read
      BY <1>5 DEF ReadRequest
    <3>3. read \subseteq BOOLEAN /\ listed \subseteq BOOLEAN
      BY <3>1, NinthTypes
    <3> HIDE DEF read, listed
    <3> QED
      BY <3>2, <3>3
  <2>2. /\ toChild' \in Seq(Messages) /\ NameFollows(toChild')
        /\ child' = "put_name" => toChild' # << >> /\ Head(toChild').arg \in Names
    BY <2>0, <2>1, Reads, ReadFollows DEF IInv, Types, PutInv
  <2> QED
    BY <2>0, <2>1, <2>2, <2>3 DEF IInv, Types, PutInv, clientVars
<1>6. CASE ChildGetName
  <2>1. /\ path' \in Names /\ payload' \in Values /\ toClient' \in Seq(Messages)
        /\ child' \in {"sending", "request", "ended"} /\ residue' \in BOOLEAN
    BY <1>1, <1>2, <1>6 DEF ChildGetName, requested, IInv, Types
  <2> QED
    BY <1>6, <2>1, ChildSide DEF ChildGetName, IInv, Types
<1>7. CASE ChildPutName
  <2>1. Head(toChild).arg \in Names
    BY <1>7 DEF ChildPutName, IInv, PutInv
  <2>2. /\ path' \in Names /\ serverFiles' \in [Names -> Values] /\ toClient' \in Seq(Messages)
        /\ residue' \in BOOLEAN
        /\ child' \in {"request", "receiving"}
        /\ child' = "receiving" => serverFiles'[path'] = "empty"
    BY <1>1, <1>2, <1>7, <2>1
    DEF ChildPutName, present, refuse_upload, IInv, Types, Values, Content
  <2> QED
    BY <1>7, <2>2, ChildSide DEF ChildPutName, IInv, Types
<1>8. CASE ChildSends
  <2>1. toClient' \in Seq(Messages)
    BY <1>8, DataMessages DEF ChildSends, IInv, Types
  <2> QED
    BY <1>8, <2>1, ChildSide DEF ChildSends, childVars, IInv, Types
<1>9. CASE ChildAcked
  BY <1>9, ChildSide DEF ChildAcked, FromChild, IInv, Types
<1>10. CASE ChildReceives
  <2>1. serverFiles' \in [Names -> Values]
    BY <1>1, <1>10 DEF ChildReceives, FromChild, IInv, Types
  <2> QED
    BY <1>2, <1>10, <2>1, ChildSide DEF ChildReceives, FromChild, IInv, Types
<1>11. CASE ChildJunk
  BY <1>11, ChildSide DEF ChildJunk, childVars, IInv, Types
<1>12. CASE ChildJunkEnds
  BY <1>12, ChildSide DEF ChildJunkEnds, net, IInv, Types
<1>13. CASE ChildFin
  <2>1. toClient \o <<Command("ackfin"), Command("fin")>> \in Seq(Messages)
    BY Commands DEF Kinds, IInv, Types
  <2> QED
    BY <1>13, <2>1, ChildSide DEF ChildFin, IInv, Types
<1>14. CASE ChildFinack
  BY <1>14, ChildSide DEF ChildFinack, IInv, Types
<1> QED
  BY <1>3, <1>4, <1>5, <1>6, <1>7, <1>8, <1>9, <1>10, <1>11, <1>12, <1>13, <1>14 DEF Server

LEMMA Inductive == IInv /\ [Next]_vars => IInv'
<1>1. IInv /\ UNCHANGED vars => IInv'
  BY DEF IInv, Types, PutInv, NameFollows, vars, clientVars, childVars, net
<1> QED
  BY <1>1, UserStep, ClientStep, ServerStep DEF Next

-----------------------------------------------------------------------------
(* Theorem.                                                                  *)

\* A file of the server never changes once it has been received: a child writes only
\* the file it has created for the PUT it serves (server.c:163-190), whatever messages
\* it has thrown away or taken for others.
THEOREM ServerFilesStay == Spec => NeverOverwritten
<1> DEFINE Stays == \A n \in Names : serverFiles[n] \in {"fromServer", "fromClient"}
                      => serverFiles'[n] = serverFiles[n]
<1>1. ASSUME IInv, ChildPutName PROVE Stays
  <2>1. \/ serverFiles' = serverFiles
        \/ /\ serverFiles[Head(toChild).arg] = "absent"
           /\ serverFiles' = [serverFiles EXCEPT ![Head(toChild).arg] = "empty"]
    BY <1>1 DEF ChildPutName, present
  <2> QED
    BY <1>1, <2>1 DEF IInv, Types
<1>2. ASSUME IInv, ChildReceives PROVE Stays
  BY <1>2 DEF ChildReceives, IInv, Types, PutInv
<1>3. ASSUME [Next]_vars, ~ChildPutName, ~ChildReceives PROVE UNCHANGED serverFiles
  <2>1. ASSUME User PROVE UNCHANGED serverFiles
    BY <2>1 DEF User, RequestList, RequestGet, RequestClose, RequestPut, RequestMissing,
                RefuseOverwrite, NameDownload, childVars
  <2>2. ASSUME Client PROVE UNCHANGED serverFiles
    BY <2>2 DEF Client, ClientSyn, ClientSynack, ClientReady, DownloadReply, UploadReply,
                ClientReceives, ClientJunk, ClientJunkEnds, ClientSends, ClientAcked,
                ClientFinack, ClientFin, childVars
  <2>3. ASSUME Server PROVE UNCHANGED serverFiles
    BY <1>3, <2>3 DEF Server, ServerAccept, ChildReady, ReadRequest, ChildGetName, ChildSends,
                      ChildAcked, ChildJunk, ChildJunkEnds, ChildFin, ChildFinack, childVars
  <2> QED
    BY <1>3, <2>1, <2>2, <2>3 DEF Next, vars, childVars
<1>4. IInv /\ [Next]_vars => [Stays]_vars
  BY <1>1, <1>2, <1>3
<1> QED
  BY <1>4, InitInv, Inductive, PTL DEF Spec, NeverOverwritten
=============================================================================
