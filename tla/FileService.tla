----------------------------- MODULE FileService -----------------------------
(***************************************************************************)
(* What a session promises to its user: files move between two folders,    *)
(* whole, one at a time and only when they are asked for; the server says  *)
(* that a file is not there, or that it already is, only when that is so;  *)
(* and its own files are only added to.  Nothing is said of messages,      *)
(* sockets and positions in the programs: module Session does that, and is *)
(* shown to implement this specification for a user who gives the server   *)
(* time, and who declines to overwrite only when it will be understood.    *)
(***************************************************************************)
CONSTANTS
  Names,         \* file names
  ServerFolder,  \* files of the server at the start
  ClientFolder   \* files of the client at the start

VARIABLES
  wish,          \* what the user waits for: "none", "get", "put"; "over" at the end
  name,          \* the name typed last
  clientFiles,   \* where the content of each file of the client was made, or "absent"
  serverFiles    \* the same for the server

vars == <<wish, name, clientFiles, serverFiles>>

Folder(names, content) == [n \in Names |-> IF n \in names THEN content ELSE "absent"]

Init ==
  /\ wish = "none" /\ name \in Names
  /\ clientFiles = Folder(ClientFolder, "fromClient")
  /\ serverFiles = Folder(ServerFolder, "fromServer")

\* The copy that the client has of the file is given up before the answer.
AskDownload(n) ==
  /\ wish = "none"
  /\ wish' = "get" /\ name' = n
  /\ clientFiles' = [clientFiles EXCEPT ![n] = "absent"]
  /\ UNCHANGED serverFiles

Download ==
  /\ wish = "get" /\ serverFiles[name] # "absent"
  /\ wish' = "none"
  /\ clientFiles' = [clientFiles EXCEPT ![name] = serverFiles[name]]
  /\ UNCHANGED <<name, serverFiles>>

\* A file that is not there ends the session.
NotFound ==
  /\ wish = "get" /\ serverFiles[name] = "absent"
  /\ wish' = "over"
  /\ UNCHANGED <<name, clientFiles, serverFiles>>

AskUpload(n) ==
  /\ wish = "none" /\ clientFiles[n] # "absent"
  /\ wish' = "put" /\ name' = n
  /\ UNCHANGED <<clientFiles, serverFiles>>

Upload ==
  /\ wish = "put" /\ serverFiles[name] = "absent"
  /\ wish' = "none"
  /\ serverFiles' = [serverFiles EXCEPT ![name] = clientFiles[name]]
  /\ UNCHANGED <<name, clientFiles>>

\* A file of the server is not overwritten.
Refuse ==
  /\ wish = "put" /\ serverFiles[name] # "absent"
  /\ wish' = "none"
  /\ UNCHANGED <<name, clientFiles, serverFiles>>

Leave ==
  /\ wish = "none"
  /\ wish' = "over"
  /\ UNCHANGED <<name, clientFiles, serverFiles>>

Next ==
  \/ \E n \in Names : AskDownload(n) \/ AskUpload(n)
  \/ Download \/ NotFound \/ Upload \/ Refuse \/ Leave

Spec == Init /\ [][Next]_vars
=============================================================================
