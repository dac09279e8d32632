--------------------------- MODULE StreamDelivery ---------------------------
(***************************************************************************)
(* What the earlier protocol promises of a transfer, both of whose sides   *)
(* may give up: the receiver's file grows, from its start and in order,    *)
(* while the receiver is at work; the sender reports the end only when the *)
(* file is whole, and the receiver keeps it only after that.  Module       *)
(* SelectiveRepeat brings this about, and is shown to implement it.        *)
(***************************************************************************)
EXTENDS Naturals, Sequences

CONSTANT File        \* the file sent: the sequence of its packets

VARIABLES
  sender,            \* "sending", "finished" or "failed"
  receiver,          \* "receiving", "received" or "failed" (the file is removed)
  file               \* what is written

vars == <<sender, receiver, file>>

Init ==
  /\ sender = "sending"
  /\ receiver = "receiving"
  /\ file = << >>

\* One packet or several, also when the sender has given up.
Deliver ==
  /\ receiver = "receiving"
  /\ \E n \in Len(file) + 1 .. Len(File) : file' = SubSeq(File, 1, n)
  /\ UNCHANGED <<sender, receiver>>

Finish ==
  /\ sender = "sending" /\ file = File
  /\ sender' = "finished"
  /\ UNCHANGED <<receiver, file>>

Accept ==
  /\ sender = "finished" /\ receiver = "receiving"
  /\ receiver' = "received"
  /\ UNCHANGED <<sender, file>>

SenderGivesUp ==
  /\ sender = "sending"
  /\ sender' = "failed"
  /\ UNCHANGED <<receiver, file>>

ReceiverGivesUp ==
  /\ receiver = "receiving"
  /\ receiver' = "failed"
  /\ UNCHANGED <<sender, file>>

Next == Deliver \/ Finish \/ Accept \/ SenderGivesUp \/ ReceiverGivesUp

Spec == Init /\ [][Next]_vars
=============================================================================
