---------------------------- MODULE FileDelivery ----------------------------
(***************************************************************************)
(* What one file transfer promises, whatever the network does: the         *)
(* receiver first comes to hold every packet of the file, then writes      *)
(* exactly that file, once; the sender reports the transfer finished only  *)
(* when the receiver holds everything.  Nothing is said of how packets,    *)
(* windows, acknowledgements and timers bring this about: module Transfer  *)
(* does that, and is shown to implement this specification.                *)
(***************************************************************************)
EXTENDS Naturals, Sequences

CONSTANT File        \* the file sent: the sequence of the chunks it is cut into

VARIABLES
  stage,             \* "receiving", "held" (every packet buffered), "written"
  file,              \* what the receiving side has written to its descriptor
  reported           \* TRUE when the sending side has announced the end

vars == <<stage, file, reported>>

Init ==
  /\ stage = "receiving"
  /\ file = << >>
  /\ reported = FALSE

\* The last missing packet reaches the receiver.
Complete ==
  /\ stage = "receiving"
  /\ stage' = "held"
  /\ UNCHANGED <<file, reported>>

\* The receiver writes the file it holds.
Write ==
  /\ stage = "held"
  /\ stage' = "written"
  /\ file' = File
  /\ UNCHANGED reported

\* The sender announces the end of the transfer.
Report ==
  /\ stage # "receiving"
  /\ reported = FALSE
  /\ reported' = TRUE
  /\ UNCHANGED <<stage, file>>

Next == Complete \/ Write \/ Report

Spec == Init /\ [][Next]_vars
=============================================================================
