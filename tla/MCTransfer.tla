----------------------------- MODULE MCTransfer -----------------------------
(* Small files for Transfer: the chunks all differ, so that a packet stored  *)
(* in the place of another one shows.                                        *)
EXTENDS Transfer

CONSTANTS c1, c2, c3, c4

Chunks == {c1, c2, c3, c4}
File0 == << >>
File2 == <<c1, c2>>
File3 == <<c1, c2, c3>>
File4 == <<c1, c2, c3, c4>>
=============================================================================
