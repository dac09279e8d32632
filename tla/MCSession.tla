------------------------------ MODULE MCSession ------------------------------
(* File names for Session, on both sides of the eight bytes of buff that are *)
(* cleared before a name is typed.                                           *)
EXTENDS Session

CONSTANTS a, b, c

ThreeToNine == [n \in Names |-> CASE n = a -> 3 [] n = b -> 8 [] OTHER -> 9]
AllShort == [n \in Names |-> 5]
=============================================================================
