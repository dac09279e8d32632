----------------------------- MODULE MCFileStore -----------------------------
(* Two children and two names for FileStore.                                 *)
EXTENDS FileStore

CONSTANTS c1, c2, a, b
=============================================================================
