----------------------------- MODULE MCFileLoad -----------------------------
(***************************************************************************)
(* Versions that are empty, of one byte, of three with a byte order mark   *)
(* and without, and longer ones; each can follow each.  The last is longer *)
(* than an unsigned int of the model can tell.                             *)
(***************************************************************************)
EXTENDS FileLoad

MCLength == <<0, 1, 3, 4, 5>>
=============================================================================
