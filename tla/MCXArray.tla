------------------------------ MODULE MCXArray ------------------------------
(***************************************************************************)
(* Memory for five strings of two texts: the array grows from two slots to *)
(* four and to eight.  Addresses are interchangeable; the properties are   *)
(* safety properties, for which the symmetry is sound.                     *)
(***************************************************************************)
EXTENDS XArray, TLC

Symmetric == Permutations(Addresses)
=============================================================================
