------------------------------ MODULE Characters ------------------------------
(***************************************************************************)
(* The two characters that the formats of text use to set off others.      *)
(***************************************************************************)
EXTENDS Integers, SequencesExt

Quote == "quote"
Backslash == "backslash"
===============================================================================
