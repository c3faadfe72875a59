------------------------------ MODULE MCRoleLock ------------------------------
(***************************************************************************)
(* Small instances of RoleLock for TLC.                                    *)
(***************************************************************************)
EXTENDS RoleLock

CONSTANTS p, q
===============================================================================
