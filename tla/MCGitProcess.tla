----------------------------- MODULE MCGitProcess -----------------------------
(***************************************************************************)
(* Small instances of GitProcess for TLC.                                  *)
(***************************************************************************)
EXTENDS GitProcess
===============================================================================
