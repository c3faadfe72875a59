---------------------------- MODULE MCGitBootstrap ----------------------------
(***************************************************************************)
(* GitBootstrap for TLC: every git command may fail, and so may the write  *)
(* of .gitignore.                                                          *)
(***************************************************************************)
EXTENDS GitBootstrap

AnyFailing == LocalCommands \cup {"seed", "push", "upstream", "crash"}
===============================================================================
