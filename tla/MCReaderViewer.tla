---------------------------- MODULE MCReaderViewer -----------------------------
(***************************************************************************)
(* Small instances of ReaderViewer for TLC.                                *)
(***************************************************************************)
EXTENDS ReaderViewer

CONSTANTS reader, k1, k2, k3

MCKeys == {k1, k2, k3}

\* Of each level one: everything, the first chapter, the second.
MCAnswers ==
    {[level |-> "Master", chapters |-> {}], [level |-> "Apprentice", chapters |-> {1}],
     [level |-> "Novice", chapters |-> {2}]}
================================================================================
