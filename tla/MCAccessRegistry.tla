--------------------------- MODULE MCAccessRegistry ---------------------------
(***************************************************************************)
(* Small instances of AccessRegistry for TLC.                              *)
(***************************************************************************)
EXTENDS AccessRegistry

CONSTANTS ann, bob, k1, k2

MCLine(n, k, level, chapters) ==
    [fields |-> 4, name |-> n, key |-> k, level |-> level, chapters |-> chapters]

\* A second line for a name, one with an unknown level, one with a letter in its list.
MixedHandLines ==
    {MCLine(ann, k2, "Novice", {12}),
     MCLine(bob, k2, "?", {}),
     MCLine(bob, k2, "Apprentice", {BadNumber})}

NoLines == {}
===============================================================================
