------------------------- MODULE MCChapterPublishing --------------------------
(***************************************************************************)
(* Small instances of ChapterPublishing for TLC.  A rewrite of access.txt  *)
(* that is broken off may leave chapter 12 as chapter 1.                   *)
(***************************************************************************)
EXTENDS ChapterPublishing

CONSTANTS
    ann, bob, eve,
    k1, k2,     \* two RSA public keys
    bad         \* a key that does not parse

Offer(k, level, chapters) == [key |-> k, level |-> level, chapters |-> chapters]

\* A Master, a Novice, and a Master whose key does not parse.
MCOffers ==
    {Offer(k1, "Master", {}), Offer(k1, "Novice", {12}), Offer(bad, "Master", {})}

\* Two keys, so that a reader may come back with another one.
MCTwoKeys == {Offer(k1, "Novice", {12}), Offer(k2, "Master", {})}
===============================================================================
