--------------------------- MODULE ReaderDirectory ----------------------------
(***************************************************************************)
(* What the access registry promises to the rest of the program: a map     *)
(* from names to entries in which a reader is registered at most once, and *)
(* in which an edit changes the level and the chapters of one reader.      *)
(***************************************************************************)
CONSTANTS Names, Entry, None

VARIABLE dir

Init == dir = [n \in Names |-> None]

Register(n, e) ==
    /\ dir[n] = None
    /\ dir' = [dir EXCEPT ![n] = e]

Assign(n, e) ==
    /\ dir[n] # None
    /\ e.key = dir[n].key
    /\ dir' = [dir EXCEPT ![n] = e]

Next == \E n \in Names, e \in Entry : Register(n, e) \/ Assign(n, e)

Spec == Init /\ [][Next]_dir
===============================================================================
