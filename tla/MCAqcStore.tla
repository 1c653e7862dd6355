------------------------------ MODULE MCAqcStore ------------------------------
(* A small instance of AqcStore for TLC: two colleagues and their computers. *)
EXTENDS AqcStore, TLC

CONSTANTS c1, c2, ann, bob

MCAccountOf == c1 :> ann @@ c2 :> bob
MCAppOf == c1 :> "aqc" @@ c2 :> "aqc"
MCApps == {"aqc"}

\* Sound: no property names a row or a client, none is a liveness property, and
\* the computers change places together with their owners.
ChangePlaces == c1 :> c2 @@ c2 :> c1 @@ ann :> bob @@ bob :> ann
Alike == Permutations(Rows) \cup {ChangePlaces}
===============================================================================
