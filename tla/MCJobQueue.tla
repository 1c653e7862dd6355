----------------------------- MODULE MCJobQueue -------------------------------
(* Small instances of JobQueue for TLC.                                     *)
EXTENDS JobQueue, TLC

CallsFail == {"call", "reply"}
EverythingFails == FaultKinds

\* Sound for the safety properties only, which name no worker.
SameWorkers == Permutations(Workers)
===============================================================================
