----------------------------- MODULE MCStateFile -----------------------------
(***************************************************************************)
(* StateFile for TLC: the reviewer, which has one update at a time, and    *)
(* the review server, whose requests wait next to each other.  The last    *)
(* definition is refuted when a copy of StateFile_updates.cfg names it.    *)
(***************************************************************************)
EXTENDS StateFile

CONSTANTS reviewer, approve, merge

MCProcesses == {{reviewer}, {approve, merge}}

\* "Every read-modify-write now happens under <file>.lock" (services/shared/
\* json-state.js): two updates are never between reading and writing at once.
UnderLock == Cardinality({w \in Writers : Inside(w)}) <= 1
=============================================================================
