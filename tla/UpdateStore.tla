----------------------------- MODULE UpdateStore -----------------------------
(***************************************************************************)
(* What services/shared/json-state.js promises the two review services: an *)
(* update of the file is one step, and none is lost.  The content is, for  *)
(* every writer, how many of its updates are in it.  An update that was    *)
(* asked for is applied once or given up.  When a lock was removed under   *)
(* its holder, or the file could not be read, it is not to be trusted.     *)
(***************************************************************************)
EXTENDS Naturals

CONSTANT Writers

VARIABLES
    file,     \* how many updates of each writer the file has
    asked,    \* writers whose update is under way and not in the file
    trusted   \* no lock was removed under its holder, no read failed

vars == <<file, asked, trusted>>

Init == file = [w \in Writers |-> 0] /\ asked = {} /\ trusted = TRUE

Ask(w) == w \notin asked /\ asked' = asked \union {w} /\ UNCHANGED <<file, trusted>>

Apply(w) ==
    /\ w \in asked /\ asked' = asked \ {w}
    /\ trusted => file' = [file EXCEPT ![w] = @ + 1]
    /\ UNCHANGED trusted

\* Nothing to write, an error, the wait is over, or the process dies.
GiveUp == asked' \subseteq asked /\ UNCHANGED <<file, trusted>>

Distrust == trusted' = FALSE /\ UNCHANGED <<file, asked>>

Next == (\E w \in Writers : Ask(w) \/ Apply(w)) \/ GiveUp \/ Distrust

Spec == Init /\ [][Next]_vars
=============================================================================
