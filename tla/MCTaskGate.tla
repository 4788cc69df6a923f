----------------------------- MODULE MCTaskGate -----------------------------
(***************************************************************************)
(* TaskGate for TLC.  The properties that hold are in TaskGate; below are  *)
(* sentences of the code's own comments, which TLC refutes (where one also *)
(* holds in part, its comment says so).  TaskGate_x_approved does it for   *)
(* the first; to see the others fail, name them in a copy of               *)
(* TaskGate_rework.cfg.                                                    *)
(***************************************************************************)
EXTENDS TaskGate


\* "Commits main does not have ARE the change" (_verify_and_ship_inner), read
\* with no exception for a git that does not answer.
CommitsAreTheChange ==
    pc = "off" /\ status = "done" /\ episode = "done_no_changes" => ~Ahead

\* PushedWasReviewed of TaskGate is such a sentence too, with the final look.

\* "escalates with the approval kept, so a resume comes straight back here":
\* an approved commit that CI did not answer for is still approved after it.
CIKeepsApproval ==
    [][(pc = "ci" /\ pc' = "next" /\ cp'.escalated /\ sha = appr)
            => (cp'.approved = cp'.committed)]_vars

\* "Waiting on it is waiting for nothing" (ALLOWED, conclude_landed): a task the
\* supervisor concludes has nothing left that is not on main.
NothingLeftBehind == [][ConcludeLanded => ~dirty /\ Landed(head)]_vars

=============================================================================
