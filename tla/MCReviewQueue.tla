--------------------------- MODULE MCReviewQueue ---------------------------
(***************************************************************************)
(* ReviewQueue for TLC, and sentences of the code's comments that TLC      *)
(* refutes when they are named in a copy of ReviewQueue_queue.cfg (the     *)
(* temporal one under FairSpec and without symmetry).                      *)
(***************************************************************************)
EXTENDS ReviewQueue, TLC

CONSTANTS b1, b2

Symmetry == Permutations(Branches)

\* "Queued, not dropped: it runs as soon as the current review ends" (POST
\* /check): a branch in the queue leaves it, or loses what it was queued for.
QueuedRuns ==
    \A b \in Branches :
        (In(b, queue) /\ Unmerged(b)) ~> ~(In(b, queue) /\ Unmerged(b))

\* "The queue is written to state.json as `queued` too, so the agent's gate can
\* see that its branch is waiting its turn" (persistQueue): while a review
\* runs, the file shows the branches behind it that have something to review.
QueueIsShown ==
    (\E r \in review : r.at = "checks")
        => \A b \in Branches : In(b, queue) /\ Unmerged(b) => In(b, shown)

\* "Projects currently mid-review" (inProgressProjects): a project that is
\* guarded against a second review has a first one.
GuardMeansReview == busy => review # {}

=============================================================================
