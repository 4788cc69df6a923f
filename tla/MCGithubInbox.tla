---------------------------- MODULE MCGithubInbox ----------------------------
(***************************************************************************)
(* GithubInbox for TLC, and a sentence of decide's docstring that TLC      *)
(* refutes when it is named in a copy of GithubInbox_back.cfg.             *)
(***************************************************************************)
EXTENDS GithubInbox, TLC

CONSTANTS k1, p1, p2, t1, t2

MCTasks == {t1, t2}
MCPolls == {p1, p2}

Symmetry == Permutations(MCTasks) \union Permutations(MCPolls)

\* "A done task's item is not handled forever [...] it either disappears from GitHub,
\* or comes back as a proposal" (decide): an item does not wait for a re-scan for ever
\* when its task's row is deleted.
WaitingEnds ==
    \A k \in Keys : \A t \in Tasks :
        item[k].state = "awaiting_rescan" /\ item[k].task = t /\ task[t].st = "deleted"
        ~> item[k].state # "awaiting_rescan"
=============================================================================
