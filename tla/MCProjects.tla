----------------------------- MODULE MCProjects -----------------------------
(***************************************************************************)
(* Projects for TLC: a project p with two clones of its repository, and a  *)
(* path q for a second project; and sentences of the code's comments that  *)
(* TLC refutes when they are named in a copy of Projects_admin.cfg.        *)
(***************************************************************************)
EXTENDS Projects, TLC

CONSTANTS p, q, p1, p2, q1

MCBasename == (p1 :> p) @@ (p2 :> p) @@ (q1 :> q)

Requests2 == Permutations(Requests)

\* routers/projects.py:94-97: a project with a task under way is not taken from under it,
\* whenever the task began.  The code does not see a task that has no checkpoint yet, nor
\* one that begins after it has looked.
RunningIsNeverRemoved ==
    \A n \in Names \ NotPromised :
        task[n] = "working" => Configured(n) /\ disk[file[n].live] # 0 /\ ws[n] \notin {0, Torn}

\* routers/projects.py:996-997: a move that cannot make the new workspace puts the old one
\* back.  What a git worktree add that was killed has left is taken for it.
OldWorkspaceIsBack ==
    [][\A r \in Requests :
           /\ req[r].at = "putback" /\ req'[r].at = "idle" /\ faults' = faults
           /\ disk[req[r].dir] # 0
           => ws'[req[r].name] = disk[req[r].dir]]_vars
=============================================================================
