----------------------------- MODULE MCTaskServer -----------------------------
(***************************************************************************)
(* TaskServer for TLC, and sentences of the code's comments that TLC       *)
(* refutes when they are named in a copy of TaskServer_drive.cfg.          *)
(***************************************************************************)
EXTENDS TaskServer, TLC

CONSTANTS t1, t2, d1, d2, p1

MCTasks   == {t1, t2}
MCDrivers == {d1, d2}

OneProject == [t \in MCTasks |-> p1]

Symmetry == Permutations(MCTasks) \union Permutations(MCDrivers)

\* "a task orphaned by a restart while it was waiting for the project lock has
\* exactly the same problem" (_auto_resume_orphaned_tasks): once the startup resume
\* is through, a queued task is driven, whatever it was created for.
QueuedIsResumed ==
    \A t \in Tasks \ (raced \union cut) :
        boot.at = "up" /\ row[t] = "queued" => reg[t] # Nobody

\* "Never a running task" (sweep_workspaces): a pass that is at work has the
\* workspace it works in.
PassHasWorkspace ==
    \A d \in Drivers : drv[d].pc = "pass" /\ drv[d].task \notin raced => ws[drv[d].task]

\* "a task that made NO checkpoint progress since its last auto-resume" is not
\* resumed again (_auto_resume_orphaned_tasks); it takes MaxCrash = 2.
PoisonIsLeft == \A t \in Tasks : wasted[t] < 2
=============================================================================
