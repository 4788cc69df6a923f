# Tektonix, specified

Tektonix lets a language model work on a repository unattended and ships what it
produces to the live branch.  The model's work is fallible on purpose; what has to
be right is the machinery around it: a task's commit is reviewed, approved, merged
and deployed while main moves, servers restart, answers get lost and operators
click.  These specifications are about that machinery.  They are written from the
code, one action per handler or per stretch between two awaits, checked with TLC
on small instances and, for the main safety properties, proved with TLAPS for all.

Paths below are relative to `src/`.

Contents: 1 inventory · 2 plan · 3 TaskGate · 4 ReviewQueue · 5 TaskServer ·
6 GithubInbox · 7 StateFile · 8 Projects · 9 runs, bounds and fairness · 10 proofs ·
11 where the code and its comments part · 12 what is left out

## 1. Inventory

### The parts and how they talk

    operator --REST--> Task server ----drives----> outer graph: work <-> verify_and_ship
                          |  ^                         |  edits, commits, rebases
       Store (status) <---+  |                         v
       Postgres/SQLite       +-- supervisor        task workspace, branch agent/<id>
       checkpoint                (every minute)        ^
                                                       | reads tips, worktrees
     verify_and_ship --POST /check-->  commit-reviewer-+--> state.json <--+
     verify_and_ship --GET status, POST merge/restart--> agent-review ----+--> main

* **Task lifecycle and ship gate** (`agent/outer_graph.py`, `outer_state.py`,
  `nodes/`, `lifecycle.py`, `supervisor.py`, `task_runtime.py`).  State: the
  checkpointed `AgentState` of each task, written when a node returns, and the next
  node.  Operations: the two nodes, every operator transition (resume, reopen,
  approve, request changes, edit, decide on a command), the supervisor's sweep.
  Hard: a node runs for minutes to hours, talks to three services and git, and only
  its result is checkpointed; whatever it did before it died stays in git, in the
  reviewer's record and on main.  Correct when: what merges was reviewed and, if
  asked for, approved by the operator who saw that patch; nothing merges twice; no
  ending is recorded that did not happen; every run comes to rest; no task rests
  while its work is on main.
* **Git operations** (`agent/tools/git.py`).  State: branch, tip, working tree,
  fork point.  Operations: commit, rebase on the base, restore a workspace, count,
  compare patches.  Hard: a rebase changes every id, so a sha held anywhere goes
  stale.
* **Merge, deploy and pull request client** (`agent/tools/review_gate.py`,
  `github_ci.py`).  Stateless; waits with timeouts.  Hard: answers that are lost
  after the effect took place, records of older commits, an empty list of CI runs.
* **Task server** (`agent/server.py`, `routers/tasks.py`).  State: the driver of
  each task in memory (`_running_tasks`), the Store's status.  Operations: start, stop,
  claim and resume, delete, drive (`_stream_graph`), resume what a restart left.  Hard:
  the Store and the checkpoint are two writes; several callers may want to drive one
  task.  Correct when: a task has one driver, every entry of the registry has somebody
  behind it, no status says what the checkpoint does not, and nothing is stranded.
* **Review service** (`services/commit-reviewer/reviewer.js`,
  `services/agent-review/server.js`, `services/shared/review-records.js`).  State:
  the guard and the queue in memory, `state.json` with a record per branch,
  `inProgress` and `queued`.  Operations: poll, request, review, queue, merge, clear,
  restart.  Hard: one thread that gives way at every await, a second process that
  rewrites the same file, and a merge that takes a branch whose verdict is about a
  commit.  Correct when: one review at a time, what merges was READY, no branch
  waits for ever, and the file tells the gates the truth.
* **Shared state file** (`services/shared/json-state.js`).  A lock file, with
  staleness, around read-modify-write.  Hard: two waiters find the same stale lock, and
  looking at it and removing it are two calls.  Correct when an update is atomic, none
  is lost, and a dead holder blocks nobody for good.
* **Workspaces** (`agent/workspaces.py`).  A worktree (and overlay mounts) per task;
  ensure, remove, sweep.  Correct when no work is removed that is not on a branch.
* **Run and project slots** (`agent/graph.py`, `agent/file_lock.py`, the
  `_running_tasks` registry of `server.py`).  Claiming a run, a number of slots per
  project across processes.  Correct when a task has one driver at a time and a
  slot is never held twice or lost.
* **Project onboarding and removal** (`agent/routers/projects.py`, `provisioning.py`,
  `project_removal.py`, `project_checks.py`, `deploy_keys.py`).  State: `projects.json`
  and the process's copy `PROJECTS`, the checkouts, each project's workspace (a
  worktree), its deploy key, its rows in the Store and their archives.  Operations:
  create, clone, onboard, change checks, attach a key, move, remove, erase.  Hard: each
  is a dozen awaits over the disk, git and the Store with a rollback of its own; some
  rewrites take a file lock, some keep the event loop, some do neither; a task may start
  behind the check that none runs.  Correct when what is configured has its checkout
  and workspace, nothing a task works in goes, and a removal archives what it deletes.
* **Mailbox and planning chat** (`agent/messages.py`, `planning_chat.py`).  Messages
  into a running task, drained at the next work step.
* **Model router and middleware** (`services/model-router`, `agent/middleware`,
  `model_client.py`).  Fallbacks, repeat guard, budget guard, step-back counter.
* **Inner coding agent** (`agent/deep_agent.py`, prompts, backends).  A model and a
  third-party loop; outcomes only.
* **Memory, episodes, consolidation** (`agent/episodes.py`, `consolidation.py`,
  `project_memory.py`, `history_index.py`).  Text for later tasks.
* **GitHub inbox and jobs** (`agent/github_inbox.py`, `routers/github.py`,
  `inbox_alerts.py`, `jobs.py`).  State: an item per alert, issue or pull request, with
  what was seen of it, what became of it and its task.  Operations: poll, decide by
  policy, start tasks within a cap, the operator's approve, dismiss and snooze.  Hard: a
  pass reads GitHub, the items and the tasks at different times and applies its
  decisions one await at a time.  Correct when no item has two tasks or is started
  again by itself, none is handled for ever, and what was dismissed stays dismissed.
* **Log streams** (`agent/log_stream.py`, `live_state.py`).  A snapshot and live
  events merged by sequence number.
* **Settings, auth, passkeys, notifications; dashboard and desktop app.**

`PROJECT.json` lists the same parts with what is modelled of each, and under
`hazards` the places in the code that are hard to test, each with the properties
that watch it or the reason none does yet.

## 2. Plan

In the order of importance; (done) is what exists.

1. **TaskGate** (done): one task through the outer graph with its git branch, the
   reviewer's record of it, the merge endpoint, the operator, the supervisor, restarts.
   Proofs: every safety and action property the runs check.
2. **ReviewQueue** (done): one project's reviewer, queue, record file and merge
   endpoint, several branches.  Proofs: every invariant the runs check.
3. **TaskServer** (done): several tasks, their drivers, the registry with its claims,
   the Store's row beside the checkpoint, auto-resume with its progress marker, delete,
   the supervisor's sweep.  Proofs: type correctness, one driver,
   held entries, and what the row says of a task (done, stranded, orphaned).
4. **StateFile**, which implements **UpdateStore** (done, the refinement proved): the
   lock with stale takeover under the file that ReviewQueue updates in one step.
5. **GithubInbox** (done): one pass next to another, the operator and the tasks.
   Proofs: every safety and action property.
6. **Projects** (done): the requests that make, move and remove projects.  Proofs:
   every invariant.
7. **Shipping**: the abstract specification of what the gate promises, a commit that
   is written, reviewed, approved, shipped, in that order, or abandoned; TaskGate
   refines it, with the step simulation from ReviewInv and LookInv of section 10.
8. **Gate and queue composed**: TaskGate's one-branch reviewer replaced by the
   ReviewQueue's; the wait for a commit that is never recorded again.  (The product of
   the two is past 100 million states; it needs the abstract Shipping first.)
9. **ProjectSlots**: the advisory lock and flock slots of `graph.py` and
   `file_lock.py`, with processes that die; mutual exclusion proved.
10. **ActionsGate** (`github_ci.py`'s polls), the guards of `agent/middleware`,
    **LogStream** merging.

Every invariant and action property that a run checks today is proved (section 10).
Theorems to come: the refinement of 7 and mutual exclusion of 9.

## 3. TaskGate

`TaskGate.tla` is one task from its first pass to its end.

**State and code.**

| variables | in the code |
| --- | --- |
| `patch used head own dirty insync landed` | git: the diff of a commit by name, ids given out, tip of `agent/<id>`, its commits, uncommitted work, whether the branch forks from today's main, commits that main holds |
| `rec reviewing` | `state.json`'s record of this branch, the commit under review |
| `cp` | the checkpointed `AgentState` and the next node: escalated, parked (the sha in `merge_review_pending`), approved (`merge_approved_sha`), committed (`committed_sha`), edits, feedback, paused, decision, `nodiff`, iterations left, the last verdict and its commit, the commit retried |
| `status` | the Store's status |
| `pc sha appr retry judged` | where the driver is, and the gate's locals that die with it |
| `panel` | the commit the operator's diff panel was opened on |
| `offTip unseen blessed ready merged pushed deployed episode` | history, for the properties |
| `edited moved crashed ops` | how much of each bound is spent |

**Actions.**  `work_node` is WorkspaceUnavailable, StartWork (with
`restore_task_workspace`), any number of AgentEdits and AgentCommits, WorkEnds.
`verify_and_ship_node` is cut at its awaits.  One pass goes `gate` (checks, what to do
with no diff, commit) → `rebase` → `ask` → `review` → `ci` → `ship` → `deploy`, or
`diverged` → `ask` when main moved.  Every early return is an action or a disjunct
that ends in `Done`/`Finish`: the result is merged into the checkpoint, the edge
(`Route`) is taken, the episode is written, and the locals are gone.  `GateThrows` is
the catch-all around the node, possible at every await.  MarkQueued, MarkRunning and
EndRun are `_stream_graph`; Crash and Stop drop the driver, AutoResume is the startup
resume; the operator's actions are `lifecycle.py` with the guards of its
`ALLOWED` table; ConcludeLanded, Heal and SweepWorkspace are the supervisor.  The
environment is StartReview, RecordVerdict and LiveMoves.

**Abstractions.**  Texts, costs and budgets are left out: where the code decides by a
text (does the message read as cut off, does the error name an infrastructure
failure) both answers are possible.  The agent may write, commit or do nothing.  A
rebase keeps the patch or changes it.  The reviewer may record any verdict for the tip.
One driver per task: two of them are TaskServer's business.  Operators approve through
the diff panel, which sends the sha it shows (a client that sends none is not
modelled).  Pushing rights, tokens and diffs are outcomes: it worked or it did not.

*When git does not answer.*  `git status` that fails is read as a clean workspace, and
`commits_ahead` (`agent/tools/git.py:411`) answers 0 when git fails or times out; both are
disjuncts of the gate's actions, and `unseen` remembers that a pass took work there is for
none.  `ParkedIsTip` and `NoUnshippedNoChanges` except that case by name, and
`MCTaskGate!CommitsAreTheChange` is what it leads to (section 11).  Other questions to git
are always answered in the model; in the code a `rev-parse` that fails puts git's error text
where a sha is expected, and a failing `merge-base --is-ancestor` is a no.

*Benchmarks.*  A project of a benchmark (`Benchmark`) has nobody to hand a dispute to: a
breaker's or a harness's rejection is shipped as disputed (`judged`), there are no Actions
runs to wait for, and a pass without a diff is nudged for ever.  With the final look a
disputed commit is parked without a READY, the operator is shown the rejection, and the
merge endpoint still refuses it: `TaskGate_carry`.

**Properties** (in `TaskGate.tla`, each with its sentence of explanation):
`LandedWasReviewed`, `MergeAttemptApproved`, `ApprovalStands`, `ParkedIsTip`,
`NeverMergesTwice`, `NoUnshippedNoChanges`, the action properties
`ShippedMeansLanded` and `GateNeverSelfRoutes`, and under fairness `RunsRest` and
`LandedRests`, and `PushedWasReviewed`, which holds without the final look.
`blessed` are the patches approved since the task was last sent back to work: a resume, a
reopening, a hand edit, a request for changes and a healed pass empty it (`Withdraw`),
so `ApprovalStands` fails if any of them leaves the approval in the checkpoint (`SentBack`).
`MCTaskGate` adds sentences of the code's own comments that do not hold.

## 4. ReviewQueue

`ReviewQueue.tla` is the review service of one project with several task branches.

| variables | in the code |
| --- | --- |
| `made tip live behind dirty` | git: commits numbered as they are made; tip and merged tip of each branch; branches that main has left behind; workspaces with uncommitted work |
| `record latest progress shown` | `state.json`: `branches`, the branch at the top level, `inProgress`, `queued` |
| `up busy queue asked found review` | the reviewer's process: alive, `inProgressProjects`, `pendingReviews`, and the calls of `reviewProject` by how far they are: waiting for `detectNewCommit`, answered, past the guard |
| `merging` | merges between the endpoint's gate, the fast-forward and `clearReviewState` |
| `ready merged asks crashes failed` | history and bounds |

Poll and Ask start a call; Detects/DetectsNothing are git's answer (the call brings the
records of the moment it was made, `done` and `lame`); StartReview takes the guard and
writes `inProgress`, YieldToReview queues; RecordVerdict or ReviewErrs write the
record; FinishReview is the `finally`, which releases the guard and runs the next of
the queue (`Shift`).  Crash empties the memory, Restart is `main()` with its sweep of
what the dead process left.  MergeGate, FastForward, MergeRefused, ClearReviewState are
the endpoint's stretches between its awaits.  Any write of the file may fail to get its
lock (`WriteFails`, bounded): each caller's own handling of that is in its action.

**Abstractions.**  One project; the checks and the model's verdict are any outcome;
`force` merges by a human, which skip the gate on purpose, are left out; so are records
of more than forty branches (pruned), records from before branches had their own, a
project removed while it is reviewed, and the sandbox worktree.  At most one call of the
poll is waiting for git at a time (the timer is minutes apart, git answers in
seconds), and the project's own `sandbox` is on no task branch (no task works there).  A write of the file is atomic here: that is StateFile's question.

**Properties**: `OneReviewAtATime`, `MergedWasReady`, `ProgressIsReal`,
`ShownIsQueued`, and in `TypeOK` that the queue holds a branch once.  `MCReviewQueue`
has three sentences of the code's comments that do not hold (section 11).

## 5. TaskServer

`TaskServer.tla` is the server around the graph: who drives a task, and what three
places say about it.

| variables | in the code |
| --- | --- |
| `row ckpt` | the Store's status of a task; the checkpoint: the next node, or what it rests at (escalated, awaiting an operator, done) |
| `marked` | `auto_resume_ckpt` in the row names the progress the task has made now |
| `ws` | the task has a workspace |
| `reg` | `_running_tasks`: a driver, the placeholder of `claim_run_slot`, or nothing |
| `drv` | the asyncio tasks that run `_stream_graph`: which task, at which await |
| `req` | the request that claimed a task: read, transition decided, applied, run to start |
| `boot sup` | `_auto_resume_orphaned_tasks`, project by project, and the supervisor's sweep, between awaits |
| `made raced cut wasted` | history: tasks created, tasks the startup resume took from somebody, tasks dropped half way by an exception, a cancel or a restart, fruitless resumes |

**Actions.**  `_stream_graph` is MarkQueued, TakeSlot, MarkRunning, StartPass/EndPass
and RunGate (the two nodes, whole), EndStream, WriteFinal, FreeWorkspace, with Throws,
WriteError, WriteStopped for its handlers; BirthFails is a failure before its `try`.
CreateTask, StopTask, ClaimTask → Decide → Apply → StartRun, and Delete* are the
endpoints of `routers/tasks.py`, with what `lifecycle.py` allows (`May`) and where it
leads (`Leads`); RequestFails is an exception at any of their awaits.  Look →
ClaimForSweep → Heal/Conclude → WriteMeta is one sweep of the supervisor, ListWorkspace
→ TakeWorkspace → RemoveWorkspace its removal of workspaces.  Crash, Boot,
ScanOrphans or ScanFails (`server.py:204`: the project is logged and passed over), PickOrphan, PatchOrphan, DriveOrphan, BootEnds are a restart.

**Abstractions.**  A pass has any outcome its node can have (what decides is TaskGate's).
Of the transitions, the ones that differ for the registry: resume, a decision, delete.
Slots count the drivers that hold one (the lock under them is left out, section 12).  A
driver that has left the registry only writes the transcript, so it is gone.  Every task
is of one project (`ProjectOf`), which has its own slots and its own scan at a restart.

**Properties.**  `OneDriver`, `EntriesAreHeld`, `OrphansAreResumed`, `NeverStranded`,
`DoneIsDone`.  Each excepts by name the tasks the startup resume registered over
somebody (`raced`) or, where it matters, that were dropped half way (`cut`): section 11 says
what the code does with those.  `OrphansAreResumed` also excepts the tasks that a failed
scan would have listed (`boot.missed`): what it says is that they are of that project alone.
Whose decision a checkpoint carries is not modelled, so a decision that a heal overwrites
(section 11) breaks no property.

## 6. GithubInbox

`GithubInbox.tla` is the inbox of one project: a poll's pass, the operator's answers and
the life of the tasks they start.

| variables | in the code |
| --- | --- |
| `gh` | what is open on GitHub, as a fingerprint per item |
| `item` | the stored items: state, fingerprint, `task_id`, whether a task was tried |
| `task` | the inbox tasks as `list_tasks` tells them |
| `half` | the holder of an item's lock has created a task and not written the item |
| `poll` | each pass: what it found, listed, has still to apply |
| `retried loose` | history: items auto-started twice; items whose work the inbox lost |

**Actions.**  Discover (ask GitHub, any source off or failing) → List (items and tasks
read) → Decide (`decide`, per item) → Apply/Skip/AutoStart/PutStarted (one decision
under the item's lock, where it is looked at again) → EndPoll.  Approve → PutApproved and
PutAside are the operator's endpoints; MarkQueued … DeleteTask are what happens to the
tasks; GitHubMoves, PollFails, ApproveFails, AutoStartFails, Restart are the environment and its faults.

**Abstractions.**  One item stands for a source, so that a source that is switched off
or cannot be read is an item not found; policy and checks let a pass start work or not.
"settled" is a done task whose commit GitHub has had its grace period to re-scan.  A pass
lists every item: that the code lists 200 of a project (`github_inbox.py:957`) is left out.

**Properties.**  `WorkIsLinked`, `NeverAutoRetried`, the action property
`DismissedStays`, and under fairness `ComesBack`.

## 7. StateFile

`UpdateStore.tla` is what `services/shared/json-state.js` promises: an update of the
file is one step and none is lost.  `StateFile.tla` is the code, system call by system
call: `open` with O_EXCL, `stat`, `unlink` of a stale lock, the sleep, read, write with a
rename, release, for several processes each with several updates, that may die anywhere.
A tick of the clock is 5 s; `STALE_MS` and `WAIT_MS` are 2 and 3 ticks, and a critical
section takes at most `Slow` of them.

The refinement maps `asked` to the updates between begin and rename, `file` to the
file, and `trusted` to `~spoiled`: once a lock has been removed under a holder that lives,
or a failed read was written back as an empty file, the specification promises only
that the file changes when an update is applied.  That `spoiled` can happen is section 11's
matter; `Implements` says that nothing else loses an update.  `TimeoutMeansBusy` says a
waiter that gives up has seen the lock change hands: a dead holder alone starves nobody.

## 8. Projects

`Projects.tla` is how a project comes, moves and goes.

| variables | in the code |
| --- | --- |
| `disk ws needed` | the repository at each path; the one a project's workspace is a worktree of, or `Torn`: part of one, or one half made; checkouts with work that is nowhere else |
| `keys ssh` | deploy key files; whose key a checkout's `core.sshCommand` names |
| `file known snap holder` | `projects.json`, `PROJECTS`, what a request has read of the file to write back, the request that keeps the event loop meanwhile |
| `rows archives` | the Store's rows of a project, and the archive files |
| `task mapping` | a task of the project: new (no checkpoint), fresh (no workspace), working, parked, cut by a restart; the cartographer in the background |
| `req` | each request: operation, place, names and directories |
| `excused slipped exposed lost wrote vanished stale` | history, for the properties |

**Actions.**  Begin* are the endpoints with their refusals.  Onboards: MakeRepository,
ConnectGithub, Detect, CreateWorktree, ReadToAdd/WriteAdded (`add_project_entry`, in a
thread under the file lock), Load, Restore of an archive, and the rollbacks Undo and
Rollback.  Removes: Collect, Purge (archive, then delete, page by page), Detach,
ReadToDrop/WriteDropped, Erase.  Moves: MoveChecks, Unhook, Rehook, PutBack, Point,
FollowKey.  Changes: ChangeKey, ReadToFill/WriteFilled.  Around: tasks start (StartTask),
get their slot and first checkpoint (TaskSaved), work and rest, a map is built.  Crash is a
restart.

**Failing steps.**  `InFlight` is `_running_repos`: the tasks that have a driver and a
checkpoint to read the project from; a task that waits for its first slot has none.
`remove_worktree` may stop half way or be killed, and so may `git worktree add` (Tears): what
is left is `Torn`, and the next `create_worktree` at that path takes it or refuses it,
depending on whether it has a `.git`.  A key that ssh-keygen cannot read or make has replaced
the old one by then (MintFails), deleting one may fail (UnmintFails), and `git config`'s
answer is not looked at in either.  Each costs one of `MaxFaults`, but for a pasted key
that is no key.

**Abstractions.**  What a thread does between two awaits of its request is one step, the
calls inside a git or ssh helper with it; a checkout of which `rmtree` deletes a part is one
that is still there.  Planning turns, which `_running_repos` also asks for, are left out.  A project has
one Store namespace, its rows in the order of their ids, which is the order of pages; a
row of the index is read or the page refuses.  Detection's heuristics, audit records,
access grants, the endpoint that deletes an archive and the reviewer's row in
`state.json` are left out.  Archives are a set: two archives of one name written in one
second (`project_removal.py:112`) are not told apart.

**Properties.**  `ConfiguredIsWhole`, `RunningIsSafe`, `LostOnlyExposed`,
`EntriesAreKept`, `KeysExist`; what they except is defined next to them and is section 11's.
A rewrite of the file counts as the last change of every entry it changes, its own and
those it puts back (`wrote`); a checkout that stays after a failed creation, because GitHub
has the repository, keeps its `core.sshCommand` like one a move has left, and so does one
whose key or git failed (`stale`).  `RunningIsSafe` excepts the tasks that the last check
of a removal or a move could not see (`slipped`: without a checkpoint, or begun after it), and
the properties about places the projects whose own step failed or was cut (`excused`); what
the code does there is `RunningIsNeverRemoved` and `OldWorkspaceIsBack` of section 11.

## 9. Runs, bounds and fairness

| run | shows |
| --- | --- |
| `TaskGate_carry` | a benchmark with the final look, main moves twice, one crash or Stop, one intervention: what merges was reviewed, what is parked is READY or a breaker's rejection, approvals carried through rebases stay with approved patches |
| `TaskGate_rework` | two pieces of work around parked and approved commits, main moves once, two interventions: approvals do not outlive being sent back to work, parked commits are tips, nothing merges twice, no false ending, the gate never routes to itself |
| `TaskGate_auto` | unattended shipping for an alert task, fair: every run rests, landed work is concluded |
| `TaskGate_pr` | pull requests, no final look: what is offered was READY |
| `ReviewQueue_races` | two branches, two commits and the rebase that follows a merge, polls and a request, one death of the reviewer or one lost write: one review at a time, merges were READY, `inProgress` is true |
| `ReviewQueue_queue` | two requests, for one branch or both, behind a review, with the same fault: the queue holds a branch once and `queued` is true |
| `TaskServer_drive` | two tasks and one slot: requests, stops, deletes, sweeps, a restart and an exception, of the project's scan too, in every order: registry, row and checkpoint agree |
| `GithubInbox_polls` | one item, two polls at once, the operator, two tasks' lives, a restart or a failing step: one task per item, none begun again by itself, dismissals stay |
| `GithubInbox_back` | one poll loop, fair: an item whose task is over is not handled for ever |
| `StateFile_updates` | two processes, three updates, two deaths or failing calls: the lock file implements the atomic update; whoever gives up has seen the lock change hands |
| `Projects_admin` | three requests, two at a time, with starts of tasks and one fault: what is configured is whole, removals archive what they delete, entries and keys are kept |
| `TaskGate_x_approved` | one sentence of the code's comments, refuted (section 11) |

**Bounds.**  `MaxEdits`, `MaxLive`, `MaxCrash`, `MaxOps` (TaskGate) and `MaxCommits`,
`MaxRebases`, `MaxAsks`, `MaxFaults` (ReviewQueue) are conjuncts of the guards that spend them,
and so are those of the other modules.  They are chosen per question.  A carried approval needs a rebase between approval and
merge, and a second move of main for an approval that was carried already: two moves
in `carry`.  An approval that stretches needs a newer commit next to an approved one:
two pieces of work in `rework`, with an intervention to approve and one to disturb.
A streak of passes without a diff is two long, so two iterations and a grant of one
reach it, its end and the exhaustion of iterations.  In ReviewQueue two branches are
enough for one to run and one to wait; two commits let both branches have something
or one branch overtake its own verdict, and the rebase follows a merge as the gate's
does.  Larger instances were searched completely
while the models were written (before benchmarks, unanswered questions to git and torn
workspaces were in them), without an error: TaskGate with two moves of main and
two interventions (11.4 million states), TaskGate's rework with a crash (14 million),
ReviewQueue with three
commits and a fault (10.5 million), and the inductive invariants of Projects on
instances of three names or of more faults (3.7 million).  The runs with
symmetry permute `Branches`, tasks and drivers, tasks and polls, or requests; the runs with
liveness or a refinement use none.
In TaskServer two tasks and two drivers are one task with a driver that ends while the
next one begins, and another for the slot; three of requests, sweeps and
creations are a task, somebody who takes it up and somebody who gets in between, with a
restart and an exception on top.  That the failed scan
of one project leaves the tasks of the others to the resume is proved for any number of
projects; the run has one, whose tasks share a slot (with two it is 5 million states).  In GithubInbox one item with two
fingerprints can change once under an answer; two tasks are an attempt and its
repetition; `Cap` is 1, so the cap is reached.  StateFile's three updates in two
processes have two that wait for one stale lock and one whose process keeps it waiting;
two faults are a death in the lock and a call that fails after it; `Slow` = 1 keeps a
living holder out of staleness by time alone.  In Projects two names, three directories
(two that make the same name), three requests (starts of tasks count) and one fault are a
change, one that meets it, and one that follows; a page of 1 row makes two rows the
case of a removal that is longer than a page.
Deadlock checking is off: a finished task, with every bound spent, is at rest.

**Fairness.**  TaskGate's `Fairness` is weak fairness of the driver (asyncio runs a task
that is ready, and every wait of the gate has a timeout: `wait_for_review`, the CI wait,
HTTP clients) and of ConcludeLanded (the supervisor sweeps every minute and a sweep that
throws is repeated).  Nothing is assumed of the operator, the reviewer or the agent
beyond that its pass ends; that a model call ends is `work_node`'s own timeout and
iteration limit.  ReviewQueue's `FairSpec` has weak fairness of a review, of each kind
of waiting call, of the poll's timer and of the restart by pm2; it only serves the refutation of `QueuedRuns`, where more
fairness makes the point stronger.  GithubInbox's has weak fairness of a pass
that has begun and of an approval's last write (asyncio runs what is ready, and the calls
to GitHub time out), and of the poll loop coming round; tasks, GitHub and the
operator owe nothing.

Each property of a passing run has a mutant in `PROJECT.json`: a slip of the kind the
code's own history reports (an approval routed before feedback, a verdict that is
not compared with the tip, a parked task that counts as ended, ...) under which TLC
finds the property violated.  The mutants are definitions next to the one they change.

## 10. Proofs

All theorems are for every value of the constants that `ConstantsAssumption` of their
module allows; nothing else is assumed.

**TaskGate**, all of whose invariants and action properties are proved.
* `TaskGateProofs!TypeCorrect`: `Spec => []TypeOK`.  The typed results of a node are
  lemmas about `Escalate`, `LoopBack`, `Void`, ...; `FinishTyped` and `DoneTyped` turn
  them into typed checkpoints, and each group of actions has one lemma.
* `TaskGateProofs!MergesAreReviewed`: `Spec => []LandedWasReviewed`.  Inductive with
  `RecordInv`: a READY record is of a commit that was called READY, which needs that a
  review in progress is never of the base and that an empty record has no verdict.
* `TaskGateProofs!GateHandsOver`: `Spec => [][...]_vars` of `GateNeverSelfRoutes`.  Every
  result of the gate is settled: it is escalated, parked, has feedback, or holds no
  approval for an outstanding commit.
* `TaskGateProofs!ApprovalsStand` (`ApprovalStands`).  What takes the approvals back empties
  `blessed`, so the proof has to show of each such action that the checkpoint it leaves
  holds none, whatever the gate's own results do to one that it keeps.  It needs
  `MintedInv`, that every commit spoken of has been minted: otherwise a new commit could
  take the id, and with it the approval, of one that the checkpoint holds.
* `TaskGateProofs!MergesAreApproved`: `MergeAttemptApproved`, from `LookInv`, which adds
  to the above what a gate holds that has not left the tip (`TipInv`).  The lemmas sort
  the actions by what they move (`Moves`, `CheckpointMoves`), so that the invariant is
  shown once per kind of move and not once per action.
* `TaskGateOutcome!MergesOnce` (`NeverMergesTwice`), from `CommitsInv`: a branch that is
  ahead of main has a patch main has not, which a rebase onto main and a new commit both
  keep and which a merge ends.  It is about every commit main holds, and not only those
  the endpoint merged, because main also moves by itself.  The branch and main move in
  five ways (`Stays`, `Grows`, `Rebases`, `Resets`, `Merges`), and the invariant is shown
  once for each.
* `TaskGateOutcome!ParkingIsTrue` (`ParkedIsTip`).  The property says nothing of a run
  that goes on, and a run that goes on may park again; so `PlaceInv` says what the gate
  holds at each of its places (a shipping gate has the tip or the approved commit, and a
  clean workspace), and `ParkInv` that a parked checkpoint is at the end of the graph and
  waits for nothing else, which is why no pass starts from it unless a decision clears it.
* `TaskGateOutcome!NoChangesMeansNone` (`NoUnshippedNoChanges`), from `SaidInv`, which says
  what the Store's row and the episode say of the checkpoint, wherever the driver is.
* `TaskGateOutcome!ShippedIsShipped` (`ShippedMeansLanded`), from the same invariant.
* `TaskGateOutcome!PushesAreReviewed` (`PushedWasReviewed`).  Without the final look
  nothing is ever parked or approved (`OfferInv`), so the fast path is never taken and the
  commit past the wait for the reviewer is one that was called READY.

**ReviewQueue** (`ReviewQueueProofs`).
* `ReviewsAreExclusive`: `OneReviewAtATime`, with the guard in the invariant: a review
  implies `busy`, and only its end, or the end of the process, releases it.
* `MergesWereReady`: `MergedWasReady`, from `MergeInv`: a READY record and a merge past
  the gate are of commits called READY; the endpoint merges the commit it checked, so
  nothing is needed of the branch in between.
* `ProgressIsTrue`, `QueueIsTrue`: from `FileInv`, relative to `Guarded`.  Both claims are
  for files none of whose writes was given up; `failed` never returns to 0.
* `TypeCorrect`: `TypeOK`, that a branch is queued once included.

**StateFile** (`StateFileProofs`), for any processes, writers and ages.
* `TypeCorrect`: with it, that of a process's updates one is between two awaits.
* `UpdatesAreAtomic`: `Spec => Implements`, the refinement of UpdateStore.  As long as
  nothing was spoiled, whoever is between open and release holds the lock (`Held`), so
  one update is, and its copy is the file (`Fresh`): writing it back is `Apply`.  A
  counter in the file is what its writer has begun less what is under way (`Counted`),
  which keeps the file in its type.
* `TimeoutsMeanBusy` (`TimeoutMeansBusy`), from `Patient`: as long as the lock has not
  changed hands since a process began to wait, it has not waited longer than the lock is
  old, so the lock is stale before the wait is over.  Of a process that is kept from
  waiting by its own other update, the bound on a living holder's age (`Slow`) says it.

**TaskServer**, all of whose invariants are proved.
* `TaskServerProofs!TypeCorrect`, `DriversAreExclusive` (`OneDriver`) and
  `EntriesHaveHolders` (`EntriesAreHeld`).  `OneDriver` is not inductive: an entry says
  nothing of a driver that was popped by another's `finally`.  The invariant adds that a
  registered driver is at its task (`Entries`), that a request and a sweep that have
  claimed a task hold its entry and not both (`Claims`), that a placeholder has one of
  the two behind it (`Claimers`), that a driver which ended without its `finally` is on
  a task counted as dropped (`Dead`), and that a task nobody created is nowhere
  (`Untouched`): `CreateTask` registers without a claim.  The actions are sorted by what
  they do to the registry (`Onward`, `Ends`, `Begins`, `Claiming`, `Freeing`), and the
  invariant is shown once per sort.
* `TaskServerProofs!DoneMeansDone` (`DoneIsDone`), `NothingStranded` (`NeverStranded`) and
  `OrphansAreDriven` (`OrphansAreResumed`), from an invariant about one task (`Told`):
  where the row and the checkpoint differ, somebody is on the way to write the row, a
  driver just born, a request with its run to start, a sweep with its last write ahead;
  where a driver is at work, the row says so; what is queued or running is driven,
  claimed, still on the startup resume's list, or of a project that is not scanned yet or
  could not be (`Listed`).  It is kept for a task that nobody
  dropped and the startup resume took from nobody.  A step that does not concern the
  task leaves all of it alone (`Untold`), which is one lemma; the rest is each step on
  the task itself.  That what was dropped stays dropped (`SparedShrinks`) closes it.

**GithubInbox** (`GithubInboxProofs`), all of whose invariants and action properties are
proved, for any items, polls, tasks and caps.
* `TypeCorrect`, `WorkStaysLinked` (`WorkIsLinked`), `AutoStartsOnce`
  (`NeverAutoRetried`) and `DismissalsStay` (`DismissedStays`).  That live work is linked
  is not inductive: a task is created before its item says so, and a poll applies what it
  decided from an older item.  The invariant is about one item: who is writing it
  (`Held`: the holder of its lock and the polls whose decision is still to be applied) and
  what is true of its tasks (`Known`: live work is linked, finished work is linked or
  remembered in `tried`, and a decision made of what is still true may be applied).
  `Known` is what the inbox gives up for an item it lost track of, `Held` never is.  A
  step that is not about the item leaves both alone (`Calm`).

**Projects**, all of whose invariants are proved, for any names, checkouts and requests.
* `ProjectsProofs!TypeCorrect`, from `Typed`: what a request has to be and to remember at
  each of its places (`Fits`, `Allowed`), that one request keeps the loop and one the lock,
  and that an entry which is going to be filled is in the copy that is written.
* `ProjectsProofs!EntriesKept` (`EntriesAreKept`), from `FileInv`: where the copy that a
  request will write back differs from the file, the last change was of the other kind,
  an onboarding's for the two rewrites on the loop and theirs for an onboarding.
* `ProjectsProofs!DeletedIsArchived` (`LostOnlyExposed`), from `LostInv`: what the purge of
  an archiving removal will delete is in its archive or exposed.  Rows that come in move
  none up into a page (`PageGrows`), so only a deletion has to tell the others.
* `ProjectsPlaces!ProjectsAreWhole` (`ConfiguredIsWhole`), `WorkIsHoused`
  (`RunningIsSafe`) and `KeysAreThere` (`KeysExist`).  They are about projects at rest, and
  the invariant (`Settled`) is about every place of a request: half way through a move the
  workspace is of the new checkout and the entry of the old one, half way through a removal
  there is an entry and no workspace.  A promised project has one request at most and no
  other's request is about its checkout (`Apiece`), so every step of another request
  leaves it alone (`Apart`), which is one lemma; what is left is each of the twenty-five
  steps on the project itself.  A step that tears a workspace gives up its project's promise
  (`excused`), so no promised project has a torn one, and one that loses a key gives up
  its checkout (`stale`).  `Housed` adds that a task under way which the last check could
  see, without a checkpoint or not, is in a project that no request past that check is about
  (`Leaves`).

The proof attempts changed the model of Projects in three places, each shown by TLC on a
larger instance first: `wrote` did not name the operation that put back an older
entry of another project, and with three projects `EntriesAreKept` failed for that reason
alone; and `KeysExist` took no account of the checkout that a failed creation leaves
behind when GitHub has the repository, nor of entries that were lost to another's write.

**Only model-checked**: RunsRest, LandedRests, ComesBack.  They are liveness under
fairness, with ENABLED, which is beyond the prover.
What a recursive function computes on all inputs (induction over data) is out of the
prover's reach; the modules use no recursion.

## 11. Where the code and its comments part

One run ends in a violation, and `PROJECT.json` quotes the sentence: `TaskGate_x_approved`,
a rebase that dies with its node leaves the approval at the old commit and the branch at
a new one; the fast path ships the branch.  With pull requests and the final look the
branch is pushed without even a review of its tip: `PushedWasReviewed`, which
`TaskGate_pr` shows without the final look, fails with it.

The `MC` modules define other sentences of the code's comments that TLC refutes when one
is named in a copy of a run's cfg (as INVARIANT or PROPERTY; the definition says which
cfg, and where a bound or `FairSpec` is needed):

* `MCTaskGate!CommitsAreTheChange` (`verify_and_ship.py:655`): the coder commits its work
  itself, git does not answer how far the branch is ahead, twice, and the task ends
  `done_no_changes` with its commit on the branch.
* `MCTaskGate!CIKeepsApproval`: an approval that was carried to the rebased commit is
  written back by the merge's failure, not by CI's.
* `MCTaskGate!NothingLeftBehind`: a task whose build failed after the merge is concluded
  by the supervisor with its fix uncommitted, and the workspace goes.
* `MCReviewQueue!QueuedRuns`: a queued branch with nothing left to review ends the queue.
* `MCReviewQueue!QueueIsShown`: clearing the merged branch's verdict can drop `queued`
  and `inProgress` of the others from the file.
* `MCReviewQueue!GuardMeansReview`: `inProgress` is written between the guard and the `try`
  (`reviewer.js:509`); when that write fails the guard stays taken with no review behind it,
  and nothing of the project is reviewed until the reviewer restarts.
* `MCTaskServer!QueuedIsResumed`: a new task that waits for its slot has no checkpoint,
  and the startup resume passes over it (`server.py:219`).  The tasks of a project whose
  rows could not be listed are passed over too, until the next start (`server.py:204`).
* `MCTaskServer!PassHasWorkspace`: the sweep asks whether a task runs, then removes the
  workspace in a thread (`supervisor.py:260`); a resume starts in between.
* `MCTaskServer!PoisonIsLeft`: the progress marker is computed before `aupdate_state`
  writes a checkpoint of its own (`server.py:227`), so it never equals the next one and
  a task that makes no progress is resumed at every restart.
* `MCGithubInbox!WaitingEnds`: an item that awaits a re-scan and whose task's row is
  deleted stays there (`github_inbox.py:513`).
* `MCProjects!RunningIsNeverRemoved` (`routers/projects.py:94`): a removal asks for running
  tasks once, and finds a task's project in its checkpoint; a task that has none yet, or that
  starts after the question, goes to work in a project that is being taken apart.
* `MCProjects!OldWorkspaceIsBack` (`routers/projects.py:996`): a `git worktree add` that is
  killed leaves a half-made workspace of the new checkout; the put-back of the old one takes
  what is there.
* `MCStateFile!UnderLock`: two waiters see one stale lock; the second unlinks the lock
  the first has just taken (`json-state.js:50`).

Met while modelling, in the models, and not given a run: a branch that was reset onto
main and then finds no diff is recorded as shipped (`ShippedMeansLanded` excludes
it by name); a merged commit whose deploy failed is concluded as done without a
deploy; a second failure of the review harness for one commit nudges the coder; a
crash between a transition's checkpoint and the Store's mark leaves a status that the
phases do not start from; a commit can be reviewed twice, because `detectNewCommit` holds
the records of the moment it was called.

*Task server.*  The startup resume registers its driver several awaits after it looked,
without a claim (`server.py:213` to `:251`): a task resumed or deleted meanwhile has
two drivers, or a row again (`raced`).  What fails or is cancelled before
`_stream_graph`'s `try` leaves its entry in the registry, and a second Stop skips the
row.  A crash between a transition's checkpoint and its mark leaves a status that nothing
starts from (`cut`).  A heal applies what was computed from a state read before the
claim, and an operator's decision in between is overwritten (`supervisor.py:227`).  The supervisor's final `done` is written after the claim is released.

*Inbox.*  A source that fails, or is switched off, resolves items whose task is live; a
failed write or notification after a task was created leaves its item a proposal (both
`loose`).  The count against the cap leaves out tasks that wait for their slot, and two
passes at once have the cap each.  Dismiss and snooze ask for no state.

*Shared state file.*  `readJson` answers `{}` when a read fails, and that is written back;
`release` unlinks whatever lock there is; a failure to write the pid leaves the lock
until it is stale.

*Projects.*  The wizard does not ask whether the directory is another project's checkout,
as the clone endpoint does (`routers/projects.py:916`).  `remove_project_entry` and
`set_project_checks` rewrite the file without the lock that `provisioning.py:1631` says
every rewrite takes.  After a move and a removal the old checkout's git names a key
that is gone (`project_removal.py:10`).  A failing detection of `create` removes a checkout
that the wizard has configured meanwhile.  A failure in the last step of onboarding
leaves the worktree, which the next attempt refuses or adopts.  That no task runs is
asked once (`projects.py:191`).  A pasted key that cannot be read is written over the
project's key first and then deleted, a new one is made after the old one is gone
(`deploy_keys.py:296`, `:321`), and `core.sshCommand` goes on naming the file, as it does when
`git config` fails, which nobody looks at (`stale`).  A workspace that was removed in part
is reported and stays (`project_removal.py:277`); git's timeout there is an exception that
ends the removal before the entry goes.  A removal reads one page of each namespace, and what
is beyond it, unreadable or late goes unarchived (`exposed`); the cartographer may write
rows after it.  `clear_reviewer_state` rewrites `state.json` without its lock.

## 12. What is left out

Of the modelled parts, the abstractions named in sections 3 to 8.  Of the rest:

* The inner agent, the prompts, memory and consolidation are a model's text; settings,
  passkeys, notifications, the dashboard and the desktop app are configuration, I/O and
  display.
* The mailbox: a dictionary in memory whose entry is drained with one `pop`
  (`agent/messages.py:20`), so nothing slips between reading and clearing; a message that is
  not drained before a restart is lost, and what one says is the inner agent's business.
  When a note is read is TaskGate's question.
* The slots of a project across processes: `graph.py` has two implementations, an advisory
  lock of the database and flock, whose exclusion is the database's and the kernel's;
  TaskServer counts holders.  Their release on cancellation is the next thing to model.
* The guards of the middleware, the model router's fallbacks, the polls of
  GitHub Actions, the merge of log streams, overlay mounts and workspaces of other
  processes: they have logic worth a model, and are in the plan or would follow it.

Where a module depends on one of these it takes every outcome the code can produce: a
workspace that cannot be had, a CI wait that stops, a status that is stale.
