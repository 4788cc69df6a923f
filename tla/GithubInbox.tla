----------------------------- MODULE GithubInbox -----------------------------
(***************************************************************************)
(* The GitHub inbox of one project (github_inbox.py, routers/github.py).   *)
(* A poll asks GitHub what is open, reads the stored items and the         *)
(* project's tasks, decides, and applies its decisions one by one; each of *)
(* those is an await, and the operator's approvals and dismissals, other   *)
(* polls, the tasks themselves and GitHub move in between.                 *)
(*                                                                         *)
(* Every source is represented by one item, so that a source that cannot   *)
(* be read, or is switched off, is an item that is not found; whether a    *)
(* poll may start work by itself (the source's policy, the project's       *)
(* checks) is a choice of each poll.  A fingerprint is a number.  What a   *)
(* task does is TaskServer's; here it is what the inbox reads of it.       *)
(***************************************************************************)
EXTENDS Integers, FiniteSets

CONSTANTS
    Keys,        \* items, one of each source
    Tasks,       \* task ids, used once
    Polls,       \* the poll loop's pass and POST /api/github/poll
    None,        \* no task
    Cap,         \* max_open_auto
    MaxPrint,    \* bound: fingerprints of an item
    MaxEvents,   \* bound: changes on GitHub
    MaxOps,      \* bound: items put aside, and tasks taken up again
    MaxFaults    \* bound: sources off or failing, writes that fail, restarts

ASSUME ConstantsAssumption ==
    /\ None \notin Tasks
    /\ Cap \in Nat /\ MaxPrint \in Nat \ {0}
    /\ MaxEvents \in Nat /\ MaxOps \in Nat /\ MaxFaults \in Nat

VARIABLES
    gh,       \* the fingerprint of what is open on GitHub, 0 for nothing
    item,     \* the stored items
    task,     \* the tasks, as the Store tells them
    half,     \* per item: the task its lock's holder has created, not yet written
    poll,     \* the polls under way
    retried,  \* items auto-started although an earlier task on them was done
    loose,    \* items whose work the inbox lost track of
    events, ops, faults

bounds  == <<events, ops, faults>>
history == <<retried, loose>>
vars == <<gh, item, task, half, poll, retried, loose,
          events, ops, faults>>

States == {"none", "proposed", "snoozed", "dismissed", "task_created",
           "awaiting_rescan", "resolved"}
\* "bare" before its driver's first mark, "settled" when it is done and GitHub had
\* its chance to look, "ended" when stopped or failed, "deleted" when its row is gone.
Statuses == {"none", "bare", "queued", "running", "done", "settled", "ended", "deleted"}

NoItem == [state |-> "none", fp |-> 0, task |-> None, tried |-> FALSE]
NoTask == [key |-> None, st |-> "none"]
Idle   == [at |-> "idle", found |-> [k \in Keys |-> 0],
           touched |-> {}, plan |-> [k \in Keys |-> "done"]]

-----------------------------------------------------------------------------
(* What the inbox reads of the tasks *)

\* Mutant of Handled: a task that waits for its slot is nobody's.
HandledStarted == {"running", "done", "settled"}

\* _TASK_HANDLED_STATUSES; parked and escalated tasks are running here.
Handled == {"queued", "running", "done", "settled"}

Finished == {"done", "settled"}

Live(t) == task[t].st \in {"bare", "queued", "running"}

\* _github_open_auto_count: every inbox task has the origin github.
OpenAuto == Cardinality({t \in Tasks : task[t].st = "running"})

-----------------------------------------------------------------------------
(* The stored items *)

Idles(p) == poll[p].at = "idle"

\* put_item: a poll that has listed the items, and has still to deal with this one,
\* will see that it was written.
Awaits(p, k) == \/ poll[p].at = "decide"
                \/ poll[p].at = "apply" /\ poll[p].plan[k] # "done"

Touched(k) == [p \in Polls |-> IF Awaits(p, k) THEN [poll[p] EXCEPT !.touched = @ \union {k}]
                               ELSE poll[p]]

Put(k, i) == item' = [item EXCEPT ![k] = i] /\ poll' = Touched(k)

Faults == faults < MaxFaults /\ faults' = faults + 1

Acts == ops < MaxOps /\ ops' = ops + 1

\* Mutant of Unheld: an item has no lock.
NoLock(k) == TRUE

\* item_lock is free: whoever created a task for the item has written it.
Unheld(k) == half[k] = None

\* start_task: a new id, a row without a status until the driver's first mark.
Creates(t, k) ==
    /\ task[t].st = "none"
    /\ task' = [task EXCEPT ![t] = [key |-> k, st |-> "bare"]]
    /\ half' = [half EXCEPT ![k] = t]

Lost(k) == loose' = loose \union {k}

-----------------------------------------------------------------------------
(* decide *)

\* Mutant of Afterwards: a task is only watched until its item waits.
AfterwardsOnce(prev) == prev.state = "task_created" /\ prev.task \in {t \in Tasks : task[t].st \in Finished}

\* The item's task is done: _after_finished_task.
Afterwards(prev) ==
    /\ prev.state \in {"task_created", "awaiting_rescan"}
    /\ prev.task \in {t \in Tasks : task[t].st \in Finished}

\* Mutant of Unchanged: what was read is still true.
UnchangedAlways(p, k) == TRUE

\* _unchanged_since: the time of the last write is the one that was listed.
Unchanged(p, k) == k \notin poll[p].touched

\* _still_being_worked; a task whose driver has not marked it yet reads as over.
Worked(prev) == prev.state = "task_created" /\ prev.task \in {t \in Tasks : task[t].st \in Handled}

\* What becomes of an item that was not written since it was listed; "start" is
\* for the policy, the cap and the checks.
Verdict(p, k, expired) ==
    LET prev == item[k]
        same == prev.fp = poll[p].found[k]
        gone == poll[p].found[k] = 0
        back == \/ prev.state = "snoozed" /\ k \in expired
                \/ prev.state = "task_created" /\ ~Worked(prev) IN
    IF gone THEN IF prev.state \in {"none", "resolved"} THEN "done" ELSE "resolve"
    ELSE IF Afterwards(prev) THEN
        IF task[prev.task].st = "settled" THEN "again"
        ELSE IF prev.state = "awaiting_rescan" /\ same THEN "done" ELSE "wait"
    ELSE IF same THEN IF back THEN "propose" ELSE "done"
    ELSE IF Worked(prev) THEN "keep" ELSE "start"

\* Mutant of MayStart: an earlier fix does not count.
MayStartAgain(k, auto) == k \in auto

\* auto, with a gate that checks the work, and no fix of it was rejected before.
MayStart(k, auto) == k \in auto /\ ~item[k].tried

-----------------------------------------------------------------------------
(* A poll, from await to await *)

Goes(p, next) == poll' = [poll EXCEPT ![p] = next]

\* discover: a source that is off or cannot be read has no items.
Discover(p) ==
    /\ Idles(p)
    /\ \E lost \in SUBSET Keys :
        /\ IF lost = {} THEN UNCHANGED faults ELSE Faults
        /\ Goes(p, [Idle EXCEPT !.at = "list",
                              !.found = [k \in Keys |-> IF k \in lost THEN 0 ELSE gh[k]]])
    /\ UNCHANGED <<gh, item, task, half, history, events, ops>>

\* list_items.  What is read is not kept here: an item that was not written since is
\* as it was read, and what is decided of one that was is dropped (Unchanged).
List(p) ==
    /\ poll[p].at = "list"
    /\ Goes(p, [poll[p] EXCEPT !.at = "decide"])
    /\ UNCHANGED <<gh, item, task, half, history, bounds>>

\* The tasks are counted for the cap, asked for as live and as finished (three
\* queries of the Store, one step here), and of all that was read the decisions are
\* made: as many starts as the cap has room for, in the order things were found (an
\* item that was written since may take room for a start that is dropped).
Decide(p) ==
    /\ poll[p].at = "decide"
    /\ \E auto \in SUBSET Keys, expired \in SUBSET {k \in Keys : item[k].state = "snoozed"} :
        LET verdict == [k \in Keys |-> IF Unchanged(p, k) THEN Verdict(p, k, expired) ELSE "done"]
            able == {k \in Keys : verdict[k] = "start" /\ MayStart(k, auto)}
            room == IF OpenAuto < Cap THEN Cap - OpenAuto ELSE 0 IN
        \E first \in SUBSET able :
            /\ Cardinality(first) <= room
            /\ Cardinality(first) < room => first = able \/ poll[p].touched # {}
            /\ Goes(p, [Idle EXCEPT
                  !.at = "apply",
                  !.found = [k \in Keys |-> IF verdict[k] = "done" THEN 0 ELSE poll[p].found[k]],
                  !.plan = [k \in Keys |-> IF verdict[k] # "start" THEN verdict[k]
                                          ELSE IF k \in first THEN "create" ELSE "propose"]])
    /\ loose' = loose \union {k \in Keys : /\ item[k].state = "task_created" /\ Unchanged(p, k)
                                           /\ \E t \in Tasks : item[k].task = t /\ task[t].st = "bare"}
    /\ UNCHANGED <<gh, item, task, half, retried, bounds>>

Plans(p, k, what) == poll[p].at = "apply" /\ poll[p].plan[k] = what

\* The decision on k is dealt with, and k may have been written.
Done(k, p, wrote) ==
    LET polls == IF wrote THEN Touched(k) ELSE poll
    IN poll' = [polls EXCEPT ![p].plan[k] = "done", ![p].found[k] = 0, ![p].touched = @ \ {k}]

\* Somebody wrote the item since it was listed: their decision stands.
Skip(p, k) ==
    /\ poll[p].at = "apply" /\ poll[p].plan[k] \notin {"done", "put"}
    /\ Unheld(k) /\ ~Unchanged(p, k)
    /\ Done(k, p, FALSE)
    /\ UNCHANGED <<gh, item, task, half, history, bounds>>

\* put_item by the poll itself.
Write(p, k, i) == item' = [item EXCEPT ![k] = i] /\ Done(k, p, TRUE)

Propose(p, k, t, tried) ==
    Write(p, k, [state |-> "proposed", fp |-> poll[p].found[k], task |-> t, tried |-> tried])

\* _apply_decision for what starts nothing, and the marking of what is gone.
Apply(p, k) ==
    LET prev == item[k]
        fp   == poll[p].found[k] IN
    /\ Unheld(k) /\ Unchanged(p, k)
    /\ \/ Plans(p, k, "propose") /\ Propose(p, k, None, prev.tried)
       \/ Plans(p, k, "again")   /\ Propose(p, k, None, TRUE)
       \/ Plans(p, k, "wait")    /\ Write(p, k, [prev EXCEPT !.state = "awaiting_rescan", !.fp = fp])
       \/ Plans(p, k, "keep")    /\ Write(p, k, [prev EXCEPT !.fp = fp])
       \/ Plans(p, k, "resolve") /\ Write(p, k, [prev EXCEPT !.state = "resolved"])
    /\ IF Plans(p, k, "resolve") /\ (prev.task # None \/ \E t \in Tasks : task[t].key = k /\ Live(t))
       THEN Lost(k) ELSE UNCHANGED loose
    /\ UNCHANGED <<gh, task, half, retried, bounds>>

\* Auto: the task exists before the item says so, under the item's lock.
AutoStart(p, k) ==
    /\ Plans(p, k, "create") /\ Unheld(k) /\ Unchanged(p, k)
    /\ \E t \in Tasks : Creates(t, k)
    /\ poll' = [poll EXCEPT ![p].plan[k] = "put"]
    /\ retried' = IF \E t \in Tasks : task[t].key = k /\ task[t].st \in Finished
                  THEN retried \union {k} ELSE retried
    /\ UNCHANGED <<gh, item, loose, bounds>>

\* create_task raises (and does when the model has no task id left): a proposal instead.
AutoStartFails(p, k) ==
    /\ Plans(p, k, "create") /\ Unheld(k) /\ Unchanged(p, k)
    /\ \/ Faults
       \/ UNCHANGED faults /\ \A t \in Tasks : task[t].st # "none"
    /\ Propose(p, k, None, item[k].tried)
    /\ UNCHANGED <<gh, task, half, history, events, ops>>

\* The item gets its task; when that write, or the telling of it, fails, the item
\* becomes a proposal, task and all.
PutStarted(p, k) ==
    /\ Plans(p, k, "put")
    /\ half' = [half EXCEPT ![k] = None]
    /\ \/ /\ Write(p, k, [state |-> "task_created", fp |-> poll[p].found[k],
                          task |-> half[k], tried |-> item[k].tried])
          /\ UNCHANGED <<loose, faults>>
       \/ Faults /\ Lost(k) /\ Propose(p, k, half[k], item[k].tried)
    /\ UNCHANGED <<gh, task, retried, events, ops>>

EndPoll(p) ==
    /\ poll[p].at = "apply" /\ \A k \in Keys : poll[p].plan[k] = "done"
    /\ Goes(p, Idle)
    /\ UNCHANGED <<gh, item, task, half, history, bounds>>

\* The Store raises: the project's pass is over.
PollFails(p) ==
    /\ ~Idles(p) /\ Faults
    /\ Goes(p, Idle)
    /\ half' = [k \in Keys |-> IF Plans(p, k, "put") THEN None ELSE half[k]]
    /\ loose' = loose \union {k \in Keys : Plans(p, k, "put")}
    /\ UNCHANGED <<gh, item, task, retried, events, ops>>

-----------------------------------------------------------------------------
(* The operator: _github_act, under the item's lock *)

\* A link from a notification acts like the dashboard's button, or is refused when
\* its nonce is no longer the item's.
Approve(k) ==
    /\ Unheld(k) /\ item[k].state \in {"proposed", "snoozed"}
    /\ \E t \in Tasks : Creates(t, k)
    /\ UNCHANGED <<gh, item, poll, history, bounds>>

Approving(k) == half[k] # None /\ \A p \in Polls : poll[p].plan[k] # "put"

PutApproved(k) ==
    /\ Approving(k)
    /\ half' = [half EXCEPT ![k] = None]
    /\ Put(k, [item[k] EXCEPT !.state = "task_created", !.task = half[k]])
    /\ UNCHANGED <<gh, task, history, bounds>>

\* The write fails: the task runs, the item and its link are as before.
ApproveFails(k) ==
    /\ Approving(k) /\ Faults /\ Lost(k)
    /\ half' = [half EXCEPT ![k] = None]
    /\ UNCHANGED <<gh, item, task, poll, retried, events, ops>>

\* Dismissing and snoozing ask for no state: an item that is a task's is put aside
\* all the same, its task with it.
PutAside(k) ==
    /\ Acts /\ Unheld(k) /\ item[k].state # "none"
    /\ \E to \in {"dismissed", "snoozed"} : Put(k, [item[k] EXCEPT !.state = to])
    /\ IF item[k].task # None THEN Lost(k) ELSE UNCHANGED loose
    /\ UNCHANGED <<gh, task, half, retried, events, faults>>

-----------------------------------------------------------------------------
(* The tasks, GitHub, the settings, and a restart *)

Becomes(t, from, to) ==
    /\ task[t].st \in from
    /\ task' = [task EXCEPT ![t].st = to]
    /\ UNCHANGED <<gh, item, half, poll, retried, events, faults>>

MarkQueued(t) == Becomes(t, {"bare"}, "queued") /\ UNCHANGED <<loose, ops>>
Run(t)        == Becomes(t, {"queued"}, "running") /\ UNCHANGED <<loose, ops>>
Finish(t)     == Becomes(t, {"running"}, "done") /\ UNCHANGED <<loose, ops>>
Settle(t)     == Becomes(t, {"done"}, "settled") /\ UNCHANGED <<loose, ops>>
StopTask(t)   == Becomes(t, {"bare", "queued", "running"}, "ended") /\ UNCHANGED <<loose, ops>>
DeleteTask(t) == Becomes(t, {"done", "settled", "ended"}, "deleted") /\ UNCHANGED <<loose, ops>>

\* An ended or finished task is taken up again from its own page.
ResumeTask(t) ==
    Acts /\ Becomes(t, {"done", "settled", "ended"}, "running") /\ Lost(task[t].key)

\* Something opens, changes or closes.
GitHubMoves(k) ==
    /\ events < MaxEvents /\ events' = events + 1
    /\ \E fp \in 0..MaxPrint \ {gh[k]} : gh' = [gh EXCEPT ![k] = fp]
    /\ UNCHANGED <<item, task, half, poll, history, ops, faults>>

Restart ==
    /\ Faults
    /\ poll' = [p \in Polls |-> Idle]
    /\ half' = [k \in Keys |-> None]
    /\ loose' = loose \union {k \in Keys : half[k] # None}
    /\ task' = [t \in Tasks |-> IF task[t].st = "bare" THEN [task[t] EXCEPT !.st = "ended"] ELSE task[t]]
    /\ UNCHANGED <<gh, item, retried, events, ops>>

-----------------------------------------------------------------------------

Init ==
    /\ gh = [k \in Keys |-> 1]
    /\ item = [k \in Keys |-> NoItem] /\ task = [t \in Tasks |-> NoTask]
    /\ half = [k \in Keys |-> None] /\ poll = [p \in Polls |-> Idle]
    /\ retried = {} /\ loose = {}
    /\ events = 0 /\ ops = 0 /\ faults = 0

\* A pass that has begun.
Pass(p) ==
    \/ List(p) \/ Decide(p) \/ EndPoll(p)
    \/ \E k \in Keys : \/ Skip(p, k) \/ Apply(p, k) \/ AutoStart(p, k)
                       \/ AutoStartFails(p, k) \/ PutStarted(p, k)

Operator == \E k \in Keys : Approve(k) \/ PutAside(k) \/ PutApproved(k) \/ ApproveFails(k)

TaskMoves ==
    \E t \in Tasks : \/ MarkQueued(t) \/ Run(t) \/ Finish(t) \/ Settle(t)
                     \/ StopTask(t) \/ DeleteTask(t) \/ ResumeTask(t)

Next ==
    \/ \E p \in Polls : Discover(p) \/ Pass(p) \/ PollFails(p)
    \/ Operator \/ TaskMoves \/ Restart
    \/ \E k \in Keys : GitHubMoves(k)

Spec == Init /\ [][Next]_vars

\* The event loop runs what is ready, and the poll loop comes round.
FairSpec ==
    /\ Spec
    /\ \A p \in Polls : WF_vars(Pass(p))
    /\ \A k \in Keys : WF_vars(PutApproved(k))
    /\ WF_vars(\E p \in Polls : Discover(p))

-----------------------------------------------------------------------------
(* Correctness *)

TypeOK ==
    /\ gh \in [Keys -> 0..MaxPrint]
    /\ item \in [Keys -> [state : States, fp : 0..MaxPrint, task : Tasks \union {None},
                          tried : BOOLEAN]]
    /\ task \in [Tasks -> [key : Keys \union {None}, st : Statuses]]
    /\ half \in [Keys -> Tasks \union {None}]
    /\ \A k \in Keys : half[k] # None => task[half[k]].key = k
    /\ \A k \in Keys : item[k].state \in {"task_created", "awaiting_rescan"}
            => item[k].task \in Tasks /\ task[item[k].task].key = k
    /\ retried \subseteq Keys /\ loose \subseteq Keys
    /\ events \in 0..MaxEvents /\ ops \in 0..MaxOps /\ faults \in 0..MaxFaults

\* Work in progress on an item is what the item is linked to: no poll, approval or
\* second poll starts a task next to a live one, or offers its item again, although
\* each reads the item, the tasks and GitHub at different times.  Not so for an item
\* the inbox lost track of (loose).
WorkIsLinked ==
    \A t \in Tasks :
        LET k == task[t].key IN
        Live(t) /\ k \notin loose /\ half[k] # t
        => item[k].task = t /\ item[k].state \in {"task_created", "awaiting_rescan"}

\* "never auto-started, so a fix GitHub keeps rejecting cannot start task after task
\* by itself": auto takes up no item on which a task has finished.
NeverAutoRetried == retried \subseteq loose

\* What the operator dismissed is not offered or started again, by a poll that read
\* it before or by a later one, until it changes on GitHub.
DismissedStays ==
    [][\A k \in Keys :
         item[k].state = "dismissed" /\ item'[k].state \in {"proposed", "task_created"}
         => item'[k].fp # item[k].fp]_vars

\* "task_created is not a one-way door", "a done task's item is not handled forever":
\* an item whose task is over leaves it, although polls fail, sources are unreadable
\* and the operator acts.  (Of an item that waits for a re-scan and whose task is no
\* longer done, MCGithubInbox speaks.)
ComesBack ==
    \A k \in Keys : \A t \in Tasks :
        LET Waits == item[k].state = "awaiting_rescan" IN
        (/\ item[k].task = t
         /\ \/ item[k].state = "task_created" /\ task[t].st \in {"ended", "deleted"}
            \/ item[k].state \in {"task_created", "awaiting_rescan"} /\ task[t].st = "settled")
        ~> \/ item[k].task # t \/ item[k].state \notin {"task_created", "awaiting_rescan"}
           \/ Live(t) \/ (Waits /\ task[t].st \notin Finished)

=============================================================================
