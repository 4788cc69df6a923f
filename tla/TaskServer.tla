------------------------------ MODULE TaskServer ------------------------------
(***************************************************************************)
(* Who drives a task.  A driver is one execution of server.py's            *)
(* _stream_graph, an asyncio task of the server; running_tasks holds the   *)
(* driver of a task, or a placeholder while a request has claimed it       *)
(* (claim_run_slot).  Requests of the operator, the supervisor's sweep and *)
(* the startup resume all start drivers; a restart ends all of them.       *)
(*                                                                         *)
(* Three places say what a task is: the Store's row, the graph's           *)
(* checkpoint and the registry in memory.  They are written one after the  *)
(* other, with awaits, failures and restarts in between.  The inside of    *)
(* the two nodes is TaskGate's; here a pass has an outcome.                *)
(***************************************************************************)
EXTENDS Integers, FiniteSets

CONSTANTS
    Tasks,       \* task ids; an id is created once
    Projects,
    ProjectOf,   \* the project of a task
    Drivers,     \* room for drivers that exist at the same time
    Slots,       \* parallel_tasks_per_project
    Nobody,      \* no entry in running_tasks
    Claimed,     \* the placeholder of claim_run_slot
    MaxCrash,    \* bound: server restarts
    MaxOps,      \* bound: requests, sweeps and created tasks
    MaxFails     \* bound: exceptions out of the Store, git or a node

ASSUME ConstantsAssumption ==
    /\ Nobody \notin Drivers \union Tasks /\ Claimed \notin Drivers /\ Nobody # Claimed
    /\ IsFiniteSet(Drivers) /\ ProjectOf \in [Tasks -> Projects]
    /\ Slots \in Nat \ {0}
    /\ MaxCrash \in Nat /\ MaxOps \in Nat /\ MaxFails \in Nat

VARIABLES
    \* durable
    row,        \* the Store's status of a task, "bare" for a row without one
    ckpt,       \* the checkpoint: the next node, or what the task rests at
    marked,     \* auto_resume_ckpt names the progress the task has made now
    ws,         \* the task has a workspace
    \* the server's memory
    reg,        \* running_tasks
    drv,        \* drivers: which task, how far
    req,        \* the request that holds a task's placeholder
    boot,       \* the startup resume
    sup,        \* the supervisor
    \* history
    made,       \* tasks created so far
    raced,      \* tasks the startup resume took while somebody else had them
    cut,        \* tasks that a driver or a request dropped half way
    wasted,     \* startup resumes of a task since it last made progress
    \* how much of each bound is spent
    crashes, ops, fails

durable == <<row, ckpt, marked, ws>>
memory  == <<reg, drv, req, boot, sup>>
history == <<made, raced, cut, wasted>>
bounds  == <<crashes, ops, fails>>
vars == <<row, ckpt, marked, ws, reg, drv, req, boot, sup, made, raced, cut, wasted,
          crashes, ops, fails>>

Resting  == {"escalated", "awaiting", "done"}
Nodes    == {"work", "gate"}
Rows     == {"none", "bare", "queued", "running", "stopped", "error"} \union Resting
Kinds    == {"resume", "decide", "delete"}
\* Inside the try of _stream_graph, and inside its handlers.
Trying   == {"wait", "held", "stream", "pass", "final", "alerts"}
Handling == {"undo", "fail"}
Holding  == {"held", "stream", "pass"}
Places   == {"idle", "born", "dead"} \union Trying \union Handling

NoDriver  == [task |-> Nobody, pc |-> "idle", fresh |-> FALSE]
NoRequest == [kind |-> "none", at |-> "none", saw |-> "none"]
NoSweep   == [at |-> "idle", task |-> Nobody, saw |-> "none"]
Down      == [at |-> "off", left |-> {}, todo |-> {}, task |-> Nobody,
              current |-> FALSE, missed |-> {}]
Booted    == [Down EXCEPT !.at = "scan", !.left = Projects]

-----------------------------------------------------------------------------
(* Reading the state *)

\* A driver that may still run the graph or write the row.
Drives(d, t) == drv[d].task = t /\ drv[d].pc \notin {"idle", "dead"}

Driven(t) == \E d \in Drivers : Drives(d, t)

Unused(d) == drv[d].pc = "idle" /\ \A t \in Tasks : reg[t] # d

\* Mutant of FinalStatus: the row says done whatever the task rests at.
DoneAnyway(c) == "done"

\* final_status.
FinalStatus(c) == IF c \in Resting THEN c ELSE "done"

\* phase_of: what the checkpoint rests at goes before the Store's word.
PhaseOf(t) == IF ckpt[t] \in {"escalated", "awaiting"} THEN ckpt[t] ELSE row[t]

\* Mutant of Resumable: nothing leads on from an error.
ResumableNotError == {"escalated", "done", "stopped", "running"}

\* ALLOWED["resume"] of lifecycle.py.
Resumable == {"escalated", "done", "stopped", "error", "running"}

May(kind, t) ==
    CASE kind = "resume" -> ckpt[t] # "none" /\ PhaseOf(t) \in Resumable
      [] kind = "decide" -> ckpt[t] = "awaiting"
      [] kind = "delete" -> row[t] # "none"

\* Mutant of Leads: a resume goes on at the status it found.
LeadsByStatus(kind, t) == IF kind = "resume" THEN {PhaseOf(t)} ELSE {"work", "gate"}

\* The node a transition leaves the checkpoint at: one that carries on, the same.
Leads(kind, t) ==
    CASE kind = "resume" /\ PhaseOf(t) = "escalated" -> {"work", "gate"}
      [] kind = "resume" /\ PhaseOf(t) = "done"      -> {"work"}
      [] kind = "resume"                             -> {"same"}
      [] kind = "decide"                             -> {"work", "gate"}

-----------------------------------------------------------------------------
(* What every step is made of *)

At(d, pc) == drv' = [drv EXCEPT ![d].pc = pc]

\* The finally of _stream_graph: the entry goes by task id, whoever it names.  What
\* the driver does after it concerns the transcript only.
Leave(d) ==
    /\ reg' = [reg EXCEPT ![drv[d].task] = Nobody]
    /\ drv' = [drv EXCEPT ![d] = NoDriver]

\* A checkpoint written: its id is new, so no marker names it.
Writes(t, c) ==
    /\ ckpt' = [ckpt EXCEPT ![t] = c]
    /\ marked' = [marked EXCEPT ![t] = FALSE]
    /\ boot' = IF boot.task = t THEN [boot EXCEPT !.current = FALSE] ELSE boot
    /\ wasted' = [wasted EXCEPT ![t] = 0]

\* create_task(_stream_graph(...)), registered.
Starts(d, t, fresh) ==
    /\ drv' = [drv EXCEPT ![d] = [task |-> t, pc |-> "born", fresh |-> fresh]]
    /\ reg' = [reg EXCEPT ![t] = d]

\* Mutant of Frees: the placeholder stays when the handler raises.
FreesNothing(t) == UNCHANGED reg

\* claim_run_slot leaves without a run: the entry is popped.
Frees(t) == reg' = [reg EXCEPT ![t] = Nobody]

Fails == fails < MaxFails /\ fails' = fails + 1

Asks == boot.at # "off" /\ ops < MaxOps /\ ops' = ops + 1

-----------------------------------------------------------------------------
(* _stream_graph, from await to await *)

\* Reads of the Store and the checkpoint, the recorder, and the first mark.
MarkQueued(d) ==
    /\ drv[d].pc = "born"
    /\ row' = [row EXCEPT ![drv[d].task] = "queued"]
    /\ At(d, "wait")
    /\ UNCHANGED <<ckpt, marked, ws, reg, req, boot, sup, history, bounds>>

\* All of that is outside the try: the driver ends and stays registered.
BirthFails(d) ==
    /\ drv[d].pc = "born" /\ Fails
    /\ At(d, "dead")
    /\ cut' = cut \union {drv[d].task}
    /\ UNCHANGED <<durable, reg, req, boot, sup, made, raced, wasted, crashes, ops>>

\* project_slot: no queue, whoever polls when a slot of the project is free has it.
Holders(p) == {e \in Drivers : drv[e].pc \in Holding /\ ProjectOf[drv[e].task] = p}

TakeSlot(d) ==
    /\ drv[d].pc = "wait"
    /\ Cardinality(Holders(ProjectOf[drv[d].task])) < Slots
    /\ At(d, "held")
    /\ UNCHANGED <<durable, reg, req, boot, sup, history, bounds>>

\* The second mark, and astream's first checkpoint of a new task's state.
MarkRunning(d) ==
    LET t == drv[d].task IN
    /\ drv[d].pc = "held"
    /\ row' = [row EXCEPT ![t] = "running"]
    /\ drv' = [drv EXCEPT ![d] = [@ EXCEPT !.pc = "stream", !.fresh = FALSE]]
    /\ IF drv[d].fresh THEN Writes(t, "work") ELSE UNCHANGED <<ckpt, marked, boot, wasted>>
    /\ UNCHANGED <<ws, reg, req, sup, made, raced, cut, bounds>>

\* work_node, which ensures the workspace.
StartPass(d) ==
    LET t == drv[d].task IN
    /\ drv[d].pc = "stream" /\ ckpt[t] = "work"
    /\ At(d, "pass")
    /\ ws' = [ws EXCEPT ![t] = TRUE]
    /\ UNCHANGED <<row, ckpt, marked, reg, req, boot, sup, history, bounds>>

\* The inner thread checkpoints: progress that only the marker sees.
Progress(d) ==
    LET t == drv[d].task IN
    /\ drv[d].pc = "pass" /\ wasted[t] > 0
    /\ marked' = [marked EXCEPT ![t] = FALSE]
    /\ boot' = IF boot.task = t THEN [boot EXCEPT !.current = FALSE] ELSE boot
    /\ wasted' = [wasted EXCEPT ![t] = 0]
    /\ UNCHANGED <<row, ckpt, ws, reg, drv, req, sup, made, raced, cut, bounds>>

EndPass(d) ==
    LET t == drv[d].task IN
    /\ drv[d].pc = "pass"
    /\ Writes(t, "gate")
    /\ At(d, "stream")
    /\ UNCHANGED <<row, ws, reg, req, sup, made, raced, cut, bounds>>

\* verify_and_ship_node, whole.
RunGate(d) ==
    LET t == drv[d].task IN
    /\ drv[d].pc = "stream" /\ ckpt[t] = "gate"
    /\ \E c \in {"work"} \union Resting : Writes(t, c)
    /\ ws' = [ws EXCEPT ![t] = TRUE]
    /\ UNCHANGED <<row, reg, drv, req, sup, made, raced, cut, bounds>>

\* Nothing left to run: the slot is given back.
EndStream(d) ==
    /\ drv[d].pc = "stream" /\ ckpt[drv[d].task] \in Resting
    /\ At(d, "final")
    /\ UNCHANGED <<durable, reg, req, boot, sup, history, bounds>>

WriteFinal(d) ==
    LET t == drv[d].task
        s == FinalStatus(ckpt[t]) IN
    /\ drv[d].pc = "final"
    /\ row' = [row EXCEPT ![t] = s]
    /\ IF s = "done" THEN At(d, "alerts") /\ UNCHANGED reg ELSE Leave(d)
    /\ UNCHANGED <<ckpt, marked, ws, req, boot, sup, history, bounds>>

\* A done task's workspace is removed before the driver lets go of the task.
FreeWorkspace(d) ==
    /\ drv[d].pc = "alerts"
    /\ ws' = [ws EXCEPT ![drv[d].task] = FALSE]
    /\ Leave(d)
    /\ UNCHANGED <<row, ckpt, marked, req, boot, sup, history, bounds>>

\* Any of it raises; so does a stream over a thread without a checkpoint.
Throws(d) ==
    /\ drv[d].pc \in Trying
    /\ IF drv[d].pc = "stream" /\ ckpt[drv[d].task] = "none" THEN UNCHANGED fails ELSE Fails
    /\ At(d, "fail")
    /\ UNCHANGED <<durable, reg, req, boot, sup, history, crashes, ops>>

\* except Exception: status error, unless that write fails too.
WriteError(d) ==
    LET t == drv[d].task IN
    /\ drv[d].pc = "fail"
    /\ \/ row' = [row EXCEPT ![t] = "error"] /\ UNCHANGED <<cut, fails>>
       \/ Fails /\ cut' = cut \union {t} /\ UNCHANGED row
    /\ Leave(d)
    /\ UNCHANGED <<ckpt, marked, ws, req, boot, sup, made, raced, wasted, crashes, ops>>

\* except CancelledError: the cost into the checkpoint, then status stopped,
\* each best effort.
WriteStopped(d) ==
    LET t == drv[d].task IN
    /\ drv[d].pc = "undo"
    /\ IF ckpt[t] = "none" THEN UNCHANGED <<ckpt, marked, boot, wasted>> ELSE Writes(t, ckpt[t])
    /\ \/ row' = [row EXCEPT ![t] = "stopped"] /\ UNCHANGED <<cut, fails>>
       \/ Fails /\ cut' = cut \union {t} /\ UNCHANGED row
    /\ Leave(d)
    /\ UNCHANGED <<ws, req, sup, made, raced, crashes, ops>>

-----------------------------------------------------------------------------
(* The task endpoints *)

\* start_task: the id is new, so the driver is registered without a claim.  A
\* task of the inbox or of a plan has a row before.
CreateTask(t, d) ==
    /\ Asks
    /\ t \notin made /\ Unused(d)
    /\ made' = made \union {t}
    /\ row' \in {row, [row EXCEPT ![t] = "bare"]}
    /\ Starts(d, t, TRUE)
    /\ UNCHANGED <<ckpt, marked, ws, req, boot, sup, raced, cut, wasted, crashes, fails>>

\* stop_task: cancel() reaches the driver at the await it is at.
StopTask(t) ==
    /\ Asks
    /\ reg[t] \in Drivers /\ ckpt[t] # "none"
    /\ LET d == reg[t] IN
       \/ /\ drv[d].pc \in Trying
          /\ At(d, "undo") /\ UNCHANGED <<reg, cut>>
       \/ /\ drv[d].pc = "born"      \* before the try: no handler, no finally
          /\ At(d, "dead") /\ cut' = cut \union {t} /\ UNCHANGED reg
       \/ /\ drv[d].pc \in Handling  \* a second cancel: only the finally is left
          /\ Leave(d) /\ cut' = cut \union {t}
    /\ UNCHANGED <<durable, req, boot, sup, made, raced, wasted, crashes, fails>>

\* Mutant of ClaimTask's guard: a placeholder reads as not running.
ClaimablePlaceholder(t) == reg[t] \in {Nobody, Claimed}

Claimable(t) == reg[t] = Nobody

\* claim_run_slot, at the top of resume, merge-decision, edits, approve, delete.
ClaimTask(t, kind) ==
    /\ Asks
    /\ Claimable(t) /\ row[t] # "none"
    /\ reg' = [reg EXCEPT ![t] = Claimed]
    /\ req' = [req EXCEPT ![t] = [kind |-> kind, at |-> "read", saw |-> "none"]]
    /\ UNCHANGED <<durable, drv, boot, sup, history, crashes, fails>>

\* The state is read, and lifecycle.py refuses or says where it leads.
Decide(t) ==
    /\ req[t].at = "read"
    /\ \/ /\ ~May(req[t].kind, t)
          /\ Frees(t) /\ req' = [req EXCEPT ![t] = NoRequest]
       \/ /\ May(req[t].kind, t) /\ req[t].kind = "delete"
          /\ req' = [req EXCEPT ![t].at = "row"]
          /\ UNCHANGED reg
       \/ /\ May(req[t].kind, t) /\ req[t].kind # "delete"
          /\ \E c \in Leads(req[t].kind, t) :
                 req' = [req EXCEPT ![t] = [@ EXCEPT !.at = "apply", !.saw = c]]
          /\ UNCHANGED reg
    /\ UNCHANGED <<durable, drv, boot, sup, history, bounds>>

\* apply_transition, as it was computed from the state that was read.
Apply(t) ==
    /\ req[t].at = "apply"
    /\ Writes(t, IF req[t].saw = "same" THEN ckpt[t] ELSE req[t].saw)
    /\ req' = [req EXCEPT ![t].at = "start"]
    /\ UNCHANGED <<row, ws, reg, drv, sup, made, raced, cut, bounds>>

StartRun(t, d) ==
    /\ req[t].at = "start" /\ Unused(d)
    /\ Starts(d, t, FALSE)
    /\ req' = [req EXCEPT ![t] = NoRequest]
    /\ UNCHANGED <<durable, boot, sup, history, bounds>>

DeleteRow(t) ==
    /\ req[t].at = "row"
    /\ row' = [row EXCEPT ![t] = "none"]
    /\ marked' = [marked EXCEPT ![t] = FALSE]
    /\ req' = [req EXCEPT ![t].at = "files"]
    /\ UNCHANGED <<ckpt, ws, reg, drv, boot, sup, history, bounds>>

DeleteFiles(t) ==
    /\ req[t].at = "files"
    /\ ws' = [ws EXCEPT ![t] = FALSE]
    /\ req' = [req EXCEPT ![t].at = "thread"]
    /\ UNCHANGED <<row, ckpt, marked, reg, drv, boot, sup, history, bounds>>

\* The checkpoints go last; the placeholder is popped if it is still one.
DeleteThread(t) ==
    /\ req[t].at = "thread"
    /\ ckpt' = [ckpt EXCEPT ![t] = "none"]
    /\ reg' = [reg EXCEPT ![t] = IF @ = Claimed THEN Nobody ELSE @]
    /\ req' = [req EXCEPT ![t] = NoRequest]
    /\ UNCHANGED <<row, marked, ws, drv, boot, sup, history, bounds>>

\* An await of a handler raises: the request is a 500.
RequestFails(t) ==
    /\ req[t] # NoRequest /\ Fails
    /\ Frees(t)
    /\ req' = [req EXCEPT ![t] = NoRequest]
    /\ cut' = cut \union {t}
    /\ UNCHANGED <<durable, drv, boot, sup, made, raced, wasted, crashes, ops>>

-----------------------------------------------------------------------------
(* The supervisor: one sweep looks at a parked task, decides, acts *)

Sweeping(t, what) == [at |-> "decided", task |-> t, saw |-> what]

\* list_tasks, is_running, read_state; the questions to git and the reviewer
\* that follow take seconds.
Look(t) ==
    /\ Asks
    /\ sup.at = "idle" /\ row[t] \in {"escalated", "awaiting"}
    /\ reg[t] \notin Drivers /\ ckpt[t] # "none"
    /\ \/ PhaseOf(t) \in {"escalated", "awaiting"} /\ sup' = Sweeping(t, "conclude")
       \/ ckpt[t] = "escalated" /\ sup' = Sweeping(t, "heal")
    /\ UNCHANGED <<durable, reg, drv, req, boot, history, crashes, fails>>

\* deps.apply: the claim, which somebody else may have.
ClaimForSweep ==
    LET t == sup.task IN
    /\ sup.at = "decided"
    /\ IF reg[t] = Nobody
       THEN reg' = [reg EXCEPT ![t] = Claimed] /\ sup' = [sup EXCEPT !.at = "apply"]
       ELSE UNCHANGED reg /\ sup' = NoSweep
    /\ UNCHANGED <<durable, drv, req, boot, history, bounds>>

\* The transition computed from what the sweep read, and the driver.
Heal(d) ==
    LET t == sup.task IN
    /\ sup.at = "apply" /\ sup.saw = "heal" /\ Unused(d)
    /\ \E c \in Nodes : Writes(t, c)
    /\ Starts(d, t, FALSE)
    /\ sup' = [sup EXCEPT !.at = "meta"]
    /\ UNCHANGED <<row, ws, req, made, raced, cut, bounds>>

Conclude ==
    LET t == sup.task IN
    /\ sup.at = "apply" /\ sup.saw = "conclude"
    /\ Writes(t, "done")
    /\ Frees(t)
    /\ sup' = [sup EXCEPT !.at = "meta"]
    /\ UNCHANGED <<row, ws, drv, req, made, raced, cut, bounds>>

\* write_meta merges into whatever row there is, or makes one.
WriteMeta ==
    LET t == sup.task IN
    /\ sup.at = "meta"
    /\ row' = [row EXCEPT ![t] = IF sup.saw = "conclude" THEN "done"
                                 ELSE IF @ = "none" THEN "bare" ELSE @]
    /\ sup' = NoSweep
    \* somebody took the task up again, or deleted it, before this write landed
    /\ cut' = IF sup.saw = "conclude" /\ (\/ reg[t] # Nobody \/ row[t] = "none"
                                          \/ ckpt[t] # "done")
              THEN cut \union {t} ELSE cut
    /\ UNCHANGED <<ckpt, marked, ws, reg, drv, req, boot, made, raced, wasted, bounds>>

\* The sweep's step raises and the sweep goes on with other tasks.
SweepFails ==
    /\ sup.at # "idle" /\ Fails
    /\ IF sup.at = "apply" THEN Frees(sup.task) ELSE UNCHANGED reg
    /\ sup' = NoSweep
    /\ cut' = IF sup.at = "meta" THEN cut \union {sup.task} ELSE cut
    /\ UNCHANGED <<durable, drv, req, boot, made, raced, wasted, crashes, ops>>

\* sweep_workspaces reads every status, then looks at each directory of a task
\* that is finished or gone, and removes it in a thread.
ListWorkspace(t) ==
    /\ boot.at # "off" /\ sup.at = "idle"
    /\ ws[t] /\ row[t] \in {"done", "none"}
    /\ sup' = [at |-> "listed", task |-> t, saw |-> "workspace"]
    /\ UNCHANGED <<durable, reg, drv, req, boot, history, bounds>>

TakeWorkspace ==
    /\ sup.at = "listed"
    /\ sup' = IF reg[sup.task] \in Drivers THEN NoSweep ELSE [sup EXCEPT !.at = "removing"]
    /\ UNCHANGED <<durable, reg, drv, req, boot, history, bounds>>

RemoveWorkspace ==
    /\ sup.at = "removing"
    /\ ws' = [ws EXCEPT ![sup.task] = FALSE]
    /\ sup' = NoSweep
    /\ UNCHANGED <<row, ckpt, marked, reg, drv, req, boot, history, bounds>>

-----------------------------------------------------------------------------
(* The server dies and starts again *)

Crash ==
    /\ boot.at # "off" /\ crashes < MaxCrash
    /\ crashes' = crashes + 1
    /\ boot' = Down /\ sup' = NoSweep
    /\ reg' = [t \in Tasks |-> Nobody]
    /\ drv' = [d \in Drivers |-> NoDriver]
    /\ req' = [t \in Tasks |-> NoRequest]
    \* a transition that is checkpointed, its run not begun or its row not written
    /\ cut' = cut \union {t \in Tasks : \/ req[t].at = "start"
                                        \/ sup.at = "meta" /\ sup.task = t
                                        \/ \E d \in Drivers : drv[d].task = t /\ drv[d].pc = "born"}
    /\ UNCHANGED <<durable, made, raced, wasted, ops, fails>>

Boot ==
    /\ boot.at = "off"
    /\ boot' = Booted
    /\ UNCHANGED <<durable, reg, drv, req, sup, history, bounds>>

\* Mutant of Orphans: queued tasks are not looked for.
OrphansRunning(p) == {t \in Tasks : ProjectOf[t] = p /\ row[t] = "running"}

\* _tasks_in(repo, ("running", "queued")), once for every project.
Orphans(p) == {t \in Tasks : ProjectOf[t] = p /\ row[t] \in {"running", "queued"}}

ScanOrphans(p) ==
    /\ boot.at = "scan" /\ p \in boot.left
    /\ boot' = [boot EXCEPT !.at = "loop", !.left = @ \ {p}, !.todo = Orphans(p)]
    /\ UNCHANGED <<durable, reg, drv, req, sup, history, bounds>>

\* The Store does not list the project's tasks: it is left out, until the next start.
ScanFails(p) ==
    /\ boot.at = "scan" /\ p \in boot.left /\ Fails
    /\ boot' = [boot EXCEPT !.left = @ \ {p}, !.missed = @ \union Orphans(p)]
    /\ UNCHANGED <<durable, reg, drv, req, sup, history, crashes, ops>>

\* Not in the registry, has a checkpoint, not escalated, has made progress
\* since its last startup resume.
Takes(t) == /\ reg[t] = Nobody /\ ckpt[t] \notin {"none", "escalated"}
            /\ ~marked[t]

\* One task of the list: looked at, its progress marker computed.  One that a
\* request has just claimed is left to the request, which may refuse.
PickOrphan(t) ==
    /\ boot.at = "loop" /\ t \in boot.todo
    /\ boot' = IF Takes(t)
               THEN [boot EXCEPT !.at = "patch", !.todo = @ \ {t}, !.task = t, !.current = TRUE]
               ELSE [boot EXCEPT !.todo = @ \ {t}]
    /\ cut' = IF reg[t] = Claimed THEN cut \union {t} ELSE cut
    /\ UNCHANGED <<durable, reg, drv, req, sup, made, raced, wasted, bounds>>

\* aupdate_state with more iterations: a checkpoint of its own.
PatchOrphan ==
    LET t == boot.task IN
    /\ boot.at = "patch"
    /\ IF ckpt[t] = "none"   \* deleted meanwhile: the update raises
       THEN boot' = [boot EXCEPT !.at = "loop", !.task = Nobody] /\ UNCHANGED <<ckpt, marked>>
       ELSE /\ marked' = [marked EXCEPT ![t] = FALSE]
            /\ boot' = [boot EXCEPT !.at = "drive", !.current = FALSE]
            /\ UNCHANGED ckpt
    /\ UNCHANGED <<row, ws, reg, drv, req, sup, history, bounds>>

\* The marker is written and the driver registered, without a claim.
DriveOrphan(d) ==
    LET t == boot.task IN
    /\ boot.at = "drive" /\ Unused(d)
    /\ row' = [row EXCEPT ![t] = IF @ = "none" THEN "bare" ELSE @]
    /\ marked' = [marked EXCEPT ![t] = boot.current]
    /\ raced' = IF reg[t] # Nobody \/ Driven(t) \/ row[t] = "none" THEN raced \union {t} ELSE raced
    /\ wasted' = [wasted EXCEPT ![t] = IF @ = 2 THEN 2 ELSE @ + 1]
    /\ Starts(d, t, FALSE)
    /\ boot' = [boot EXCEPT !.at = "loop", !.task = Nobody]
    /\ UNCHANGED <<ckpt, ws, req, sup, made, cut, bounds>>

\* Any of it raises: the task is left, the loop goes on.
OrphanFails ==
    /\ boot.at \in {"patch", "drive"} /\ Fails
    /\ cut' = cut \union {boot.task}
    /\ boot' = [boot EXCEPT !.at = "loop", !.task = Nobody]
    /\ UNCHANGED <<durable, reg, drv, req, sup, made, raced, wasted, crashes, ops>>

ScanOn ==
    /\ boot.at = "loop" /\ boot.todo = {}
    /\ boot' = [boot EXCEPT !.at = "scan"]
    /\ UNCHANGED <<durable, reg, drv, req, sup, history, bounds>>

BootEnds ==
    /\ boot.at = "scan" /\ boot.left = {}
    /\ boot' = [boot EXCEPT !.at = "up"]
    /\ UNCHANGED <<durable, reg, drv, req, sup, history, bounds>>

-----------------------------------------------------------------------------

Init ==
    /\ row = [t \in Tasks |-> "none"] /\ ckpt = [t \in Tasks |-> "none"]
    /\ marked = [t \in Tasks |-> FALSE] /\ ws = [t \in Tasks |-> FALSE]
    /\ reg = [t \in Tasks |-> Nobody]
    /\ drv = [d \in Drivers |-> NoDriver]
    /\ req = [t \in Tasks |-> NoRequest]
    /\ boot = [Down EXCEPT !.at = "up"] /\ sup = NoSweep
    /\ made = {} /\ raced = {} /\ cut = {} /\ wasted = [t \in Tasks |-> 0]
    /\ crashes = 0 /\ ops = 0 /\ fails = 0

Stream(d) ==
    \/ MarkQueued(d) \/ TakeSlot(d) \/ MarkRunning(d) \/ StartPass(d) \/ EndPass(d)
    \/ RunGate(d) \/ EndStream(d) \/ WriteFinal(d) \/ FreeWorkspace(d)
    \/ WriteError(d) \/ WriteStopped(d)

Request(t) ==
    \/ Decide(t) \/ Apply(t) \/ DeleteRow(t) \/ DeleteFiles(t) \/ DeleteThread(t)
    \/ \E d \in Drivers : StartRun(t, d)

StartupResume ==
    \/ Boot \/ PatchOrphan \/ ScanOn \/ BootEnds
    \/ \E p \in Projects : ScanOrphans(p)
    \/ \E t \in Tasks : PickOrphan(t)
    \/ \E d \in Drivers : DriveOrphan(d)

Operator ==
    \E t \in Tasks :
        \/ StopTask(t)
        \/ \E d \in Drivers : CreateTask(t, d)
        \/ \E kind \in Kinds : ClaimTask(t, kind)

Supervisor ==
    \/ \E t \in Tasks : Look(t) \/ ListWorkspace(t)
    \/ ClaimForSweep \/ Conclude \/ WriteMeta \/ TakeWorkspace \/ RemoveWorkspace
    \/ \E d \in Drivers : Heal(d)

Faults ==
    \/ Crash \/ SweepFails \/ OrphanFails
    \/ \E p \in Projects : ScanFails(p)
    \/ \E d \in Drivers : BirthFails(d) \/ Throws(d)
    \/ \E t \in Tasks : RequestFails(t)

Next ==
    \/ \E d \in Drivers : Stream(d) \/ Progress(d)
    \/ \E t \in Tasks : Request(t)
    \/ StartupResume \/ Operator \/ Supervisor \/ Faults

Spec == Init /\ [][Next]_vars

-----------------------------------------------------------------------------
(* Correctness *)

Points        == {"none"} \union Nodes \union Resting
DriverStates  == [task : Tasks \union {Nobody}, pc : Places, fresh : BOOLEAN]
RequestStates == [kind : Kinds \union {"none"},
                  at : {"none", "read", "apply", "start", "row", "files", "thread"},
                  saw : {"none", "same"} \union Nodes]
BootStates    == [at : {"off", "scan", "loop", "patch", "drive", "up"},
                  left : SUBSET Projects, todo : SUBSET Tasks,
                  task : Tasks \union {Nobody}, current : BOOLEAN, missed : SUBSET Tasks]
SweepStates   == [at : {"idle", "decided", "apply", "meta", "listed", "removing"},
                  task : Tasks \union {Nobody},
                  saw : {"none", "heal", "conclude", "workspace"}]

TypeOK ==
    /\ row \in [Tasks -> Rows] /\ ckpt \in [Tasks -> Points]
    /\ marked \in [Tasks -> BOOLEAN] /\ ws \in [Tasks -> BOOLEAN]
    /\ reg \in [Tasks -> Drivers \union {Nobody, Claimed}]
    /\ drv \in [Drivers -> DriverStates] /\ req \in [Tasks -> RequestStates]
    /\ boot \in BootStates /\ sup \in SweepStates
    /\ made \subseteq Tasks /\ raced \subseteq Tasks /\ cut \subseteq Tasks
    /\ wasted \in [Tasks -> 0..2]
    /\ crashes \in 0..MaxCrash /\ ops \in 0..MaxOps /\ fails \in 0..MaxFails

\* A task has one driver at a time, the one that running_tasks names, however
\* requests, the supervisor and ends of earlier drivers interleave -- unless the
\* startup resume registered its driver over somebody who came first.
OneDriver ==
    \A t \in Tasks \ raced : \A d \in Drivers : Drives(d, t) => reg[t] = d

\* An entry of running_tasks has somebody behind it who will take it out again: a
\* request or a sweep in its claim, a driver with its finally ahead.  Otherwise every
\* action on the task is refused with 409 until the server restarts.
EntriesAreHeld ==
    \A t \in Tasks \ (raced \union cut) :
        /\ reg[t] = Claimed => req[t] # NoRequest \/ (sup.at = "apply" /\ sup.task = t)
        /\ reg[t] \in Drivers => Drives(reg[t], t)

\* Once the startup resume is through, a task the Store calls queued or running is
\* driven or claimed ("one repo's failure must not strand the others").  Not so: a
\* task its project's failed scan would have listed, a task dropped half way, one
\* whose end as escalated the Store never heard of, and one that had no checkpoint
\* when the server died.
OrphansAreResumed ==
    \A t \in Tasks \ (raced \union cut \union boot.missed) :
        boot.at = "up" /\ row[t] \in {"queued", "running"}
                       /\ ckpt[t] \notin {"none", "escalated"} /\ ~marked[t]
        => Driven(t) \/ reg[t] = Claimed

\* A task that is at rest and not done is one that an operator's decision or
\* resume is accepted for, unless a transition was dropped between its checkpoint
\* and its run, or the task never got a checkpoint.
NeverStranded ==
    \A t \in Tasks \ (raced \union cut) :
        boot.at = "up" /\ reg[t] = Nobody /\ ckpt[t] # "none"
                       /\ ~(sup.at = "meta" /\ sup.task = t)
                       /\ row[t] \notin {"none", "bare", "done", "queued"}
        => May("resume", t) \/ May("decide", t)

\* The Store calls a task done only when its graph ended: no driver's end, stop or
\* error and no sweep leaves unfinished work under done, where nothing restarts it.
DoneIsDone ==
    \A t \in Tasks \ (raced \union cut) :
        row[t] = "done" /\ reg[t] = Nobody => ckpt[t] = "done"

=============================================================================
