--------------------------- MODULE TaskServerProofs ---------------------------
(***************************************************************************)
(* Theorems of TaskServer for every set of tasks and drivers and every     *)
(* bound: type correctness, one driver per task, that every entry of       *)
(* running_tasks is somebody's who will take it out and, further down,     *)
(* what the Store says of a task.                                          *)
(*                                                                         *)
(* The inductive invariant says what an entry means: a driver's is that    *)
(* task's (Entries), a claim is held by a request or the supervisor        *)
(* (Claimers) and by one of them only (Claims), and of a task that was not *)
(* created yet there is nothing anywhere (Untouched).                      *)
(***************************************************************************)
EXTENDS TaskServer, TLAPS

\* Whoever is at work, is at work on a task.
Named ==
    /\ \A d \in Drivers : drv[d].pc # "idle" => drv[d].task \in Tasks
    /\ sup.at # "idle" => sup.task \in Tasks
    /\ boot.at \in {"patch", "drive"} => boot.task \in Tasks
    /\ \A t \in Tasks : req[t].at # "none" => req[t].kind \in Kinds

Entries == \A t \in Tasks : \A d \in Drivers :
               reg[t] = d => drv[d].task = t /\ drv[d].pc # "idle"

\* Whoever acts on a task has claimed it, and is alone in that.
Claims ==
    \A t \in Tasks \ raced :
        /\ req[t] # NoRequest => reg[t] = Claimed
        /\ sup.at = "apply" /\ sup.task = t => reg[t] = Claimed /\ req[t] = NoRequest

Claimers ==
    \A t \in Tasks : reg[t] = Claimed => req[t] # NoRequest \/ (sup.at = "apply" /\ sup.task = t)

\* A driver that ended before its try is a task dropped half way.
Dead == \A d \in Drivers : drv[d].pc = "dead" => drv[d].task \in cut

Untouched ==
    \A t \in Tasks \ made :
        /\ row[t] = "none" /\ ~ws[t] /\ reg[t] = Nobody /\ req[t] = NoRequest
        /\ sup.task # t /\ boot.task # t /\ t \notin boot.todo
        /\ \A d \in Drivers : drv[d].task # t

\* What a step of anybody else leaves of the startup resume.
BootStays == /\ boot'.at = boot.at /\ boot'.task = boot.task /\ boot'.todo = boot.todo
             /\ boot'.left = boot.left /\ boot'.missed = boot.missed
USE DEF BootStays

Registry == OneDriver /\ Entries /\ Claims /\ Claimers /\ Dead

IInv == TypeOK /\ Named /\ Registry /\ Untouched

\* The startup resume between the tasks of one project and the next one's.
Scans == ScanOn \/ BootEnds \/ \E p \in Projects : ScanOrphans(p)

\* The startup resume passes over a task or a project.
Skips == OrphanFails \/ \E p \in Projects : ScanFails(p)

LEMMA InitIInv == Init => IInv
<1> SUFFICES ASSUME Init PROVE IInv
  OBVIOUS
<1> USE ConstantsAssumption DEF ConstantsAssumption
<1>1. row \in [Tasks -> Rows] /\ ckpt \in [Tasks -> Points]
  BY DEF Init, Rows, Points
<1>2. drv \in [Drivers -> DriverStates] /\ req \in [Tasks -> RequestStates]
  BY DEF Init, NoDriver, NoRequest, DriverStates, RequestStates, Places
<1>3. boot \in BootStates /\ sup \in SweepStates
  BY DEF Init, Down, NoSweep, BootStates, SweepStates
<1>4. TypeOK
  BY <1>1, <1>2, <1>3 DEF Init, TypeOK
<1>5. Named /\ Untouched
  BY DEF Init, Named, Untouched, NoDriver, NoRequest, NoSweep, Down
<1>6. Registry
  BY DEF Init, Registry, OneDriver, Drives, Entries, Claims, Claimers, Dead, NoDriver, NoSweep
<1> QED BY <1>4, <1>5, <1>6 DEF IInv

-----------------------------------------------------------------------------
(* What the shared steps do *)

LEMMA AtDoes ==
    ASSUME TypeOK, NEW d \in Drivers, NEW pc \in Places, At(d, pc)
    PROVE  /\ drv' \in [Drivers -> DriverStates]
           /\ drv'[d].pc = pc
           /\ \A e \in Drivers : drv'[e].task = drv[e].task /\ (e # d => drv'[e] = drv[e])
  BY DEF At, TypeOK, DriverStates

LEMMA LeaveDoes ==
    ASSUME TypeOK, NEW d \in Drivers, Leave(d)
    PROVE  /\ drv' \in [Drivers -> DriverStates]
           /\ drv'[d] = NoDriver
           /\ \A e \in Drivers : e # d => drv'[e] = drv[e]
           /\ reg' \in [Tasks -> Drivers \union {Nobody, Claimed}]
           /\ drv[d].task \in Tasks => reg'[drv[d].task] = Nobody
           /\ \A t \in Tasks : t # drv[d].task => reg'[t] = reg[t]
<1>1. NoDriver \in DriverStates
  BY DEF NoDriver, DriverStates, Places
<1> QED BY <1>1 DEF Leave, TypeOK

LEMMA WritesDoes ==
    ASSUME TypeOK, NEW t \in Tasks, NEW c \in Points, Writes(t, c)
    PROVE  /\ ckpt' \in [Tasks -> Points] /\ marked' \in [Tasks -> BOOLEAN]
           /\ boot' \in BootStates /\ wasted' \in [Tasks -> 0..2]
           /\ ckpt'[t] = c /\ \A u \in Tasks : u # t => ckpt'[u] = ckpt[u]
           /\ \A u \in Tasks : u # t => marked'[u] = marked[u]
           /\ BootStays
<1>1. boot' \in BootStates /\ BootStays
  BY DEF Writes, TypeOK, BootStates
<1> QED BY <1>1 DEF Writes, TypeOK

LEMMA StartsDoes ==
    ASSUME TypeOK, NEW d \in Drivers, NEW t \in Tasks, NEW f \in BOOLEAN, Starts(d, t, f)
    PROVE  /\ drv' \in [Drivers -> DriverStates]
           /\ drv'[d].task = t /\ drv'[d].pc = "born"
           /\ \A e \in Drivers : e # d => drv'[e] = drv[e]
           /\ reg' \in [Tasks -> Drivers \union {Nobody, Claimed}]
           /\ reg'[t] = d
           /\ \A u \in Tasks : u # t => reg'[u] = reg[u]
<1>1. [task |-> t, pc |-> "born", fresh |-> f] \in DriverStates
  BY DEF DriverStates, Places
<1> QED BY <1>1 DEF Starts, TypeOK

\* A request leaves the startup resume where it is; it may only outdate its marker.
LEMMA RequestBoot ==
    ASSUME TypeOK, NEW t \in Tasks, Request(t)
    PROVE  BootStays
<1>1. boot \in BootStates
  BY DEF TypeOK
<1>2. CASE Apply(t)
  <2>1. UNCHANGED boot \/ boot' = [boot EXCEPT !.current = FALSE]
    BY <1>2 DEF Apply, Writes
  <2> QED BY <1>1, <2>1 DEF BootStates
<1>3. CASE ~Apply(t)
  BY <1>3 DEF Request, Decide, DeleteRow, DeleteFiles, DeleteThread, StartRun
<1> QED BY <1>2, <1>3

LEMMA FreesDoes ==
    ASSUME TypeOK, NEW t \in Tasks, Frees(t)
    PROVE  /\ reg' \in [Tasks -> Drivers \union {Nobody, Claimed}]
           /\ reg'[t] = Nobody
           /\ \A u \in Tasks : u # t => reg'[u] = reg[u]
  BY DEF Frees, TypeOK

-----------------------------------------------------------------------------
(* Type correctness *)

LEMMA StreamType == ASSUME IInv, NEW d \in Drivers, Stream(d) \/ Progress(d) PROVE TypeOK'
<1> USE ConstantsAssumption DEF ConstantsAssumption, durable, history, bounds
<1>1. TypeOK /\ Named
  BY DEF IInv
<1>2. CASE MarkQueued(d)
  BY <1>1, <1>2, AtDoes DEF MarkQueued, TypeOK, Rows, Places, Trying
<1>3. CASE TakeSlot(d) \/ EndStream(d)
  BY <1>1, <1>3, AtDoes DEF TakeSlot, EndStream, TypeOK, Places, Trying
<1>4. CASE MarkRunning(d)
  <2>3. drv[d] \in DriverStates /\ drv[d].task \in Tasks
    BY <1>1, <1>4 DEF MarkRunning, TypeOK, Named
  <2>4. [drv[d] EXCEPT !.pc = "stream", !.fresh = FALSE] \in DriverStates
    BY <2>3 DEF DriverStates, Places, Trying
  <2>1. drv' \in [Drivers -> DriverStates] /\ drv[d].task \in Tasks
    BY <1>1, <1>4, <2>3, <2>4 DEF MarkRunning, TypeOK
  <2>2. ckpt' \in [Tasks -> Points] /\ marked' \in [Tasks -> BOOLEAN]
        /\ boot' \in BootStates /\ wasted' \in [Tasks -> 0..2]
    BY <1>1, <1>4, <2>1, WritesDoes DEF MarkRunning, TypeOK, Points, Nodes
  <2> QED BY <1>1, <1>4, <2>1, <2>2 DEF MarkRunning, TypeOK, Rows
<1>5. CASE StartPass(d)
  BY <1>1, <1>5, AtDoes DEF StartPass, TypeOK, Places, Trying
<1>6. CASE EndPass(d)
  <2>1. drv[d].task \in Tasks
    BY <1>1, <1>6 DEF EndPass, Named
  <2> QED BY <1>1, <1>6, <2>1, AtDoes, WritesDoes DEF EndPass, TypeOK, Places, Trying, Points, Nodes
<1>7. CASE RunGate(d)
  <2>1. drv[d].task \in Tasks
    BY <1>1, <1>7 DEF RunGate, Named
  <2>2. \A c \in {"work"} \union Resting : c \in Points
    BY DEF Points, Nodes
  <2> QED BY <1>1, <1>7, <2>1, <2>2, WritesDoes DEF RunGate, TypeOK
<1>8. CASE WriteFinal(d)
  <2>1. FinalStatus(ckpt[drv[d].task]) \in Rows
    BY DEF FinalStatus, Rows, Resting
  <2>2. drv' \in [Drivers -> DriverStates] /\ reg' \in [Tasks -> Drivers \union {Nobody, Claimed}]
    BY <1>1, <1>8, AtDoes, LeaveDoes DEF WriteFinal, TypeOK, Places, Trying
  <2> QED BY <1>1, <1>8, <2>1, <2>2 DEF WriteFinal, TypeOK
<1>9. CASE FreeWorkspace(d)
  BY <1>1, <1>9, LeaveDoes DEF FreeWorkspace, TypeOK
<1>10. CASE WriteError(d)
  BY <1>1, <1>10, LeaveDoes DEF WriteError, Fails, TypeOK, Named, Rows
<1>11. CASE WriteStopped(d)
  <2>1. drv[d].task \in Tasks
    BY <1>1, <1>11 DEF WriteStopped, Named
  <2>2. ckpt' \in [Tasks -> Points] /\ marked' \in [Tasks -> BOOLEAN]
        /\ boot' \in BootStates /\ wasted' \in [Tasks -> 0..2]
    BY <1>1, <1>11, <2>1, WritesDoes DEF WriteStopped, TypeOK
  <2> QED BY <1>1, <1>11, <2>1, <2>2, LeaveDoes DEF WriteStopped, Fails, TypeOK, Rows
<1>12. CASE Progress(d)
  <2>1. boot' \in BootStates
    BY <1>1, <1>12 DEF Progress, TypeOK, BootStates
  <2>2. marked' \in [Tasks -> BOOLEAN]
    BY <1>1, <1>12 DEF Progress, TypeOK
  <2>4. wasted' \in [Tasks -> 0..2]
    <3>1. drv[d].task \in Tasks /\ wasted' = [wasted EXCEPT ![drv[d].task] = 0]
      BY <1>1, <1>12 DEF Progress, Named
    <3> QED BY <1>1, <3>1 DEF TypeOK
  <2>3. UNCHANGED <<row, ckpt, ws, reg, drv, req, sup, made, raced, cut, bounds>>
    BY <1>12 DEF Progress
  <2> QED BY <1>1, <2>1, <2>2, <2>3, <2>4 DEF TypeOK
<1> QED BY <1>2, <1>3, <1>4, <1>5, <1>6, <1>7, <1>8, <1>9, <1>10, <1>11, <1>12 DEF Stream

LEMMA RequestType == ASSUME IInv, NEW t \in Tasks, Request(t) PROVE TypeOK'
<1> USE ConstantsAssumption DEF ConstantsAssumption, durable, history, bounds
<1>1. TypeOK /\ NoRequest \in RequestStates
  BY DEF IInv, NoRequest, RequestStates
<1>2. CASE Decide(t)
  <2>1. CASE ~May(req[t].kind, t)
    <3>1. Frees(t) /\ req' = [req EXCEPT ![t] = NoRequest]
      BY <1>2, <2>1 DEF Decide
    <3>2. req' \in [Tasks -> RequestStates] /\ reg' \in [Tasks -> Drivers \union {Nobody, Claimed}]
      BY <1>1, <3>1, FreesDoes DEF TypeOK
    <3> QED BY <1>1, <1>2, <3>2 DEF Decide, TypeOK
  <2>2. CASE May(req[t].kind, t) /\ req[t].kind = "delete"
    <3>1. req' = [req EXCEPT ![t].at = "row"]
      BY <1>2, <2>2 DEF Decide
    <3>2. req' \in [Tasks -> RequestStates]
      BY <1>1, <3>1 DEF TypeOK, RequestStates
    <3> QED BY <1>1, <1>2, <2>2, <3>2 DEF Decide, TypeOK
  <2>3. CASE May(req[t].kind, t) /\ req[t].kind # "delete"
    <3>1. PICK c \in Leads(req[t].kind, t) :
              req' = [req EXCEPT ![t] = [@ EXCEPT !.at = "apply", !.saw = c]]
      BY <1>2, <2>3 DEF Decide
    <3>2. req[t].kind \in Kinds
      BY <1>2 DEF Decide, IInv, Named
    <3>3. c \in {"same"} \union Nodes
      BY <2>3, <3>1, <3>2 DEF Leads, Nodes, Kinds, May
    <3>4. [req[t] EXCEPT !.at = "apply", !.saw = c] \in RequestStates
      BY <1>1, <3>3 DEF TypeOK, RequestStates
    <3>5. req' \in [Tasks -> RequestStates]
      BY <1>1, <3>1, <3>4 DEF TypeOK
    <3> QED BY <1>1, <1>2, <2>3, <3>5 DEF Decide, TypeOK
  <2> QED BY <2>1, <2>2, <2>3
<1>3. CASE Apply(t)
  <2>1. (IF req[t].saw = "same" THEN ckpt[t] ELSE req[t].saw) \in Points
    BY <1>1 DEF TypeOK, RequestStates, Points
  <2>2. req' \in [Tasks -> RequestStates]
    BY <1>1, <1>3 DEF Apply, TypeOK, RequestStates
  <2> QED BY <1>1, <1>3, <2>1, <2>2, WritesDoes DEF Apply, TypeOK
<1>4. CASE DeleteRow(t)
  BY <1>1, <1>4 DEF DeleteRow, TypeOK, RequestStates, Rows
<1>5. CASE DeleteFiles(t)
  BY <1>1, <1>5 DEF DeleteFiles, TypeOK, RequestStates
<1>6. CASE DeleteThread(t)
  BY <1>1, <1>6 DEF DeleteThread, TypeOK, Points
<1>7. ASSUME NEW d \in Drivers, StartRun(t, d) PROVE TypeOK'
  BY <1>1, <1>7, StartsDoes DEF StartRun, TypeOK
<1> QED BY <1>2, <1>3, <1>4, <1>5, <1>6, <1>7 DEF Request

LEMMA BootType == ASSUME IInv, StartupResume PROVE TypeOK'
<1> USE ConstantsAssumption DEF ConstantsAssumption, durable, history, bounds
<1>1. TypeOK /\ Named
  BY DEF IInv
<1>2. CASE Boot
  BY <1>1, <1>2 DEF Boot, Booted, Down, TypeOK, BootStates
<1>3. ASSUME NEW p \in Projects, ScanOrphans(p) PROVE TypeOK'
  <2>1. boot' \in BootStates
    BY <1>1, <1>3 DEF ScanOrphans, Orphans, TypeOK, BootStates
  <2> QED BY <1>1, <1>3, <2>1 DEF ScanOrphans, TypeOK
<1>4. CASE PatchOrphan
  <2>1. boot' \in BootStates
    <3>1. boot \in BootStates
      BY <1>1 DEF TypeOK
    <3>2. \/ boot' = [boot EXCEPT !.at = "loop", !.task = Nobody]
          \/ boot' = [boot EXCEPT !.at = "drive", !.current = FALSE]
      BY <1>4 DEF PatchOrphan
    <3> QED BY <3>1, <3>2 DEF BootStates
  <2>2. marked' \in [Tasks -> BOOLEAN]
    BY <1>1, <1>4 DEF PatchOrphan, TypeOK
  <2> QED BY <1>1, <1>4, <2>1, <2>2 DEF PatchOrphan, TypeOK
<1>5. CASE ScanOn \/ BootEnds
  BY <1>1, <1>5 DEF ScanOn, BootEnds, TypeOK, BootStates
<1>6. ASSUME NEW t \in Tasks, PickOrphan(t) PROVE TypeOK'
  BY <1>1, <1>6 DEF PickOrphan, TypeOK, BootStates
<1>7. ASSUME NEW d \in Drivers, DriveOrphan(d) PROVE TypeOK'
  <2>1. boot.task \in Tasks /\ boot.current \in BOOLEAN
    BY <1>1, <1>7 DEF DriveOrphan, Named, TypeOK, BootStates
  <2>2. drv' \in [Drivers -> DriverStates] /\ reg' \in [Tasks -> Drivers \union {Nobody, Claimed}]
    BY <1>1, <1>7, <2>1, StartsDoes DEF DriveOrphan
  <2>3. boot' \in BootStates
    BY <1>1, <1>7 DEF DriveOrphan, TypeOK, BootStates
  <2>4. row' \in [Tasks -> Rows]
    BY <1>1, <1>7 DEF DriveOrphan, TypeOK, Rows
  <2>5. wasted' \in [Tasks -> 0..2]
    BY <1>1, <1>7, <2>1 DEF DriveOrphan, TypeOK
  <2> QED BY <1>1, <1>7, <2>1, <2>2, <2>3, <2>4, <2>5 DEF DriveOrphan, TypeOK
<1> QED BY <1>2, <1>3, <1>4, <1>5, <1>6, <1>7 DEF StartupResume

LEMMA OperatorType == ASSUME IInv, Operator PROVE TypeOK'
<1> USE ConstantsAssumption DEF ConstantsAssumption, durable, history, bounds, Asks
<1>1. TypeOK /\ Named
  BY DEF IInv
<1>2. ASSUME NEW t \in Tasks, StopTask(t) PROVE TypeOK'
  <2>1. drv' \in [Drivers -> DriverStates] /\ reg' \in [Tasks -> Drivers \union {Nobody, Claimed}]
    BY <1>1, <1>2, AtDoes, LeaveDoes DEF StopTask, TypeOK, Places, Handling
  <2> QED BY <1>1, <1>2, <2>1 DEF StopTask, TypeOK
<1>3. ASSUME NEW t \in Tasks, NEW d \in Drivers, CreateTask(t, d) PROVE TypeOK'
  <2>1. row' \in [Tasks -> Rows]
    BY <1>1, <1>3 DEF CreateTask, TypeOK, Rows
  <2>2. drv' \in [Drivers -> DriverStates] /\ reg' \in [Tasks -> Drivers \union {Nobody, Claimed}]
    BY <1>1, <1>3, StartsDoes DEF CreateTask
  <2> QED BY <1>1, <1>3, <2>1, <2>2 DEF CreateTask, TypeOK
<1>4. ASSUME NEW t \in Tasks, NEW kind \in Kinds, ClaimTask(t, kind) PROVE TypeOK'
  BY <1>1, <1>4 DEF ClaimTask, TypeOK, RequestStates
<1> QED BY <1>2, <1>3, <1>4 DEF Operator

LEMMA SupervisorType == ASSUME IInv, Supervisor PROVE TypeOK'
<1> USE ConstantsAssumption DEF ConstantsAssumption, durable, history, bounds
<1>1. TypeOK /\ Named
  BY DEF IInv
<1>2. ASSUME NEW t \in Tasks, Look(t) \/ ListWorkspace(t) PROVE TypeOK'
  BY <1>1, <1>2 DEF Look, ListWorkspace, Sweeping, Asks, TypeOK, SweepStates
<1>3. CASE ClaimForSweep
  BY <1>1, <1>3 DEF ClaimForSweep, NoSweep, TypeOK, SweepStates
<1>4. CASE Conclude
  <2>1. sup.task \in Tasks /\ sup' \in SweepStates
    BY <1>1, <1>4 DEF Conclude, Named, TypeOK, SweepStates
  <2> QED BY <1>1, <1>4, <2>1, WritesDoes, FreesDoes DEF Conclude, TypeOK, Points, Resting
<1>5. CASE WriteMeta
  BY <1>1, <1>5 DEF WriteMeta, NoSweep, Named, TypeOK, SweepStates, Rows, Resting
<1>6. CASE TakeWorkspace \/ RemoveWorkspace
  <2>1. sup' \in SweepStates
    BY <1>1, <1>6 DEF TakeWorkspace, RemoveWorkspace, NoSweep, TypeOK, SweepStates
  <2> QED BY <1>1, <1>6, <2>1 DEF TakeWorkspace, RemoveWorkspace, TypeOK
<1>7. ASSUME NEW d \in Drivers, Heal(d) PROVE TypeOK'
  <2>1. sup.task \in Tasks /\ sup' \in SweepStates
    BY <1>1, <1>7 DEF Heal, Named, TypeOK, SweepStates
  <2>2. \A c \in Nodes : c \in Points
    BY DEF Points
  <2> QED BY <1>1, <1>7, <2>1, <2>2, WritesDoes, StartsDoes DEF Heal, TypeOK
<1> QED BY <1>2, <1>3, <1>4, <1>5, <1>6, <1>7 DEF Supervisor

LEMMA FaultsType == ASSUME IInv, Faults PROVE TypeOK'
<1> USE ConstantsAssumption DEF ConstantsAssumption, durable, history, bounds
<1>1. TypeOK /\ Named
  BY DEF IInv
<1>2. CASE Crash
  <2>1. drv' \in [Drivers -> DriverStates] /\ req' \in [Tasks -> RequestStates]
    BY <1>2 DEF Crash, NoDriver, NoRequest, DriverStates, RequestStates, Places
  <2>2. boot' \in BootStates /\ sup' \in SweepStates
    BY <1>2 DEF Crash, Down, NoSweep, BootStates, SweepStates
  <2> QED BY <1>1, <1>2, <2>1, <2>2 DEF Crash, TypeOK
<1>3. CASE SweepFails
  BY <1>1, <1>3, FreesDoes DEF SweepFails, Fails, NoSweep, Named, TypeOK, SweepStates
<1>4. CASE OrphanFails
  <2>1. boot' \in BootStates /\ boot.task \in Tasks
    BY <1>1, <1>4 DEF OrphanFails, Named, TypeOK, BootStates
  <2> QED BY <1>1, <1>4, <2>1 DEF OrphanFails, Fails, TypeOK
<1>7. ASSUME NEW p \in Projects, ScanFails(p) PROVE TypeOK'
  <2>1. boot' \in BootStates
    BY <1>1, <1>7 DEF ScanFails, Orphans, TypeOK, BootStates
  <2> QED BY <1>1, <1>7, <2>1 DEF ScanFails, Fails, TypeOK
<1>5. ASSUME NEW d \in Drivers, BirthFails(d) \/ Throws(d) PROVE TypeOK'
  BY <1>1, <1>5, AtDoes DEF BirthFails, Throws, Fails, Named, TypeOK, Places, Handling
<1>6. ASSUME NEW t \in Tasks, RequestFails(t) PROVE TypeOK'
  <2>1. NoRequest \in RequestStates
    BY DEF NoRequest, RequestStates
  <2> QED BY <1>1, <1>6, <2>1, FreesDoes DEF RequestFails, Fails, TypeOK
<1> QED BY <1>2, <1>3, <1>4, <1>5, <1>6, <1>7 DEF Faults

-----------------------------------------------------------------------------
(* How a step moves the registry *)

Asking(t)   == req[t] # NoRequest
Applying(t) == sup.at = "apply" /\ sup.task = t

\* Of other tasks than t the registry, the requests and the sweep say what they said.
OthersKeep(t) ==
    /\ \A u \in Tasks \ {t} :
           reg'[u] = reg[u] /\ (Asking(u)' <=> Asking(u)) /\ (Applying(u)' <=> Applying(u))
    /\ raced \subseteq raced' /\ cut \subseteq cut'

\* Drivers go on, none begins or leaves.
Onward ==
    /\ \A t \in Tasks :
           reg'[t] = reg[t] /\ (Asking(t)' <=> Asking(t)) /\ (Applying(t)' <=> Applying(t))
    /\ raced \subseteq raced' /\ cut \subseteq cut'
    /\ \A d \in Drivers :
           /\ drv'[d].task = drv[d].task
           /\ \/ drv'[d].pc = drv[d].pc
              \/ drv[d].pc \notin {"idle", "dead"} /\ drv'[d].pc \notin {"idle", "dead"}
              \/ drv[d].pc \notin {"idle", "dead"} /\ drv'[d].pc = "dead" /\ drv[d].task \in cut'

\* The finally of a driver.
Ends(d, t) ==
    /\ Drives(d, t) /\ OthersKeep(t)
    /\ reg'[t] = Nobody /\ drv'[d] = NoDriver
    /\ (Asking(t)' <=> Asking(t)) /\ (Applying(t)' <=> Applying(t))
    /\ \A e \in Drivers : e # d => drv'[e] = drv[e]

\* A driver is registered, by whoever had the claim or for a task that nobody had.
Begins(d, t) ==
    /\ Unused(d) /\ OthersKeep(t)
    /\ reg'[t] = d /\ drv'[d].task = t /\ drv'[d].pc = "born"
    /\ t \notin raced' => ~Driven(t) /\ ~Asking(t)' /\ ~Applying(t)'
    /\ \A e \in Drivers : e # d => drv'[e] = drv[e]

\* A free task is claimed, for a request or for the sweep.
Claiming(t) ==
    /\ reg[t] = Nobody /\ reg'[t] = Claimed /\ OthersKeep(t) /\ UNCHANGED drv
    /\ t \notin raced' => ~(Asking(t)' /\ Applying(t)')
    /\ Asking(t)' \/ Applying(t)'

\* A claim is given up.
Freeing(t) ==
    /\ OthersKeep(t) /\ UNCHANGED drv
    /\ t \notin raced => reg[t] = Claimed /\ ~Asking(t)' /\ ~Applying(t)'
    /\ reg'[t] = Nobody \/ (t \in raced /\ reg'[t] = reg[t] /\ reg[t] # Claimed)

LEMMA OnwardKeeps == ASSUME TypeOK, Registry, Onward PROVE Registry'
<1>1. OneDriver' /\ Entries' /\ Dead'
  BY DEF Registry, Onward, OneDriver, Drives, Entries, Dead
<1>2. Claims' /\ Claimers'
  BY DEF Registry, Onward, Claims, Claimers, Asking, Applying
<1> QED BY <1>1, <1>2 DEF Registry

LEMMA EndsKeeps ==
    ASSUME TypeOK, Registry, NEW d \in Drivers, NEW t \in Tasks, Ends(d, t)
    PROVE  Registry'
<1> USE ConstantsAssumption DEF ConstantsAssumption
<1>1. NoDriver.pc = "idle" /\ drv[d].task = t /\ drv[d].pc \notin {"idle", "dead"}
  BY DEF NoDriver, Ends, Drives
<1>2. t \notin raced => reg[t] = d
  BY DEF Registry, OneDriver, Ends
<1>3. ASSUME NEW u \in Tasks \ raced', NEW e \in Drivers, Drives(e, u)' PROVE reg'[u] = e
  <2>1. e # d /\ drv'[e] = drv[e] /\ Drives(e, u) /\ u \notin raced
    BY <1>1, <1>3 DEF Ends, OthersKeep, Drives
  <2>2. reg[u] = e
    BY <2>1 DEF Registry, OneDriver
  <2> QED BY <1>2, <2>1, <2>2 DEF Ends, OthersKeep
<1>4. Entries' /\ Dead'
  BY <1>1 DEF Registry, Ends, OthersKeep, Entries, Dead
<1>5. Claims' /\ Claimers'
  BY <1>2 DEF Registry, Ends, OthersKeep, Claims, Claimers, Asking, Applying
<1> QED BY <1>3, <1>4, <1>5 DEF Registry, OneDriver

LEMMA BeginsKeeps ==
    ASSUME TypeOK, Registry, NEW d \in Drivers, NEW t \in Tasks, Begins(d, t)
    PROVE  Registry'
<1> USE ConstantsAssumption DEF ConstantsAssumption
<1>1. \A e \in Drivers : e # d => drv'[e] = drv[e]
  BY DEF Begins
<1>2. OneDriver'
  BY <1>1 DEF Registry, Begins, OthersKeep, OneDriver, Drives, Driven, Unused
<1>3. Entries' /\ Dead'
  BY <1>1 DEF Registry, Begins, OthersKeep, Unused, Entries, Dead
<1>4. Claims' /\ Claimers'
  BY DEF Registry, Begins, OthersKeep, Claims, Claimers, Asking, Applying
<1> QED BY <1>2, <1>3, <1>4 DEF Registry

LEMMA ClaimingKeeps == ASSUME TypeOK, Registry, NEW t \in Tasks, Claiming(t) PROVE Registry'
<1> USE ConstantsAssumption DEF ConstantsAssumption
<1>1. OneDriver' /\ Entries' /\ Dead'
  BY DEF Registry, Claiming, OthersKeep, OneDriver, Drives, Entries, Dead
<1>2. Claims' /\ Claimers'
  BY DEF Registry, Claiming, OthersKeep, Claims, Claimers, Asking, Applying
<1> QED BY <1>1, <1>2 DEF Registry

LEMMA FreeingKeeps == ASSUME TypeOK, Registry, NEW t \in Tasks, Freeing(t) PROVE Registry'
<1> USE ConstantsAssumption DEF ConstantsAssumption
<1>1. OneDriver' /\ Entries' /\ Dead'
  BY DEF Registry, Freeing, OthersKeep, OneDriver, Drives, Entries, Dead
<1>2. Claims' /\ Claimers'
  BY DEF Registry, Freeing, OthersKeep, Claims, Claimers, Asking, Applying
<1> QED BY <1>1, <1>2 DEF Registry

\* The sweep lets go of the claim.
LEMMA SweepFrees ==
    ASSUME TypeOK, Registry, NEW t \in Tasks, t = sup.task, Applying(t), Frees(t),
           sup'.at # "apply", UNCHANGED <<drv, req, raced, cut>>
    PROVE  Registry'
<1>1. t \notin raced => reg[t] = Claimed /\ ~Asking(t)
  BY DEF Registry, Claims, Asking, Applying
<1>2. OthersKeep(t) /\ (Asking(t)' <=> Asking(t)) /\ ~Applying(t)'
  <2>1. \A u \in Tasks \ {t} : reg'[u] = reg[u]
    BY FreesDoes
  <2> QED BY <2>1 DEF OthersKeep, Asking, Applying
<1>3. Freeing(t)
  BY <1>1, <1>2, FreesDoes DEF Freeing
<1> QED BY <1>3, FreeingKeeps

-----------------------------------------------------------------------------
(* Every action is one of these *)

LEMMA StreamRegistry == ASSUME IInv, NEW d \in Drivers, Stream(d) \/ Progress(d) PROVE Registry'
<1> USE DEF durable, history, bounds
<1>1. TypeOK /\ Registry /\ Named
  BY DEF IInv
<1>2. CASE MarkQueued(d) \/ TakeSlot(d) \/ StartPass(d) \/ EndPass(d) \/ EndStream(d)
  <2>1. PICK pc \in Places \ {"idle", "dead"} : At(d, pc)
    BY <1>2 DEF MarkQueued, TakeSlot, StartPass, EndPass, EndStream, Places, Trying
  <2>2. drv[d].pc \notin {"idle", "dead"} /\ UNCHANGED <<reg, req, sup, raced, cut>>
    BY <1>2 DEF MarkQueued, TakeSlot, StartPass, EndPass, EndStream
  <2>3. Onward
    BY <1>1, <2>1, <2>2, AtDoes DEF Onward, Asking, Applying
  <2> QED BY <1>1, <2>3, OnwardKeeps
<1>3. CASE MarkRunning(d)
  <2>1. Onward
    BY <1>1, <1>3 DEF MarkRunning, TypeOK, DriverStates, Onward, Asking, Applying
  <2> QED BY <1>1, <2>1, OnwardKeeps
<1>4. CASE RunGate(d) \/ Progress(d)
  <2>1. Onward
    BY <1>4 DEF RunGate, Progress, Onward, Asking, Applying
  <2> QED BY <1>1, <2>1, OnwardKeeps
<1>5. CASE WriteFinal(d) /\ At(d, "alerts") /\ UNCHANGED reg
  <2>1. drv[d].pc = "final" /\ UNCHANGED <<req, sup, raced, cut>>
    BY <1>5 DEF WriteFinal
  <2>2. Onward
    BY <1>1, <1>5, <2>1, AtDoes DEF Onward, Asking, Applying, Places, Trying
  <2> QED BY <1>1, <2>2, OnwardKeeps
<1>6. CASE Leave(d) /\ (WriteFinal(d) \/ FreeWorkspace(d) \/ WriteError(d) \/ WriteStopped(d))
  <2>1. drv[d].pc \notin {"idle", "dead"} /\ UNCHANGED <<req, sup, raced>> /\ cut \subseteq cut'
    BY <1>6 DEF WriteFinal, FreeWorkspace, WriteError, WriteStopped
  <2>2. PICK t \in Tasks : t = drv[d].task
    BY <1>1, <2>1 DEF Named
  <2>3. OthersKeep(t) /\ (Asking(t)' <=> Asking(t)) /\ (Applying(t)' <=> Applying(t))
    BY <1>1, <1>6, <2>1, <2>2, LeaveDoes DEF OthersKeep, Asking, Applying
  <2>4. Ends(d, t)
    BY <1>1, <1>6, <2>1, <2>2, <2>3, LeaveDoes DEF Ends, Drives
  <2> QED BY <1>1, <2>4, EndsKeeps
<1> QED BY <1>2, <1>3, <1>4, <1>5, <1>6
        DEF Stream, WriteFinal, FreeWorkspace, WriteError, WriteStopped

LEMMA RequestRegistry == ASSUME IInv, NEW t \in Tasks, Request(t) PROVE Registry'
<1> USE DEF durable, history, bounds
<1>1. TypeOK /\ Registry /\ NoRequest.at = "none"
  BY DEF IInv, NoRequest
<1>2. Asking(t) /\ (t \notin raced => reg[t] = Claimed /\ ~Applying(t))
  <2>1. req[t].at # "none"
    BY DEF Request, Decide, Apply, DeleteRow, DeleteFiles, DeleteThread, StartRun
  <2> QED BY <1>1, <2>1 DEF Registry, Claims, Asking, Applying
<1>3. CASE Decide(t) /\ ~May(req[t].kind, t)
  <2>1. Frees(t) /\ req' = [req EXCEPT ![t] = NoRequest] /\ UNCHANGED <<drv, sup, raced, cut>>
    BY <1>3 DEF Decide
  <2>2. OthersKeep(t) /\ ~Asking(t)' /\ (Applying(t)' <=> Applying(t))
    BY <1>1, <2>1, FreesDoes DEF OthersKeep, Asking, Applying, TypeOK
  <2>3. Freeing(t)
    BY <1>1, <1>2, <2>1, <2>2, FreesDoes DEF Freeing
  <2> QED BY <1>1, <2>3, FreeingKeeps
<1>4. CASE \/ Decide(t) /\ May(req[t].kind, t)
           \/ Apply(t) \/ DeleteRow(t) \/ DeleteFiles(t)
  <2>1. UNCHANGED <<reg, drv, sup, raced, cut>> /\ \A u \in Tasks \ {t} : req'[u] = req[u]
    BY <1>1, <1>4 DEF Decide, Apply, DeleteRow, DeleteFiles, TypeOK
  <2>2. req'[t].at \in {"apply", "row", "start", "files", "thread"}
    <3>1. req \in [Tasks -> RequestStates]
      BY <1>1 DEF TypeOK
    <3>2. CASE Decide(t) /\ May(req[t].kind, t)
      BY <3>1, <3>2 DEF Decide, RequestStates
    <3>3. CASE Apply(t) \/ DeleteRow(t) \/ DeleteFiles(t)
      BY <3>1, <3>3 DEF Apply, DeleteRow, DeleteFiles, RequestStates
    <3> QED BY <1>4, <3>2, <3>3
  <2>3. Onward
    BY <1>1, <1>2, <2>1, <2>2 DEF Onward, Asking, Applying
  <2> QED BY <1>1, <2>3, OnwardKeeps
<1>5. CASE DeleteThread(t)
  <2>1. UNCHANGED <<drv, sup, raced, cut>> /\ req' = [req EXCEPT ![t] = NoRequest]
        /\ reg' = [reg EXCEPT ![t] = IF @ = Claimed THEN Nobody ELSE @]
    BY <1>5 DEF DeleteThread
  <2>2. OthersKeep(t) /\ ~Asking(t)' /\ (Applying(t)' <=> Applying(t))
    BY <1>1, <2>1 DEF OthersKeep, Asking, Applying, TypeOK
  <2>3. Freeing(t)
    BY <1>1, <1>2, <2>1, <2>2 DEF Freeing, TypeOK
  <2> QED BY <1>1, <2>3, FreeingKeeps
<1>6. ASSUME NEW d \in Drivers, StartRun(t, d) PROVE Registry'
  <2>1. Unused(d) /\ Starts(d, t, FALSE) /\ req' = [req EXCEPT ![t] = NoRequest]
        /\ UNCHANGED <<sup, raced, cut>>
    BY <1>6 DEF StartRun
  <2>2. OthersKeep(t) /\ ~Asking(t)' /\ (Applying(t)' <=> Applying(t))
    <3>1. \A u \in Tasks \ {t} : reg'[u] = reg[u]
      BY <1>1, <2>1 DEF Starts, TypeOK
    <3> QED BY <1>1, <2>1, <3>1 DEF OthersKeep, Asking, Applying, TypeOK
  <2>3. t \notin raced => ~Driven(t)
    BY <1>1, <1>2, ConstantsAssumption DEF ConstantsAssumption, Registry, OneDriver, Driven
  <2>4. Begins(d, t)
    BY <1>1, <1>2, <2>1, <2>2, <2>3, StartsDoes DEF Begins
  <2> QED BY <1>1, <2>4, BeginsKeeps
<1> QED BY <1>3, <1>4, <1>5, <1>6 DEF Request

LEMMA BootRegistry == ASSUME IInv, StartupResume PROVE Registry'
<1> USE DEF durable, history, bounds
<1>1. TypeOK /\ Registry /\ Named
  BY DEF IInv
<1>2. CASE Boot \/ Scans \/ PatchOrphan \/ \E t \in Tasks : PickOrphan(t)
  <2>1. Onward
    BY <1>2 DEF Boot, Scans, ScanOrphans, ScanOn, BootEnds, PatchOrphan, PickOrphan, Onward, Asking, Applying
  <2> QED BY <1>1, <2>1, OnwardKeeps
<1>3. ASSUME NEW d \in Drivers, DriveOrphan(d) PROVE Registry'
  <2>0. PICK t \in Tasks : t = boot.task
    BY <1>1, <1>3 DEF DriveOrphan, Named
  <2>1. Unused(d) /\ Starts(d, t, FALSE) /\ UNCHANGED <<req, sup, cut>>
    BY <1>3, <2>0 DEF DriveOrphan
  <2>2. raced \subseteq raced' /\ (t \notin raced' => reg[t] = Nobody /\ ~Driven(t) /\ t \notin raced)
    BY <1>3, <2>0 DEF DriveOrphan
  <2>3. OthersKeep(t) /\ (Asking(t)' <=> Asking(t)) /\ (Applying(t)' <=> Applying(t))
    <3>1. \A u \in Tasks \ {t} : reg'[u] = reg[u]
      BY <1>1, <2>1 DEF Starts, TypeOK
    <3> QED BY <2>1, <2>2, <3>1 DEF OthersKeep, Asking, Applying
  <2>4. t \notin raced' => ~Asking(t) /\ ~Applying(t)
    BY <1>1, <2>1, <2>2, ConstantsAssumption
       DEF ConstantsAssumption, Registry, Claims, Asking, Applying
  <2>5. Begins(d, t)
    BY <1>1, <2>1, <2>2, <2>3, <2>4, StartsDoes DEF Begins
  <2> QED BY <1>1, <2>5, BeginsKeeps
<1> QED BY <1>2, <1>3 DEF StartupResume, Scans

LEMMA OperatorRegistry == ASSUME IInv, Operator PROVE Registry'
<1> USE DEF durable, history, bounds
<1>1. TypeOK /\ Registry /\ Named /\ Untouched
  BY DEF IInv
<1>2. ASSUME NEW t \in Tasks, StopTask(t) PROVE Registry'
  <2>0. PICK d \in Drivers : d = reg[t]
    BY <1>2 DEF StopTask
  <2>1. drv[d].task = t /\ UNCHANGED <<req, sup, raced>> /\ cut \subseteq cut'
    BY <1>1, <1>2, <2>0 DEF StopTask, Registry, Entries
  <2>2. CASE UNCHANGED reg /\ ((drv[d].pc \in Trying /\ At(d, "undo"))
                           \/ (drv[d].pc = "born" /\ At(d, "dead") /\ drv[d].task \in cut'))
    <3>1. Onward
      BY <1>1, <2>1, <2>2, AtDoes DEF Onward, Asking, Applying, Places, Trying, Handling
    <3> QED BY <1>1, <3>1, OnwardKeeps
  <2>3. CASE drv[d].pc \in Handling /\ Leave(d)
    <3>1. OthersKeep(t) /\ (Asking(t)' <=> Asking(t)) /\ (Applying(t)' <=> Applying(t))
      BY <1>1, <2>1, <2>3, LeaveDoes DEF OthersKeep, Asking, Applying
    <3>2. Ends(d, t)
      BY <1>1, <2>1, <2>3, <3>1, LeaveDoes DEF Ends, Drives, Handling
    <3> QED BY <1>1, <2>1, <3>2, EndsKeeps
  <2> QED BY <1>2, <2>0, <2>1, <2>2, <2>3 DEF StopTask
<1>3. ASSUME NEW t \in Tasks, NEW d \in Drivers, CreateTask(t, d) PROVE Registry'
  <2>1. Unused(d) /\ Starts(d, t, TRUE) /\ UNCHANGED <<req, sup, raced, cut>> /\ t \notin made
    BY <1>3 DEF CreateTask
  <2>2. ~Driven(t) /\ ~Asking(t) /\ ~Applying(t)
    BY <1>1, <2>1 DEF Untouched, Driven, Drives, Asking, Applying
  <2>3. OthersKeep(t) /\ (Asking(t)' <=> Asking(t)) /\ (Applying(t)' <=> Applying(t))
    <3>1. \A u \in Tasks \ {t} : reg'[u] = reg[u]
      BY <1>1, <2>1 DEF Starts, TypeOK
    <3> QED BY <2>1, <3>1 DEF OthersKeep, Asking, Applying
  <2>4. Begins(d, t)
    <3>1. /\ reg'[t] = d /\ drv'[d].task = t /\ drv'[d].pc = "born"
          /\ \A e \in Drivers : e # d => drv'[e] = drv[e]
      BY <1>1, <2>1 DEF Starts, TypeOK
    <3> QED BY <2>1, <2>2, <2>3, <3>1 DEF Begins
  <2> QED BY <1>1, <2>4, BeginsKeeps
<1>4. ASSUME NEW t \in Tasks, NEW kind \in Kinds, ClaimTask(t, kind) PROVE Registry'
  <2>1. reg[t] = Nobody /\ reg' = [reg EXCEPT ![t] = Claimed] /\ UNCHANGED <<drv, sup, raced, cut>>
        /\ req' = [req EXCEPT ![t] = [kind |-> kind, at |-> "read", saw |-> "none"]]
    BY <1>4 DEF ClaimTask, Claimable
  <2>2. reg'[t] = Claimed /\ Asking(t)' /\ OthersKeep(t)
    BY <1>1, <2>1 DEF OthersKeep, Asking, Applying, TypeOK, NoRequest
  <2>3. t \notin raced => ~Applying(t)'
    BY <1>1, <2>1, ConstantsAssumption DEF ConstantsAssumption, Registry, Claims, Applying
  <2>4. Claiming(t)
    BY <2>1, <2>2, <2>3 DEF Claiming
  <2> QED BY <1>1, <2>4, ClaimingKeeps
<1> QED BY <1>2, <1>3, <1>4 DEF Operator

LEMMA SupervisorRegistry == ASSUME IInv, Supervisor PROVE Registry'
<1> USE DEF durable, history, bounds
<1>1. TypeOK /\ Registry /\ Named /\ sup' \in SweepStates
  BY SupervisorType DEF IInv, TypeOK
<1>2. CASE \/ TakeWorkspace \/ RemoveWorkspace \/ WriteMeta
           \/ \E t \in Tasks : Look(t) \/ ListWorkspace(t)
  <2>1. sup.at # "apply" /\ sup'.at # "apply" /\ UNCHANGED <<reg, drv, req, raced>> /\ cut \subseteq cut'
    BY <1>1, <1>2 DEF TakeWorkspace, RemoveWorkspace, WriteMeta, Look, ListWorkspace, Sweeping,
                      NoSweep, TypeOK, SweepStates
  <2>2. Onward
    BY <2>1 DEF Onward, Asking, Applying
  <2> QED BY <1>1, <2>2, OnwardKeeps
<1>3. CASE ClaimForSweep /\ reg[sup.task] # Nobody
  <2>1. sup.at # "apply" /\ sup'.at # "apply" /\ UNCHANGED <<reg, drv, req, raced, cut>>
    BY <1>3 DEF ClaimForSweep, NoSweep
  <2>2. Onward
    BY <2>1 DEF Onward, Asking, Applying
  <2> QED BY <1>1, <2>2, OnwardKeeps
<1>4. CASE ClaimForSweep /\ reg[sup.task] = Nobody
  <2>1. PICK t \in Tasks : t = sup.task
    BY <1>1, <1>4 DEF ClaimForSweep, Named
  <2>2. reg[t] = Nobody /\ reg' = [reg EXCEPT ![t] = Claimed] /\ UNCHANGED <<drv, req, raced, cut>>
        /\ sup.at # "apply" /\ sup'.at = "apply" /\ sup'.task = t
    BY <1>1, <1>4, <2>1 DEF ClaimForSweep, TypeOK, SweepStates
  <2>3. t \notin raced => ~Asking(t)
    BY <1>1, <2>2, ConstantsAssumption DEF ConstantsAssumption, Registry, Claims, Asking
  <2>4. reg'[t] = Claimed /\ OthersKeep(t)
    BY <1>1, <2>2 DEF OthersKeep, Asking, Applying, TypeOK
  <2>5. Claiming(t)
    BY <2>2, <2>3, <2>4 DEF Claiming, Asking, Applying
  <2> QED BY <1>1, <2>5, ClaimingKeeps
<1>5. CASE Conclude
  <2>1. PICK t \in Tasks : t = sup.task
    BY <1>1, <1>5 DEF Conclude, Named
  <2>2. Frees(t) /\ UNCHANGED <<drv, req, raced, cut>> /\ sup'.at # "apply" /\ Applying(t)
    BY <1>1, <1>5, <2>1 DEF Conclude, TypeOK, SweepStates, Applying
  <2> QED BY <1>1, <2>1, <2>2, SweepFrees
<1>6. ASSUME NEW d \in Drivers, Heal(d) PROVE Registry'
  <2>1. PICK t \in Tasks : t = sup.task
    BY <1>1, <1>6 DEF Heal, Named
  <2>2. Unused(d) /\ Starts(d, t, FALSE) /\ UNCHANGED <<req, raced, cut>>
        /\ sup'.at # "apply" /\ Applying(t)
    BY <1>1, <1>6, <2>1 DEF Heal, TypeOK, SweepStates, Applying
  <2>3. t \notin raced => reg[t] = Claimed /\ ~Asking(t)
    BY <1>1, <2>2 DEF Registry, Claims, Asking, Applying
  <2>4. t \notin raced => ~Driven(t)
    BY <1>1, <2>3, ConstantsAssumption DEF ConstantsAssumption, Registry, OneDriver, Driven
  <2>5. OthersKeep(t)
    <3>1. \A u \in Tasks \ {t} : reg'[u] = reg[u]
      BY <1>1, <2>2 DEF Starts, TypeOK
    <3> QED BY <2>2, <3>1 DEF OthersKeep, Asking, Applying
  <2>6. Begins(d, t)
    <3>1. (Asking(t)' <=> Asking(t)) /\ ~Applying(t)'
      BY <2>2 DEF Asking, Applying
    <3> QED BY <1>1, <2>2, <2>3, <2>4, <2>5, <3>1, StartsDoes DEF Begins
  <2> QED BY <1>1, <2>6, BeginsKeeps
<1> QED BY <1>2, <1>3, <1>4, <1>5, <1>6 DEF Supervisor

LEMMA FaultsRegistry == ASSUME IInv, Faults PROVE Registry'
<1> USE DEF durable, history, bounds
<1>1. TypeOK /\ Registry /\ Named
  BY DEF IInv
<1>2. CASE Crash
  BY <1>2, ConstantsAssumption
     DEF ConstantsAssumption, Crash, NoDriver, NoSweep, Registry, OneDriver, Drives,
         Entries, Claims, Claimers, Dead
<1>3. CASE SweepFails /\ sup.at = "apply"
  <2>1. PICK t \in Tasks : t = sup.task
    BY <1>1, <1>3 DEF Named
  <2>2. Frees(t) /\ UNCHANGED <<drv, req, raced, cut>> /\ sup'.at # "apply" /\ Applying(t)
    BY <1>3, <2>1 DEF SweepFails, NoSweep, Applying
  <2> QED BY <1>1, <2>1, <2>2, SweepFrees
<1>4. CASE Skips \/ (SweepFails /\ sup.at # "apply")
  <2>1. UNCHANGED <<reg, drv, req, raced>> /\ cut \subseteq cut'
    BY <1>4 DEF Skips, OrphanFails, ScanFails, SweepFails
  <2>2. UNCHANGED sup \/ (sup' = NoSweep /\ sup.at # "apply")
    BY <1>4 DEF Skips, OrphanFails, ScanFails, SweepFails
  <2>3. Onward
    BY <2>1, <2>2 DEF NoSweep, Onward, Asking, Applying
  <2> QED BY <1>1, <2>3, OnwardKeeps
<1>5. ASSUME NEW d \in Drivers, BirthFails(d) \/ Throws(d) PROVE Registry'
  <2>1. PICK pc \in {"dead", "fail"} : At(d, pc)
    BY <1>5 DEF BirthFails, Throws
  <2>2. /\ drv[d].pc \notin {"idle", "dead"} /\ (pc = "dead" => drv[d].task \in cut')
        /\ UNCHANGED <<reg, req, sup, raced>> /\ cut \subseteq cut'
    <3>1. CASE BirthFails(d)
      BY <3>1 DEF BirthFails
    <3>2. CASE Throws(d)
      <4>1. drv'[d].pc = "fail"
        BY <1>1, <3>2, AtDoes DEF Throws, Places, Handling
      <4> QED BY <1>1, <2>1, <3>2, <4>1, AtDoes DEF Throws, Trying, Places, Handling
    <3> QED BY <1>5, <3>1, <3>2
  <2>3. Onward
    BY <1>1, <2>1, <2>2, AtDoes DEF Onward, Asking, Applying, Places, Handling
  <2> QED BY <1>1, <2>3, OnwardKeeps
<1>6. ASSUME NEW t \in Tasks, RequestFails(t) PROVE Registry'
  <2>1. Frees(t) /\ req' = [req EXCEPT ![t] = NoRequest] /\ UNCHANGED <<drv, sup, raced>>
        /\ cut \subseteq cut' /\ Asking(t)
    BY <1>6 DEF RequestFails, Asking
  <2>2. OthersKeep(t) /\ ~Asking(t)' /\ (Applying(t)' <=> Applying(t))
    <3>1. \A u \in Tasks \ {t} : reg'[u] = reg[u]
      BY <1>1, <2>1, FreesDoes
    <3> QED BY <1>1, <2>1, <3>1 DEF OthersKeep, Asking, Applying, TypeOK
  <2>3. t \notin raced => reg[t] = Claimed /\ ~Applying(t)
    BY <1>1, <2>1 DEF Registry, Claims, Asking, Applying
  <2>4. Freeing(t)
    BY <1>1, <2>1, <2>2, <2>3, FreesDoes DEF Freeing
  <2> QED BY <1>1, <2>4, FreeingKeeps
<1> QED BY <1>2, <1>3, <1>4, <1>5, <1>6 DEF Faults, Skips

-----------------------------------------------------------------------------
(* Whoever is at work is at work on a task, and on one that was created *)

LEMMA StreamNamed == ASSUME IInv, NEW d \in Drivers, Stream(d) \/ Progress(d) PROVE Named'
<1> USE DEF history, bounds
<1>1. TypeOK /\ Named /\ NoDriver.pc = "idle"
  BY DEF IInv, NoDriver
<1>2. boot'.at = boot.at /\ boot'.task = boot.task /\ UNCHANGED <<sup, req>>
  BY <1>1 DEF Stream, Progress, MarkQueued, TakeSlot, MarkRunning, StartPass, EndPass, RunGate, EndStream,
              WriteFinal, FreeWorkspace, WriteError, WriteStopped, Writes, durable, TypeOK, BootStates
<1>3. \A e \in Drivers : drv'[e].pc # "idle" => drv'[e].task \in Tasks
  <2>1. CASE \E pc \in Places : At(d, pc) /\ drv[d].pc # "idle"
    BY <1>1, <2>1, AtDoes DEF Named
  <2>2. CASE Leave(d)
    BY <1>1, <2>2, LeaveDoes DEF Named
  <2>3. CASE MarkRunning(d)
    BY <1>1, <2>3 DEF MarkRunning, Named, TypeOK, DriverStates
  <2>4. CASE RunGate(d) \/ Progress(d)
    BY <1>1, <2>4 DEF RunGate, Progress, Named
  <2>5. CASE \/ MarkQueued(d) \/ TakeSlot(d) \/ StartPass(d) \/ EndPass(d) \/ EndStream(d)
             \/ WriteFinal(d) /\ At(d, "alerts")
    <3>1. PICK pc \in Places : At(d, pc) /\ drv[d].pc # "idle"
      BY <2>5 DEF MarkQueued, TakeSlot, StartPass, EndPass, EndStream, WriteFinal, Places, Trying
    <3> QED BY <2>1, <3>1
  <2> QED BY <2>2, <2>3, <2>4, <2>5 DEF Stream, WriteFinal, FreeWorkspace, WriteError, WriteStopped
<1> QED BY <1>1, <1>2, <1>3 DEF Named

LEMMA RequestNamed == ASSUME IInv, NEW t \in Tasks, Request(t) PROVE Named'
<1> USE DEF history, bounds, durable
<1>1. TypeOK /\ Named
  BY DEF IInv
<1>2. UNCHANGED sup /\ boot'.at = boot.at /\ boot'.task = boot.task
  BY <1>1 DEF Request, Decide, Apply, DeleteRow, DeleteFiles, DeleteThread, StartRun, Writes, TypeOK, BootStates
<1>3. \A u \in Tasks : req'[u].at # "none" => req'[u].kind \in Kinds
  <2>1. req[t].at # "none" /\ req[t].kind \in Kinds
    <3>1. req[t].at # "none"
      BY DEF Request, Decide, Apply, DeleteRow, DeleteFiles, DeleteThread, StartRun
    <3> QED BY <1>1, <3>1 DEF Named
  <2>2. (req'[t].at = "none" \/ req'[t].kind = req[t].kind) /\ \A u \in Tasks \ {t} : req'[u] = req[u]
    <3>1. req \in [Tasks -> RequestStates] /\ NoRequest.at = "none"
      BY <1>1 DEF TypeOK, NoRequest
    <3>2. CASE Decide(t)
      BY <3>1, <3>2 DEF Decide, RequestStates
    <3>3. CASE Apply(t) \/ DeleteRow(t) \/ DeleteFiles(t) \/ DeleteThread(t)
      BY <3>1, <3>3 DEF Apply, DeleteRow, DeleteFiles, DeleteThread, RequestStates
    <3>4. CASE \E d \in Drivers : StartRun(t, d)
      BY <3>1, <3>4 DEF StartRun
    <3> QED BY <3>2, <3>3, <3>4 DEF Request
  <2> QED BY <1>1, <2>1, <2>2 DEF Named
<1>4. \A e \in Drivers : drv'[e].pc # "idle" => drv'[e].task \in Tasks
  <2>1. CASE UNCHANGED drv
    BY <1>1, <2>1 DEF Named
  <2>2. ASSUME NEW d \in Drivers, Starts(d, t, FALSE)
        PROVE  \A e \in Drivers : drv'[e].pc # "idle" => drv'[e].task \in Tasks
    BY <1>1, <2>2 DEF Starts, Named, TypeOK
  <2> QED BY <2>1, <2>2 DEF Request, Decide, Apply, DeleteRow, DeleteFiles, DeleteThread, StartRun
<1> QED BY <1>1, <1>2, <1>3, <1>4 DEF Named

LEMMA BootNamed == ASSUME IInv, StartupResume PROVE Named'
<1> USE DEF history, bounds, durable
<1>1. TypeOK /\ Named
  BY DEF IInv
<1>2. UNCHANGED <<sup, req>>
  BY DEF StartupResume, Boot, Scans, ScanOrphans, ScanOn, BootEnds, PatchOrphan, PickOrphan, DriveOrphan
<1>3. boot'.at \in {"patch", "drive"} => boot'.task \in Tasks
  <2>0. boot \in BootStates /\ (boot.at \in {"patch", "drive"} => boot.task \in Tasks)
    BY <1>1 DEF Named, TypeOK
  <2>1. CASE Boot \/ Scans
    BY <2>0, <2>1 DEF Boot, Scans, ScanOrphans, ScanOn, BootEnds, Booted, Down, BootStates
  <2>2. CASE PatchOrphan
    BY <2>0, <2>2 DEF PatchOrphan, BootStates
  <2>3. ASSUME NEW u \in Tasks, PickOrphan(u), boot'.at \in {"patch", "drive"}
        PROVE  boot'.task \in Tasks
    BY <2>0, <2>3 DEF PickOrphan, BootStates
  <2>4. ASSUME NEW d \in Drivers, DriveOrphan(d) PROVE boot'.at = "loop"
    BY <2>0, <2>4 DEF DriveOrphan, BootStates
  <2> QED BY <2>1, <2>2, <2>3, <2>4 DEF StartupResume, Scans
<1>4. \A e \in Drivers : drv'[e].pc # "idle" => drv'[e].task \in Tasks
  <2>1. CASE UNCHANGED drv
    BY <1>1, <2>1 DEF Named
  <2>2. ASSUME NEW d \in Drivers, NEW t \in Tasks, Starts(d, t, FALSE)
        PROVE  \A e \in Drivers : drv'[e].pc # "idle" => drv'[e].task \in Tasks
    BY <1>1, <2>2 DEF Starts, Named, TypeOK
  <2>3. CASE \E d \in Drivers : DriveOrphan(d)
    BY <1>1, <2>2, <2>3 DEF DriveOrphan, Named
  <2> QED BY <2>1, <2>3 DEF StartupResume, Boot, Scans, ScanOrphans, ScanOn, BootEnds, PatchOrphan, PickOrphan
<1> QED BY <1>1, <1>2, <1>3, <1>4 DEF Named

LEMMA OperatorNamed == ASSUME IInv, Operator PROVE Named'
<1> USE DEF history, bounds, durable
<1>1. TypeOK /\ Named /\ NoDriver.pc = "idle"
  BY DEF IInv, NoDriver
<1>2. UNCHANGED <<sup, boot>>
  BY DEF Operator, StopTask, CreateTask, ClaimTask
<1>3. \A u \in Tasks : req'[u].at # "none" => req'[u].kind \in Kinds
  <2>1. CASE UNCHANGED req
    BY <1>1, <2>1 DEF Named
  <2>2. ASSUME NEW t \in Tasks, NEW kind \in Kinds, ClaimTask(t, kind)
        PROVE  \A u \in Tasks : req'[u].at # "none" => req'[u].kind \in Kinds
    BY <1>1, <2>2 DEF ClaimTask, Named, TypeOK
  <2> QED BY <2>1, <2>2 DEF Operator, StopTask, CreateTask
<1>4. ASSUME NEW t \in Tasks, StopTask(t)
      PROVE  \A e \in Drivers : drv'[e].pc # "idle" => drv'[e].task \in Tasks
  <2>1. PICK d \in Drivers : d = reg[t]
    BY <1>4 DEF StopTask
  <2>2. CASE Leave(d)
    BY <1>1, <2>2, LeaveDoes DEF Named
  <2>3. CASE drv[d].pc # "idle" /\ \E pc \in {"undo", "dead"} : At(d, pc)
    BY <1>1, <2>3, AtDoes DEF Named, Places, Handling
  <2> QED BY <1>4, <2>1, <2>2, <2>3 DEF StopTask, Trying
<1>5. ASSUME NEW t \in Tasks, NEW d \in Drivers, CreateTask(t, d)
      PROVE  \A e \in Drivers : drv'[e].pc # "idle" => drv'[e].task \in Tasks
  BY <1>1, <1>5 DEF CreateTask, Starts, Named, TypeOK
<1>6. ASSUME NEW t \in Tasks, NEW kind \in Kinds, ClaimTask(t, kind)
      PROVE  \A e \in Drivers : drv'[e].pc # "idle" => drv'[e].task \in Tasks
  BY <1>1, <1>6 DEF ClaimTask, Named
<1> QED BY <1>1, <1>2, <1>3, <1>4, <1>5, <1>6 DEF Operator, Named

LEMMA SupervisorNamed == ASSUME IInv, Supervisor PROVE Named'
<1> USE DEF history, bounds, durable
<1>1. TypeOK /\ Named
  BY DEF IInv
<1>2. UNCHANGED req /\ boot'.at = boot.at /\ boot'.task = boot.task
  BY <1>1 DEF Supervisor, Look, ListWorkspace, ClaimForSweep, Conclude, WriteMeta, TakeWorkspace, RemoveWorkspace,
              Heal, Writes, TypeOK, BootStates
<1>3. sup'.at # "idle" => sup'.task \in Tasks
  <2>1. sup \in SweepStates
    BY <1>1 DEF TypeOK
  <2>2. CASE \E t \in Tasks : Look(t) \/ ListWorkspace(t)
    BY <2>2 DEF Look, ListWorkspace, Sweeping
  <2>3. CASE ClaimForSweep \/ Conclude \/ TakeWorkspace \/ \E d \in Drivers : Heal(d)
    <3>1. /\ sup.at # "idle"
          /\ \/ sup' = NoSweep
             \/ \E a \in {"apply", "meta", "removing"} : sup' = [sup EXCEPT !.at = a]
      BY <2>3 DEF ClaimForSweep, Conclude, TakeWorkspace, Heal
    <3>2. sup'.at = "idle" \/ sup'.task = sup.task
      BY <2>1, <3>1 DEF NoSweep, SweepStates
    <3> QED BY <1>1, <3>1, <3>2 DEF Named
  <2>4. CASE WriteMeta \/ RemoveWorkspace
    BY <2>4 DEF WriteMeta, RemoveWorkspace, NoSweep
  <2> QED BY <2>2, <2>3, <2>4 DEF Supervisor
<1>4. \A e \in Drivers : drv'[e].pc # "idle" => drv'[e].task \in Tasks
  <2>1. CASE UNCHANGED drv
    BY <1>1, <2>1 DEF Named
  <2>2. ASSUME NEW d \in Drivers, NEW t \in Tasks, Starts(d, t, FALSE)
        PROVE  \A e \in Drivers : drv'[e].pc # "idle" => drv'[e].task \in Tasks
    BY <1>1, <2>2 DEF Starts, Named, TypeOK
  <2>3. CASE \E d \in Drivers : Heal(d)
    BY <1>1, <2>2, <2>3 DEF Heal, Named
  <2> QED BY <2>1, <2>3 DEF Supervisor, Look, ListWorkspace, ClaimForSweep, Conclude, WriteMeta,
                            TakeWorkspace, RemoveWorkspace
<1> QED BY <1>1, <1>2, <1>3, <1>4 DEF Named

LEMMA FaultsNamed == ASSUME IInv, Faults PROVE Named'
<1> USE DEF history, bounds, durable
<1>1. TypeOK /\ Named
  BY DEF IInv
<1>2. CASE Crash
  BY <1>2 DEF Crash, Down, NoSweep, NoDriver, NoRequest, Named
<1>3. CASE SweepFails \/ Skips
  <2>1. UNCHANGED <<drv, req>> /\ (UNCHANGED sup \/ sup' = NoSweep)
    BY <1>3 DEF SweepFails, Skips, OrphanFails, ScanFails
  <2>2. UNCHANGED boot \/ boot'.at \in {"loop", "scan"}
    BY <1>1, <1>3 DEF SweepFails, Skips, OrphanFails, ScanFails, TypeOK, BootStates
  <2> QED BY <1>1, <2>1, <2>2 DEF NoSweep, Named
<1>4. ASSUME NEW d \in Drivers, BirthFails(d) \/ Throws(d) PROVE Named'
  <2>1. PICK pc \in Places : At(d, pc) /\ drv[d].pc # "idle" /\ UNCHANGED <<req, sup, boot>>
    BY <1>4 DEF BirthFails, Throws, Places, Handling, Trying
  <2> QED BY <1>1, <2>1, AtDoes DEF Named
<1>5. ASSUME NEW t \in Tasks, RequestFails(t) PROVE Named'
  BY <1>1, <1>5 DEF RequestFails, NoRequest, Named, TypeOK
<1> QED BY <1>2, <1>3, <1>4, <1>5 DEF Faults, Skips

\* Nothing is there of a task.
Nowhere(t) ==
    /\ row[t] = "none" /\ ~ws[t] /\ reg[t] = Nobody /\ req[t] = NoRequest
    /\ sup.task # t /\ boot.task # t /\ t \notin boot.todo
    /\ \A d \in Drivers : drv[d].task # t

LEMMA StreamNowhere ==
    ASSUME IInv, NEW t \in Tasks, Nowhere(t), NEW d \in Drivers, Stream(d) \/ Progress(d)
    PROVE  Nowhere(t)'
<1> USE DEF durable, history, bounds
<1>1. TypeOK /\ drv[d].task # t /\ t # Nobody
  BY ConstantsAssumption DEF ConstantsAssumption, IInv, Nowhere
<1>2. row'[t] = row[t] /\ ws'[t] = ws[t] /\ UNCHANGED <<req, sup>>
  BY <1>1 DEF Stream, Progress, MarkQueued, TakeSlot, MarkRunning, StartPass, EndPass, RunGate, EndStream,
              WriteFinal, FreeWorkspace, WriteError, WriteStopped, TypeOK
<1>3. boot'.task = boot.task /\ boot'.todo = boot.todo
  BY <1>1 DEF Stream, Progress, MarkQueued, TakeSlot, MarkRunning, StartPass, EndPass, RunGate, EndStream,
              WriteFinal, FreeWorkspace, WriteError, WriteStopped, Writes, TypeOK, BootStates
<1>4. reg'[t] = reg[t]
  BY <1>1 DEF Stream, Progress, MarkQueued, TakeSlot, MarkRunning, StartPass, EndPass, RunGate, EndStream,
              WriteFinal, FreeWorkspace, WriteError, WriteStopped, Leave, TypeOK
<1>5. \A e \in Drivers : drv'[e].task # t
  <2>1. CASE Leave(d)
    BY <1>1, <2>1, LeaveDoes DEF Nowhere, NoDriver
  <2>2. CASE \E pc \in Places : At(d, pc)
    BY <1>1, <2>2, AtDoes DEF Nowhere
  <2>3. CASE MarkRunning(d)
    BY <1>1, <2>3 DEF MarkRunning, Nowhere, TypeOK, DriverStates
  <2>4. CASE RunGate(d) \/ Progress(d)
    BY <2>4 DEF RunGate, Progress, Nowhere
  <2> QED BY <2>1, <2>2, <2>3, <2>4
          DEF Stream, MarkQueued, TakeSlot, StartPass, EndPass, EndStream, WriteFinal,
              FreeWorkspace, WriteError, WriteStopped, Places, Trying
<1> QED BY <1>2, <1>3, <1>4, <1>5 DEF Nowhere

LEMMA RequestNowhere ==
    ASSUME IInv, NEW t \in Tasks, Nowhere(t), NEW u \in Tasks, Request(u)
    PROVE  Nowhere(t)'
<1> USE DEF durable, history, bounds
<1>1. TypeOK /\ u # t
  <2>1. req[u].at # "none"
    BY DEF Request, Decide, Apply, DeleteRow, DeleteFiles, DeleteThread, StartRun
  <2> QED BY <2>1 DEF IInv, Nowhere, NoRequest
<1>2. row'[t] = row[t] /\ ws'[t] = ws[t] /\ req'[t] = req[t] /\ UNCHANGED sup
  BY <1>1 DEF Request, Decide, Apply, DeleteRow, DeleteFiles, DeleteThread, StartRun, TypeOK
<1>3. boot'.task = boot.task /\ boot'.todo = boot.todo
  BY <1>1, RequestBoot
<1>4. reg'[t] = reg[t]
  BY <1>1 DEF Request, Decide, Apply, DeleteRow, DeleteFiles, DeleteThread, StartRun, Frees, Starts, TypeOK
<1>5. \A e \in Drivers : drv'[e].task # t
  <2>1. CASE UNCHANGED drv
    BY <2>1 DEF Nowhere
  <2>2. ASSUME NEW d \in Drivers, Starts(d, u, FALSE) PROVE \A e \in Drivers : drv'[e].task # t
    BY <1>1, <2>2 DEF Starts, TypeOK, Nowhere
  <2> QED BY <2>1, <2>2 DEF Request, Decide, Apply, DeleteRow, DeleteFiles, DeleteThread, StartRun
<1> QED BY <1>2, <1>3, <1>4, <1>5 DEF Nowhere

LEMMA BootNowhere ==
    ASSUME IInv, NEW t \in Tasks, Nowhere(t), StartupResume
    PROVE  Nowhere(t)'
<1> USE DEF durable, history, bounds
<1>1. TypeOK /\ t # Nobody
  BY ConstantsAssumption DEF ConstantsAssumption, IInv
<1>2. CASE Boot \/ Scans \/ PatchOrphan \/ \E u \in Tasks : PickOrphan(u)
  <2>1. UNCHANGED <<row, ws, reg, req, sup, drv>>
    BY <1>2 DEF Boot, Scans, ScanOrphans, ScanOn, BootEnds, PatchOrphan, PickOrphan
  <2>2. boot'.task # t /\ t \notin boot'.todo
    <3>1. boot \in BootStates /\ boot.task # t /\ t \notin boot.todo /\ row[t] = "none"
      BY <1>1 DEF Nowhere, TypeOK
    <3>2. CASE Boot
      BY <1>1, <3>2 DEF Boot, Booted, Down
    <3>3. CASE Scans
      <4>1. CASE ScanOn \/ BootEnds
        BY <3>1, <4>1 DEF ScanOn, BootEnds, BootStates
      <4>2. ASSUME NEW p \in Projects, ScanOrphans(p) PROVE boot'.task # t /\ t \notin boot'.todo
        <5>1. boot'.task = boot.task /\ boot'.todo = Orphans(p)
          BY <3>1, <4>2 DEF ScanOrphans, BootStates
        <5> QED
          BY <3>1, <5>1 DEF Orphans
      <4> QED
        BY <3>3, <4>1, <4>2 DEF Scans
    <3>4. CASE PatchOrphan
      <4>1. \/ boot' = [boot EXCEPT !.at = "loop", !.task = Nobody]
            \/ boot' = [boot EXCEPT !.at = "drive", !.current = FALSE]
        BY <3>4 DEF PatchOrphan
      <4>2. boot'.todo = boot.todo /\ boot'.task \in {boot.task, Nobody}
        BY <3>1, <4>1 DEF BootStates
      <4> QED BY <1>1, <3>1, <4>2
    <3>5. CASE \E u \in Tasks : PickOrphan(u)
      BY <3>1, <3>5 DEF PickOrphan, BootStates
    <3> QED BY <1>2, <3>2, <3>3, <3>4, <3>5
  <2> QED BY <2>1, <2>2 DEF Nowhere
<1>3. ASSUME NEW d \in Drivers, DriveOrphan(d) PROVE Nowhere(t)'
  <2>1. boot.task # t /\ UNCHANGED <<ws, req, sup>> /\ Starts(d, boot.task, FALSE)
    BY <1>3 DEF DriveOrphan, Nowhere
  <2>2. row'[t] = row[t] /\ boot'.task # t /\ boot'.todo = boot.todo
    BY <1>1, <1>3, <2>1 DEF DriveOrphan, TypeOK, BootStates
  <2>3. reg'[t] = reg[t] /\ \A e \in Drivers : drv'[e].task # t
    BY <1>1, <2>1 DEF Starts, TypeOK, Nowhere
  <2> QED BY <2>1, <2>2, <2>3 DEF Nowhere
<1> QED BY <1>2, <1>3 DEF StartupResume, Scans

LEMMA OperatorNowhere ==
    ASSUME IInv, NEW t \in Tasks, Nowhere(t), Operator, t \notin made'
    PROVE  Nowhere(t)'
<1> USE DEF durable, history, bounds
<1>1. TypeOK /\ Nobody \notin Drivers /\ t # Nobody
  BY ConstantsAssumption DEF ConstantsAssumption, IInv
<1>2. ASSUME NEW u \in Tasks, StopTask(u) PROVE Nowhere(t)'
  <2>1. PICK d \in Drivers : d = reg[u]
    BY <1>2 DEF StopTask
  <2>2. UNCHANGED <<row, ws, req, sup, boot>> /\ drv[d].task # t
    BY <1>2 DEF StopTask, Nowhere
  <2>3. reg'[t] = reg[t] /\ \A e \in Drivers : drv'[e].task # t
    <3>1. CASE Leave(d)
      BY <1>1, <2>2, <3>1, LeaveDoes DEF Nowhere, NoDriver
    <3>2. CASE UNCHANGED reg /\ \E pc \in {"undo", "dead"} : At(d, pc)
      BY <1>1, <3>2, AtDoes DEF Nowhere, Places, Handling
    <3> QED BY <1>2, <2>1, <3>1, <3>2 DEF StopTask
  <2> QED BY <2>2, <2>3 DEF Nowhere
<1>3. ASSUME NEW u \in Tasks, NEW d \in Drivers, CreateTask(u, d) PROVE Nowhere(t)'
  <2>1. u # t /\ UNCHANGED <<ws, req, sup, boot>> /\ Starts(d, u, TRUE)
    BY <1>3 DEF CreateTask
  <2>2. row'[t] = row[t]
    BY <1>1, <1>3, <2>1 DEF CreateTask, TypeOK
  <2>3. reg'[t] = reg[t] /\ \A e \in Drivers : drv'[e].task # t
    BY <1>1, <2>1 DEF Starts, TypeOK, Nowhere
  <2> QED BY <2>1, <2>2, <2>3 DEF Nowhere
<1>4. ASSUME NEW u \in Tasks, NEW kind \in Kinds, ClaimTask(u, kind) PROVE Nowhere(t)'
  BY <1>1, <1>4 DEF ClaimTask, TypeOK, Nowhere
<1> QED BY <1>2, <1>3, <1>4 DEF Operator

LEMMA SupervisorNowhere ==
    ASSUME IInv, NEW t \in Tasks, Nowhere(t), Supervisor
    PROVE  Nowhere(t)'
<1> USE DEF durable, history, bounds
<1>1. TypeOK /\ t # Nobody /\ sup.task # t /\ sup \in SweepStates
  BY ConstantsAssumption DEF ConstantsAssumption, IInv, TypeOK, Nowhere
<1>2. UNCHANGED req /\ boot'.task = boot.task /\ boot'.todo = boot.todo
  BY <1>1 DEF Supervisor, Look, ListWorkspace, ClaimForSweep, Conclude, WriteMeta, TakeWorkspace,
              RemoveWorkspace, Heal, Writes, TypeOK, BootStates
<1>3. row'[t] = row[t] /\ ws'[t] = ws[t]
  BY <1>1 DEF Supervisor, Look, ListWorkspace, ClaimForSweep, Conclude, WriteMeta, TakeWorkspace,
              RemoveWorkspace, Heal, TypeOK
<1>4. sup'.task # t
  <2>1. ASSUME NEW u \in Tasks, Look(u) \/ ListWorkspace(u) PROVE sup'.task # t
    BY <2>1 DEF Look, ListWorkspace, Sweeping, Nowhere
  <2>2. CASE ClaimForSweep \/ Conclude \/ TakeWorkspace \/ \E d \in Drivers : Heal(d)
    <3>1. sup' = NoSweep \/ \E a \in {"apply", "meta", "removing"} : sup' = [sup EXCEPT !.at = a]
      BY <2>2 DEF ClaimForSweep, Conclude, TakeWorkspace, Heal
    <3> QED BY <1>1, <3>1 DEF NoSweep, SweepStates
  <2>3. CASE WriteMeta \/ RemoveWorkspace
    BY <1>1, <2>3 DEF WriteMeta, RemoveWorkspace, NoSweep
  <2> QED BY <2>1, <2>2, <2>3 DEF Supervisor
<1>5. reg'[t] = reg[t] /\ \A e \in Drivers : drv'[e].task # t
  BY <1>1 DEF Supervisor, Look, ListWorkspace, ClaimForSweep, Conclude, WriteMeta, TakeWorkspace,
              RemoveWorkspace, Heal, Frees, Starts, TypeOK, Nowhere
<1> QED BY <1>2, <1>3, <1>4, <1>5 DEF Nowhere

LEMMA FaultsNowhere ==
    ASSUME IInv, NEW t \in Tasks, Nowhere(t), Faults
    PROVE  Nowhere(t)'
<1> USE DEF durable, history, bounds
<1>1. TypeOK /\ t # Nobody
  BY ConstantsAssumption DEF ConstantsAssumption, IInv
<1>2. CASE Crash
  BY <1>1, <1>2 DEF Crash, Down, NoSweep, NoDriver, Nowhere
<1>3. CASE SweepFails \/ Skips
  <2>1. UNCHANGED <<row, ws, drv, req>> /\ (UNCHANGED sup \/ sup' = NoSweep)
    BY <1>3 DEF SweepFails, Skips, OrphanFails, ScanFails
  <2>2. boot'.task # t /\ boot'.todo = boot.todo
    BY <1>1, <1>3 DEF SweepFails, Skips, OrphanFails, ScanFails, Nowhere, TypeOK, BootStates
  <2>3. reg'[t] = reg[t]
    BY <1>1, <1>3 DEF SweepFails, Skips, OrphanFails, ScanFails, Frees, TypeOK, Nowhere
  <2> QED BY <1>1, <2>1, <2>2, <2>3 DEF NoSweep, Nowhere
<1>4. ASSUME NEW d \in Drivers, BirthFails(d) \/ Throws(d) PROVE Nowhere(t)'
  <2>1. PICK pc \in Places : At(d, pc) /\ UNCHANGED <<row, ws, reg, req, sup, boot>>
    BY <1>4 DEF BirthFails, Throws, Places, Handling
  <2> QED BY <1>1, <2>1, AtDoes DEF Nowhere
<1>5. ASSUME NEW u \in Tasks, RequestFails(u) PROVE Nowhere(t)'
  BY <1>1, <1>5 DEF RequestFails, Frees, TypeOK, Nowhere
<1> QED BY <1>2, <1>3, <1>4, <1>5 DEF Faults, Skips

LEMMA UntouchedStep == ASSUME IInv, Next PROVE Untouched'
<1> SUFFICES ASSUME NEW t \in Tasks \ made' PROVE Nowhere(t)'
  BY DEF Untouched, Nowhere
<1>1. made \subseteq made'
  BY DEF Next, Stream, Progress, MarkQueued, TakeSlot, MarkRunning, StartPass, EndPass, RunGate,
         EndStream, WriteFinal, FreeWorkspace, WriteError, WriteStopped, Request, Decide, Apply, DeleteRow,
         DeleteFiles, DeleteThread, StartRun, StartupResume, Boot, Scans, ScanOrphans, ScanOn, BootEnds, PatchOrphan,
         PickOrphan, DriveOrphan, Operator, StopTask, CreateTask, ClaimTask, Supervisor, Look,
         ListWorkspace, ClaimForSweep, Conclude, WriteMeta, TakeWorkspace, RemoveWorkspace, Heal, Faults,
         Crash, SweepFails, OrphanFails, ScanFails, BirthFails, Throws,
              RequestFails, history
<1>2. Nowhere(t)
  BY <1>1 DEF IInv, Untouched, Nowhere
<1> QED BY <1>2, StreamNowhere, RequestNowhere, BootNowhere, OperatorNowhere, SupervisorNowhere,
           FaultsNowhere DEF Next

-----------------------------------------------------------------------------
(* The theorems *)

LEMMA NextIInv == ASSUME IInv, Next PROVE IInv'
<1>1. TypeOK'
  BY StreamType, RequestType, BootType, OperatorType, SupervisorType, FaultsType DEF Next
<1>2. Registry'
  BY StreamRegistry, RequestRegistry, BootRegistry, OperatorRegistry, SupervisorRegistry,
     FaultsRegistry DEF Next
<1>3. Named'
  BY StreamNamed, RequestNamed, BootNamed, OperatorNamed, SupervisorNamed, FaultsNamed DEF Next
<1> QED BY <1>1, <1>2, <1>3, UntouchedStep DEF IInv

LEMMA StutterIInv == ASSUME IInv, UNCHANGED vars PROVE IInv'
<1> USE DEF vars
<1>1. TypeOK'
  BY DEF IInv, TypeOK
<1>2. Named'
  BY DEF IInv, Named
<1>3. Registry'
  BY DEF IInv, Registry, OneDriver, Drives, Entries, Claims, Claimers, Dead
<1>4. Untouched'
  BY DEF IInv, Untouched
<1> QED BY <1>1, <1>2, <1>3, <1>4 DEF IInv

LEMMA IInvHolds == Spec => []IInv
<1>1. IInv /\ [Next]_vars => IInv'
  BY NextIInv, StutterIInv
<1> QED BY InitIInv, <1>1, PTL DEF Spec

\* Every variable of the server stays in its type, for all tasks, drivers and bounds.
THEOREM TypeCorrect == Spec => []TypeOK
<1>1. IInv => TypeOK
  BY DEF IInv
<1> QED BY <1>1, IInvHolds, PTL

\* A task has one driver, the one that running_tasks names (claim_run_slot,
\* _stream_graph), as long as the startup resume has not registered one over somebody.
THEOREM DriversAreExclusive == Spec => []OneDriver
<1>1. IInv => OneDriver
  BY DEF IInv, Registry
<1> QED BY <1>1, IInvHolds, PTL

\* Every entry of running_tasks is held by somebody who will take it out again.
THEOREM EntriesHaveHolders == Spec => []EntriesAreHeld
<1>1. IInv => EntriesAreHeld
  BY DEF IInv, Registry, Entries, Claimers, Dead, EntriesAreHeld, Drives
<1> QED BY <1>1, IInvHolds, PTL

-----------------------------------------------------------------------------
(* What the Store says of a task.                                          *)
(*                                                                         *)
(* Done is done, nothing at rest is stranded, and after a restart whatever *)
(* the Store calls queued or running is driven: of tasks that nobody       *)
(* dropped half way and the startup resume took from nobody.  The          *)
(* invariant speaks of one task at a time (Told): the row is behind the    *)
(* checkpoint only while somebody is on the way to write it, a driver      *)
(* that was just born, a request with its run to start, a sweep with its   *)
(* last write ahead.  A step on another task leaves all of that alone      *)
(* (Untold), so what is left is each step on the task itself.              *)

Spared == Tasks \ (raced \union cut)

Starting(t)   == req[t].at = "start"
Removing(t)   == req[t].at \in {"files", "thread"}
Renewed(t)    == Starting(t) \/ \E d \in Drivers : drv[d].task = t /\ drv[d].pc = "born"
Concluding(t) == sup.at = "meta" /\ sup.saw = "conclude" /\ sup.task = t
Swept(t)      == sup.at \in {"decided", "apply"} /\ sup.task = t
Listed(t)     == \/ boot.at = "off" \/ ProjectOf[t] \in boot.left
                 \/ t \in boot.todo \union boot.missed \/ boot.task = t
Waits(t)      == row[t] \in {"queued", "running"}

SaysDone(t) == row[t] = "done" => ckpt[t] = "done" \/ Renewed(t)

SaysAwaiting(t) ==
    row[t] = "awaiting" =>
        ckpt[t] \in {"awaiting", "escalated", "none"} \/ Renewed(t) \/ Concluding(t)

\* Where a driver is, the row has followed.
InStep(t) ==
    \A d \in Drivers : drv[d].task = t =>
        /\ drv[d].pc \in {"wait", "held", "stream", "pass", "final"} => Waits(t)
        /\ drv[d].pc = "final" => ckpt[t] \in Resting
        /\ drv[d].pc = "alerts" => row[t] = "done"

RemovesRow(t) == Removing(t) => row[t] \in {"none", "bare"}

Accounted(t) ==
    Waits(t) /\ ckpt[t] \notin {"none", "escalated"} /\ ~marked[t]
    => Driven(t) \/ Starting(t) \/ Listed(t)

SweepsParked(t) == Swept(t) /\ Waits(t) => Driven(t)

Told(t) == /\ SaysDone(t) /\ SaysAwaiting(t) /\ InStep(t) /\ RemovesRow(t)
           /\ Accounted(t) /\ SweepsParked(t)

BootShape == /\ boot.at \notin {"patch", "drive"} => boot.task = Nobody
             /\ boot.at \notin {"loop", "patch", "drive"} => boot.todo = {}
             /\ boot.at = "up" => boot.left = {}

RowsInv == IInv /\ BootShape /\ \A t \in Spared : Told(t)

LEMMA InitRows == Init => RowsInv
<1> SUFFICES ASSUME Init PROVE RowsInv
  OBVIOUS
<1>1. BootShape
  BY DEF Init, BootShape, Down
<1>2. ASSUME NEW t \in Spared PROVE Told(t)
  <2>1. row[t] = "none" /\ req[t].at = "none" /\ \A d \in Drivers : drv[d].pc = "idle"
    BY <1>2 DEF Init, NoRequest, NoDriver, Spared
  <2> QED BY <2>1 DEF Told, SaysDone, SaysAwaiting, InStep, RemovesRow, Removing, Accounted,
                      SweepsParked, Waits
<1> QED BY <1>1, <1>2, InitIInv DEF RowsInv

-----------------------------------------------------------------------------
(* Steps that do not concern a task *)

\* A driver that is somebody's of task t.
Of(d, t) == drv[d].task = t /\ drv[d].pc # "idle"

Untold(t) ==
    /\ row'[t] = row[t] /\ ckpt'[t] = ckpt[t] /\ marked'[t] = marked[t]
    /\ (Starting(t)' <=> Starting(t)) /\ (Removing(t)' => Removing(t))
    /\ \A e \in Drivers : Of(e, t) \/ Of(e, t)' => drv'[e] = drv[e]
    /\ (Concluding(t)' <=> Concluding(t)) /\ (Swept(t)' => Swept(t)) /\ (Listed(t) => Listed(t)')

LEMMA UntoldKeeps == ASSUME NEW t \in Tasks, Told(t), Untold(t) PROVE Told(t)'
<1>1. (Renewed(t)' <=> Renewed(t)) /\ (Driven(t)' <=> Driven(t)) /\ (Waits(t)' <=> Waits(t))
  BY DEF Untold, Renewed, Driven, Drives, Of, Waits
<1>2. SaysDone(t)' /\ SaysAwaiting(t)' /\ RemovesRow(t)'
  BY <1>1 DEF Told, Untold, SaysDone, SaysAwaiting, RemovesRow
<1>3. InStep(t)'
  BY <1>1 DEF Told, Untold, InStep, Of
<1>4. Accounted(t)' /\ SweepsParked(t)'
  BY <1>1 DEF Told, Untold, Accounted, SweepsParked
<1> QED BY <1>2, <1>3, <1>4 DEF Told

\* Who drives or holds a spared task is alone with it.
LEMMA DriverAlone ==
    ASSUME IInv, NEW t \in Spared, NEW d \in Drivers, Of(d, t)
    PROVE  /\ reg[t] = d /\ drv[d].pc # "dead" /\ ~Asking(t) /\ ~Applying(t)
           /\ \A e \in Drivers : Of(e, t) => e = d
<1>1. \A e \in Drivers : Of(e, t) => reg[t] = e /\ drv[e].pc # "dead"
  BY DEF IInv, Registry, OneDriver, Drives, Dead, Of, Spared
<1>2. ~Asking(t) /\ ~Applying(t)
  BY <1>1, ConstantsAssumption
     DEF ConstantsAssumption, IInv, Registry, Claims, Asking, Applying, Spared
<1> QED BY <1>1, <1>2

LEMMA NobodyDrives ==
    ASSUME IInv, NEW t \in Spared, reg[t] \notin Drivers \/ Asking(t) \/ Applying(t)
    PROVE  (\A e \in Drivers : ~Of(e, t)) /\ ~Driven(t)
<1>1. reg[t] \notin Drivers
  BY ConstantsAssumption
     DEF ConstantsAssumption, IInv, Registry, Claims, Asking, Applying, Spared
<1>2. \A e \in Drivers : ~Of(e, t)
  BY <1>1, DriverAlone
<1> QED BY <1>2 DEF Driven, Drives, Of

\* A driver at work, its row followed.
LEMMA BusyKeeps ==
    ASSUME NEW t \in Tasks, NEW d \in Drivers, Drives(d, t)', Waits(t)', ~Asking(t)',
           \A e \in Drivers : Of(e, t)' => e = d,
           drv'[d].pc = "final" => ckpt'[t] \in Resting, drv'[d].pc # "alerts"
    PROVE  Told(t)'
<1>1. Driven(t)' /\ ~Removing(t)'
  BY DEF Driven, Asking, Removing, NoRequest
<1>2. SaysDone(t)' /\ SaysAwaiting(t)'
  BY DEF SaysDone, SaysAwaiting, Waits
<1>3. InStep(t)'
  BY DEF InStep, Of
<1> QED BY <1>1, <1>2, <1>3 DEF Told, RemovesRow, Accounted, SweepsParked

\* A driver that is begun.
LEMMA BornKeeps ==
    ASSUME NEW t \in Tasks, NEW d \in Drivers, drv'[d].task = t, drv'[d].pc = "born",
           \A e \in Drivers : Of(e, t)' => e = d, ~Asking(t)' \/ ~Removing(t)'
    PROVE  Told(t)'
<1>1. Driven(t)' /\ Renewed(t)' /\ ~Removing(t)'
  BY DEF Driven, Drives, Renewed, Asking, Removing, NoRequest
<1>2. InStep(t)'
  BY DEF InStep, Of
<1> QED BY <1>1, <1>2 DEF Told, SaysDone, SaysAwaiting, RemovesRow, Accounted, SweepsParked

-----------------------------------------------------------------------------
(* The driver of another task *)

LEMMA DriverElsewhere ==
    ASSUME IInv, NEW t \in Tasks, NEW d \in Drivers, drv[d].task # t, Stream(d) \/ Progress(d)
    PROVE  Untold(t)
<1> USE DEF durable, history, bounds
<1>1. TypeOK /\ t # Nobody
  BY ConstantsAssumption DEF ConstantsAssumption, IInv
<1>2. row'[t] = row[t] /\ UNCHANGED <<req, sup>>
  BY <1>1 DEF Stream, Progress, MarkQueued, TakeSlot, MarkRunning, StartPass, EndPass, RunGate, EndStream,
              WriteFinal, FreeWorkspace, WriteError, WriteStopped, TypeOK
<1>3. BootStays
  BY <1>1 DEF Stream, Progress, MarkQueued, TakeSlot, MarkRunning, StartPass, EndPass, RunGate, EndStream,
              WriteFinal, FreeWorkspace, WriteError, WriteStopped, Writes, TypeOK, BootStates
<1>4. ckpt'[t] = ckpt[t] /\ marked'[t] = marked[t]
  BY <1>1 DEF Stream, Progress, MarkQueued, TakeSlot, MarkRunning, StartPass, EndPass, RunGate, EndStream,
              WriteFinal, FreeWorkspace, WriteError, WriteStopped, Writes, TypeOK
<1>5. \A e \in Drivers : Of(e, t) \/ Of(e, t)' => drv'[e] = drv[e]
  <2>1. CASE Leave(d)
    BY <1>1, <2>1, LeaveDoes DEF Of, NoDriver
  <2>2. CASE \E pc \in Places : At(d, pc)
    BY <1>1, <2>2, AtDoes DEF Of
  <2>3. CASE MarkRunning(d)
    BY <1>1, <2>3 DEF MarkRunning, Of, TypeOK, DriverStates
  <2>4. CASE RunGate(d) \/ Progress(d)
    BY <2>4 DEF RunGate, Progress, Of
  <2> QED BY <2>1, <2>2, <2>3, <2>4
          DEF Stream, MarkQueued, TakeSlot, StartPass, EndPass, EndStream, WriteFinal,
              FreeWorkspace, WriteError, WriteStopped, Places, Trying
<1> QED BY <1>2, <1>3, <1>4, <1>5
        DEF Untold, Starting, Removing, Concluding, Swept, Listed

-----------------------------------------------------------------------------
(* A task's own driver *)

LEMMA GoesOn ==
    ASSUME IInv, NEW t \in Spared, NEW d \in Drivers, drv[d].task = t, Told(t),
           \/ MarkQueued(d) \/ TakeSlot(d) \/ MarkRunning(d) \/ StartPass(d) \/ EndPass(d)
           \/ RunGate(d) \/ EndStream(d) \/ Progress(d)
    PROVE  Told(t)'
<1> USE DEF durable, history, bounds
<1>1. TypeOK /\ t \in Tasks /\ Of(d, t) /\ UNCHANGED req
  BY DEF IInv, Spared, Of, MarkQueued, TakeSlot, MarkRunning, StartPass, EndPass, RunGate, EndStream, Progress
<1>2. ~Asking(t)' /\ \A e \in Drivers : Of(e, t) => e = d
  BY <1>1, DriverAlone DEF Asking
<1>3. /\ drv'[d].task = t /\ drv'[d].pc \in {"wait", "held", "stream", "pass", "final"}
      /\ \A e \in Drivers : e # d => drv'[e] = drv[e]
  <2>1. CASE MarkQueued(d) \/ TakeSlot(d) \/ StartPass(d) \/ EndPass(d) \/ EndStream(d)
    <3>1. PICK pc \in {"wait", "held", "stream", "pass", "final"} : At(d, pc)
      BY <2>1 DEF MarkQueued, TakeSlot, StartPass, EndPass, EndStream
    <3> QED BY <1>1, <3>1, AtDoes DEF Places, Trying
  <2>2. CASE MarkRunning(d)
    BY <1>1, <2>2 DEF MarkRunning, TypeOK, DriverStates
  <2>3. CASE RunGate(d) \/ Progress(d)
    BY <1>1, <2>3 DEF RunGate, Progress
  <2> QED BY <2>1, <2>2, <2>3
<1>4. Waits(t)'
  <2>1. CASE MarkQueued(d) \/ MarkRunning(d)
    BY <1>1, <2>1 DEF MarkQueued, MarkRunning, Waits, TypeOK
  <2>2. CASE ~MarkQueued(d) /\ ~MarkRunning(d)
    <3>1. UNCHANGED row /\ drv[d].pc \in {"wait", "stream", "pass"}
      BY <2>2 DEF TakeSlot, StartPass, EndPass, RunGate, EndStream, Progress
    <3> QED BY <1>1, <3>1 DEF Told, InStep, Waits
  <2> QED BY <2>1, <2>2
<1>5. drv'[d].pc = "final" => ckpt'[t] \in Resting
  <2>1. CASE EndStream(d)
    BY <1>1, <2>1 DEF EndStream
  <2>2. CASE ~EndStream(d)
    <3>1. CASE \E pc \in {"wait", "held", "stream", "pass"} : At(d, pc)
      BY <1>1, <3>1, AtDoes DEF Places, Trying
    <3>2. CASE MarkRunning(d)
      BY <1>1, <3>2 DEF MarkRunning, TypeOK, DriverStates
    <3>3. CASE RunGate(d) \/ Progress(d)
      BY <3>3 DEF RunGate, Progress
    <3> QED BY <2>2, <3>1, <3>2, <3>3 DEF MarkQueued, TakeSlot, StartPass, EndPass
  <2> QED BY <2>1, <2>2
<1>6. Drives(d, t)' /\ \A e \in Drivers : Of(e, t)' => e = d
  BY <1>2, <1>3 DEF Drives, Of
<1> QED BY <1>1, <1>2, <1>3, <1>4, <1>5, <1>6, BusyKeeps

\* A driver that raises or is cancelled still has its last write ahead.
LEMMA Unwinds ==
    ASSUME IInv, NEW t \in Spared, NEW d \in Drivers, drv[d].task = t, Told(t),
           drv[d].pc \in Trying, NEW pc \in Handling, At(d, pc), UNCHANGED <<row, ckpt, req, sup>>
    PROVE  Told(t)'
<1>1. TypeOK /\ t \in Tasks /\ Of(d, t)
  BY DEF IInv, Spared, Of, Trying
<1>2. ~Asking(t) /\ \A e \in Drivers : Of(e, t) => e = d
  BY <1>1, DriverAlone
<1>3. /\ drv'[d].task = t /\ drv'[d].pc \in Handling
      /\ \A e \in Drivers : e # d => drv'[e] = drv[e]
  BY <1>1, AtDoes DEF Places, Handling
<1>4. ~Renewed(t) /\ ~Removing(t)' /\ Driven(t)'
  BY <1>2, <1>3 DEF Renewed, Starting, Removing, Asking, NoRequest, Of, Driven, Drives, Trying, Handling
<1>5. SaysDone(t)' /\ SaysAwaiting(t)'
  BY <1>4 DEF Told, SaysDone, SaysAwaiting, Concluding
<1>6. InStep(t)'
  BY <1>2, <1>3 DEF InStep, Of, Handling
<1> QED BY <1>4, <1>5, <1>6 DEF Told, RemovesRow, Accounted, SweepsParked

LEMMA DriverLeaves ==
    ASSUME IInv, NEW t \in Spared, NEW d \in Drivers, drv[d].task = t, Told(t), t \notin cut',
           Leave(d), WriteFinal(d) \/ FreeWorkspace(d) \/ WriteError(d) \/ WriteStopped(d)
    PROVE  Told(t)'
<1> USE DEF durable, history, bounds
<1>1. TypeOK /\ t \in Tasks /\ Of(d, t) /\ UNCHANGED <<req, sup>>
  BY DEF IInv, Spared, Of, WriteFinal, FreeWorkspace, WriteError, WriteStopped
<1>2. ~Asking(t) /\ \A e \in Drivers : Of(e, t) => e = d
  BY <1>1, DriverAlone
<1>3. ~Removing(t)' /\ \A e \in Drivers : ~Of(e, t)'
  BY <1>1, <1>2, LeaveDoes DEF Of, NoDriver, Removing, Asking, NoRequest
<1>4. row'[t] \in {"stopped", "error"} \/ (row'[t] \in Resting /\ row'[t] = ckpt'[t])
  <2>1. CASE WriteFinal(d)
    BY <1>1, <2>1 DEF WriteFinal, FinalStatus, Told, InStep, TypeOK
  <2>2. CASE FreeWorkspace(d)
    <3>1. row[t] = "done" /\ UNCHANGED <<row, ckpt>> /\ drv[d].pc = "alerts"
      BY <2>2 DEF FreeWorkspace, Told, InStep
    <3>2. ~Renewed(t)
      BY <1>2, <3>1 DEF Renewed, Starting, Asking, NoRequest, Of
    <3> QED BY <3>1, <3>2 DEF Told, SaysDone, Resting
  <2>3. CASE WriteError(d) \/ WriteStopped(d)
    BY <1>1, <2>3 DEF WriteError, WriteStopped, TypeOK
  <2> QED BY <2>1, <2>2, <2>3
<1>5. SaysDone(t)' /\ SaysAwaiting(t)' /\ ~Waits(t)'
  BY <1>4 DEF SaysDone, SaysAwaiting, Waits, Resting
<1>6. InStep(t)'
  BY <1>3 DEF InStep, Of
<1> QED BY <1>3, <1>5, <1>6 DEF Told, RemovesRow, Accounted, SweepsParked

\* The graph ended: the row says done, and the driver goes on to its last steps.
LEMMA DriverAlerts ==
    ASSUME IInv, NEW t \in Spared, NEW d \in Drivers, drv[d].task = t, Told(t),
           WriteFinal(d), At(d, "alerts")
    PROVE  Told(t)'
<1> USE DEF durable, history, bounds
<1>1. TypeOK /\ t \in Tasks /\ Of(d, t) /\ UNCHANGED <<req, sup, ckpt>> /\ drv[d].pc = "final"
  BY DEF IInv, Spared, Of, WriteFinal
<1>2. ~Asking(t) /\ \A e \in Drivers : Of(e, t) => e = d
  BY <1>1, DriverAlone
<1>3. /\ drv'[d].task = t /\ drv'[d].pc = "alerts"
      /\ \A e \in Drivers : e # d => drv'[e] = drv[e]
  BY <1>1, AtDoes DEF Places, Trying
<1>4. row'[t] = FinalStatus(ckpt[t]) /\ ckpt[t] \in Resting /\ FinalStatus(ckpt[t]) = "done"
  <2>1. NoDriver.pc = "idle"
    BY DEF NoDriver
  <2>2. ~Leave(d)
    BY <1>1, <1>3, <2>1, LeaveDoes
  <2> QED BY <1>1, <2>2 DEF WriteFinal, TypeOK, Told, InStep
<1>5. row'[t] = "done" /\ ckpt'[t] = "done"
  BY <1>1, <1>4 DEF FinalStatus
<1>6. ~Removing(t)' /\ InStep(t)'
  BY <1>1, <1>2, <1>3, <1>5 DEF Removing, Asking, NoRequest, InStep, Of
<1> QED BY <1>5, <1>6 DEF Told, SaysDone, SaysAwaiting, RemovesRow, Accounted, SweepsParked, Waits

LEMMA StreamTold ==
    ASSUME IInv, NEW t \in Spared, Told(t), t \notin cut', NEW d \in Drivers, Stream(d) \/ Progress(d)
    PROVE  Told(t)'
<1>1. CASE drv[d].task # t
  BY <1>1, DriverElsewhere, UntoldKeeps DEF Spared
<1>2. CASE drv[d].task = t
  <2>1. CASE (WriteFinal(d) /\ Leave(d)) \/ FreeWorkspace(d) \/ WriteError(d) \/ WriteStopped(d)
    BY <1>2, <2>1, DriverLeaves DEF FreeWorkspace, WriteError, WriteStopped
  <2>2. CASE WriteFinal(d) /\ ~Leave(d)
    BY <1>2, <2>2, DriverAlerts DEF WriteFinal
  <2> QED BY <1>2, <2>1, <2>2, GoesOn DEF Stream
<1> QED BY <1>1, <1>2

-----------------------------------------------------------------------------
(* Requests *)

LEMMA RequestElsewhere ==
    ASSUME IInv, NEW t \in Tasks, NEW u \in Tasks, u # t, Request(u)
    PROVE  Untold(t)
<1> USE DEF durable, history, bounds
<1>1. TypeOK
  BY DEF IInv
<1>2. row'[t] = row[t] /\ req'[t] = req[t] /\ UNCHANGED sup
  BY <1>1 DEF Request, Decide, Apply, DeleteRow, DeleteFiles, DeleteThread, StartRun, TypeOK
<1>3. BootStays
  BY <1>1, RequestBoot
<1>4. ckpt'[t] = ckpt[t] /\ marked'[t] = marked[t]
  BY <1>1 DEF Request, Decide, Apply, DeleteRow, DeleteFiles, DeleteThread, StartRun, Writes, TypeOK
<1>5. \A e \in Drivers : Of(e, t) \/ Of(e, t)' => drv'[e] = drv[e]
  <2>1. CASE UNCHANGED drv
    BY <2>1
  <2>2. ASSUME NEW d \in Drivers, StartRun(u, d)
        PROVE  \A e \in Drivers : Of(e, t) \/ Of(e, t)' => drv'[e] = drv[e]
    BY <1>1, <2>2 DEF StartRun, Starts, Unused, Of, TypeOK
  <2> QED BY <2>1, <2>2 DEF Request, Decide, Apply, DeleteRow, DeleteFiles, DeleteThread
<1> QED BY <1>2, <1>3, <1>4, <1>5
        DEF Untold, Starting, Removing, Concluding, Swept, Listed

LEMMA RequestTold ==
    ASSUME IInv, NEW t \in Spared, Told(t), NEW u \in Tasks, Request(u)
    PROVE  Told(t)'
<1> USE DEF durable, history, bounds
<1>1. CASE u # t
  BY <1>1, RequestElsewhere, UntoldKeeps DEF Spared
<1>2. CASE u = t
  <2>1. TypeOK /\ t \in Tasks /\ Asking(t)
    <3>1. req[t].at # "none"
      BY <1>2 DEF Request, Decide, Apply, DeleteRow, DeleteFiles, DeleteThread, StartRun
    <3> QED BY <3>1 DEF IInv, Spared, Asking, NoRequest
  <2>2. (\A e \in Drivers : ~Of(e, t)) /\ ~Driven(t)
    BY <2>1, NobodyDrives
  <2>3. CASE Decide(t)
    <3>1. req[t].at = "read" /\ req \in [Tasks -> RequestStates] /\ NoRequest.at = "none"
      BY <2>1, <2>3 DEF Decide, TypeOK, NoRequest
    <3>3. \/ req' = [req EXCEPT ![t] = NoRequest]
          \/ req' = [req EXCEPT ![t].at = "row"]
          \/ \E c \in Leads(req[t].kind, t) :
                 req' = [req EXCEPT ![t] = [@ EXCEPT !.at = "apply", !.saw = c]]
      BY <2>3 DEF Decide
    <3>4. req'[t].at \in {"none", "row", "apply"}
      <4>1. CASE req' = [req EXCEPT ![t] = NoRequest]
        BY <2>1, <3>1, <4>1
      <4>2. CASE req' = [req EXCEPT ![t].at = "row"]
        BY <2>1, <3>1, <4>2 DEF RequestStates
      <4>3. ASSUME NEW c \in Leads(req[t].kind, t),
                   req' = [req EXCEPT ![t] = [@ EXCEPT !.at = "apply", !.saw = c]]
            PROVE  req'[t].at \in {"none", "row", "apply"}
        <5>1. req'[t] = [req[t] EXCEPT !.at = "apply", !.saw = c] /\ req[t] \in RequestStates
          BY <2>1, <3>1, <4>3
        <5> QED BY <5>1 DEF RequestStates
      <4> QED BY <3>3, <4>1, <4>2, <4>3
    <3>2. Untold(t)
      BY <2>3, <3>1, <3>4 DEF Decide, Untold, Starting, Removing, Concluding, Swept, Listed
    <3> QED BY <2>1, <3>2, UntoldKeeps
  <2>4. CASE Apply(t)
    <3>1. UNCHANGED <<row, drv, sup>> /\ req'[t].at = "start"
      BY <2>1, <2>4 DEF Apply, TypeOK, RequestStates
    <3>2. Renewed(t)' /\ Starting(t)' /\ ~Removing(t)' /\ InStep(t)'
      BY <2>2, <3>1 DEF Renewed, Starting, Removing, InStep, Of
    <3>3. SweepsParked(t)'
      BY <2>2, <3>1 DEF Told, SweepsParked, Swept, Waits
    <3> QED BY <3>2, <3>3 DEF Told, SaysDone, SaysAwaiting, RemovesRow, Accounted
  <2>5. CASE DeleteRow(t)
    <3>1. UNCHANGED drv /\ row'[t] = "none"
      BY <2>1, <2>5 DEF DeleteRow, TypeOK
    <3>2. InStep(t)'
      BY <2>2, <3>1 DEF InStep, Of
    <3> QED BY <3>1, <3>2 DEF Told, SaysDone, SaysAwaiting, RemovesRow, Accounted, SweepsParked, Waits
  <2>6. CASE DeleteFiles(t)
    <3>1. req[t].at = "files" /\ req'[t].at = "thread"
      BY <2>1, <2>6 DEF DeleteFiles, TypeOK, RequestStates
    <3>2. Untold(t)
      BY <2>6, <3>1 DEF DeleteFiles, Untold, Starting, Removing, Concluding, Swept, Listed
    <3> QED BY <2>1, <3>2, UntoldKeeps
  <2>7. CASE DeleteThread(t)
    <3>1. row'[t] \in {"none", "bare"} /\ UNCHANGED drv
      BY <2>7 DEF DeleteThread, Told, RemovesRow, Removing
    <3>2. InStep(t)'
      BY <2>2, <3>1 DEF InStep, Of
    <3> QED BY <3>1, <3>2 DEF Told, SaysDone, SaysAwaiting, RemovesRow, Accounted, SweepsParked, Waits
  <2>8. ASSUME NEW d \in Drivers, StartRun(t, d) PROVE Told(t)'
    <3>1. Starts(d, t, FALSE) /\ req' = [req EXCEPT ![t] = NoRequest]
      BY <2>8 DEF StartRun
    <3>2. /\ drv'[d].task = t /\ drv'[d].pc = "born" /\ ~Asking(t)'
          /\ \A e \in Drivers : e # d => drv'[e] = drv[e]
      BY <2>1, <3>1 DEF Starts, TypeOK, Asking
    <3>3. \A e \in Drivers : Of(e, t)' => e = d
      BY <2>2, <3>2 DEF Of
    <3> QED BY <2>1, <3>2, <3>3, BornKeeps
  <2> QED BY <1>2, <2>3, <2>4, <2>5, <2>6, <2>7, <2>8 DEF Request
<1> QED BY <1>1, <1>2

LEMMA OperatorTold ==
    ASSUME IInv, NEW t \in Spared, Told(t), t \notin cut', Operator
    PROVE  Told(t)'
<1> USE DEF durable, history, bounds
<1>1. TypeOK /\ t \in Tasks /\ Nobody \notin Drivers /\ t # Nobody
  BY ConstantsAssumption DEF ConstantsAssumption, IInv, Spared
<1>2. ASSUME NEW u \in Tasks, StopTask(u) PROVE Told(t)'
  <2>1. PICK d \in Drivers : d = reg[u]
    BY <1>2 DEF StopTask
  <2>2. drv[d].task = u /\ UNCHANGED <<row, ckpt, marked, req, sup, boot>>
    BY <1>2, <2>1 DEF StopTask, IInv, Registry, Entries
  <2>3. CASE u # t
    <3>1. \A e \in Drivers : Of(e, t) \/ Of(e, t)' => drv'[e] = drv[e]
      <4>1. CASE Leave(d)
        BY <1>1, <2>2, <2>3, <4>1, LeaveDoes DEF Of, NoDriver
      <4>2. CASE \E pc \in {"undo", "dead"} : At(d, pc)
        BY <1>1, <2>2, <2>3, <4>2, AtDoes DEF Of, Places, Handling
      <4> QED BY <1>2, <2>1, <4>1, <4>2 DEF StopTask
    <3>2. Untold(t)
      BY <2>2, <3>1 DEF Untold, Starting, Removing, Concluding, Swept, Listed
    <3> QED BY <1>1, <3>2, UntoldKeeps
  <2>4. CASE u = t
    <3>1. drv[d].pc \in Trying /\ At(d, "undo")
      BY <1>2, <2>1, <2>4 DEF StopTask
    <3> QED BY <2>2, <2>4, <3>1, Unwinds DEF Handling
  <2> QED BY <2>3, <2>4
<1>3. ASSUME NEW u \in Tasks, NEW d \in Drivers, CreateTask(u, d) PROVE Told(t)'
  <2>1. Starts(d, u, TRUE) /\ Unused(d) /\ UNCHANGED <<ckpt, marked, req, sup, boot>>
    BY <1>3 DEF CreateTask
  <2>2. drv'[d].task = u /\ drv'[d].pc = "born" /\ \A e \in Drivers : e # d => drv'[e] = drv[e]
    BY <1>1, <2>1 DEF Starts, TypeOK
  <2>3. CASE u # t
    <3>1. row'[t] = row[t]
      BY <1>1, <1>3, <2>3 DEF CreateTask, TypeOK
    <3>2. Untold(t)
      BY <2>1, <2>2, <2>3, <3>1
         DEF Untold, Starting, Removing, Concluding, Swept, Listed, Of, Unused
    <3> QED BY <1>1, <3>2, UntoldKeeps
  <2>4. CASE u = t
    <3>1. req[t] = NoRequest /\ \A e \in Drivers : drv[e].task # t
      BY <1>3, <2>4 DEF CreateTask, IInv, Untouched
    <3> QED BY <1>1, <2>1, <2>2, <2>4, <3>1, BornKeeps DEF Of, Asking
  <2> QED BY <2>3, <2>4
<1>4. ASSUME NEW u \in Tasks, NEW kind \in Kinds, ClaimTask(u, kind) PROVE Told(t)'
  <2>1. UNCHANGED <<row, ckpt, marked, drv, sup, boot>>
        /\ (req'[t] = req[t] \/ (u = t /\ reg[t] = Nobody /\ req'[t].at = "read"))
    BY <1>1, <1>4 DEF ClaimTask, Claimable, TypeOK
  <2>2. reg[t] = Nobody => ~Asking(t)
    BY <1>1, ConstantsAssumption DEF ConstantsAssumption, IInv, Registry, Claims, Asking, Spared
  <2>3. Untold(t)
    BY <2>1, <2>2 DEF Untold, Starting, Removing, Concluding, Swept, Listed, Asking, NoRequest
  <2> QED BY <1>1, <2>3, UntoldKeeps
<1> QED BY <1>2, <1>3, <1>4 DEF Operator

-----------------------------------------------------------------------------
(* The startup resume *)

LEMMA BootTold ==
    ASSUME IInv, BootShape, NEW t \in Spared, Told(t), t \notin raced' \union cut', StartupResume
    PROVE  Told(t)'
<1> USE DEF durable, history, bounds
<1>1. TypeOK /\ t \in Tasks /\ t # Nobody /\ boot \in BootStates
  BY ConstantsAssumption DEF ConstantsAssumption, IInv, Spared, TypeOK
<1>2. CASE Boot
  <2>1. ProjectOf[t] \in Projects
    BY <1>1, ConstantsAssumption DEF ConstantsAssumption
  <2>2. boot'.left = Projects
    BY <1>2 DEF Boot, Booted, Down
  <2>3. Untold(t)
    BY <1>2, <2>1, <2>2 DEF Boot, Untold, Starting, Removing, Concluding, Swept, Listed
  <2> QED BY <1>1, <2>3, UntoldKeeps
<1>3. ASSUME NEW p \in Projects, ScanOrphans(p) PROVE Told(t)'
  <2>1. /\ UNCHANGED <<row, ckpt, marked, drv, req, sup>> /\ boot.at = "scan"
        /\ boot'.todo = Orphans(p) /\ boot'.left = boot.left \ {p}
        /\ UNCHANGED <<boot.missed, boot.task>>
    BY <1>1, <1>3 DEF ScanOrphans, BootStates
  <2>2. Accounted(t)'
    BY <1>1, <2>1 DEF BootShape, Told, Accounted, Orphans, Waits, Listed, Driven, Drives, Starting
  <2>3. SaysDone(t)' /\ SaysAwaiting(t)' /\ InStep(t)' /\ RemovesRow(t)' /\ SweepsParked(t)'
    BY <2>1 DEF Told, SaysDone, SaysAwaiting, InStep, RemovesRow, SweepsParked, Renewed, Starting,
                Concluding, Removing, Swept, Waits, Driven, Drives
  <2> QED BY <2>2, <2>3 DEF Told
<1>4. CASE PatchOrphan /\ boot.task # t
  <2>1. UNCHANGED <<row, ckpt, drv, req, sup>> /\ marked'[t] = marked[t]
    BY <1>1, <1>4 DEF PatchOrphan, TypeOK
  <2>2. \/ boot' = [boot EXCEPT !.at = "loop", !.task = Nobody]
        \/ boot' = [boot EXCEPT !.at = "drive", !.current = FALSE]
    BY <1>4 DEF PatchOrphan
  <2>3. Listed(t) => Listed(t)'
    BY <1>1, <1>4, <2>2 DEF PatchOrphan, Listed, BootStates
  <2>4. Untold(t)
    BY <2>1, <2>3 DEF Untold, Starting, Removing, Concluding, Swept
  <2> QED BY <1>1, <2>4, UntoldKeeps
<1>5. CASE PatchOrphan /\ boot.task = t
  <2>1. UNCHANGED <<row, ckpt, drv, req, sup>>
    BY <1>5 DEF PatchOrphan
  <2>2. ckpt[t] = "none" \/ boot'.task = t
    BY <1>1, <1>5 DEF PatchOrphan, BootStates
  <2>3. Accounted(t)'
    BY <2>1, <2>2 DEF Accounted, Listed
  <2>4. SaysDone(t)' /\ SaysAwaiting(t)' /\ InStep(t)' /\ RemovesRow(t)' /\ SweepsParked(t)'
    BY <2>1 DEF Told, SaysDone, SaysAwaiting, InStep, RemovesRow, SweepsParked, Renewed, Starting,
                Concluding, Removing, Swept, Waits, Driven, Drives
  <2> QED BY <2>3, <2>4 DEF Told
<1>6. CASE ScanOn \/ BootEnds
  <2>1. boot.at # "off"
    BY <1>6 DEF ScanOn, BootEnds
  <2>2. Untold(t)
    BY <1>1, <1>6, <2>1 DEF ScanOn, BootEnds, BootStates, Untold, Starting, Removing, Concluding, Swept, Listed
  <2> QED BY <1>1, <2>2, UntoldKeeps
<1>7. ASSUME NEW u \in Tasks, PickOrphan(u) PROVE Told(t)'
  <2>1. UNCHANGED <<row, ckpt, marked, drv, req, sup>> /\ boot.task # t /\ boot.at = "loop"
    BY <1>1, <1>7 DEF PickOrphan, BootShape
  <2>2. CASE Takes(u) \/ u # t
    <3>1. Listed(t) => Listed(t)'
      BY <1>1, <1>7, <2>1, <2>2 DEF PickOrphan, Listed, BootStates
    <3>2. Untold(t)
      BY <2>1, <3>1 DEF Untold, Starting, Removing, Concluding, Swept
    <3> QED BY <1>1, <3>2, UntoldKeeps
  <2>3. CASE ~Takes(t) /\ u = t
    <3>1. reg[t] # Claimed
      BY <1>7, <2>3 DEF PickOrphan
    <3>2. reg[t] \in Drivers => Driven(t)
      BY <1>1 DEF IInv, Registry, Entries, Dead, Driven, Drives, Spared
    <3>3. Driven(t) \/ ckpt[t] \in {"none", "escalated"} \/ marked[t]
      BY <1>1, <2>3, <3>1, <3>2 DEF Takes, TypeOK
    <3>4. Accounted(t)'
      BY <2>1, <3>3 DEF Accounted, Driven, Drives
    <3>5. SaysDone(t)' /\ SaysAwaiting(t)' /\ InStep(t)' /\ RemovesRow(t)' /\ SweepsParked(t)'
      BY <2>1 DEF Told, SaysDone, SaysAwaiting, InStep, RemovesRow, SweepsParked, Renewed, Starting,
                  Concluding, Removing, Swept, Waits, Driven, Drives
    <3> QED BY <3>4, <3>5 DEF Told
  <2> QED BY <2>2, <2>3
<1>8. ASSUME NEW d \in Drivers, DriveOrphan(d) PROVE Told(t)'
  <2>1. PICK u \in Tasks : u = boot.task
    BY <1>8 DEF DriveOrphan, IInv, Named
  <2>2. Starts(d, u, FALSE) /\ Unused(d) /\ UNCHANGED <<ckpt, req, sup>>
    BY <1>8, <2>1 DEF DriveOrphan
  <2>3. drv'[d].task = u /\ drv'[d].pc = "born" /\ \A e \in Drivers : e # d => drv'[e] = drv[e]
    BY <1>1, <2>2 DEF Starts, TypeOK
  <2>4. CASE u # t
    <3>1. row'[t] = row[t] /\ marked'[t] = marked[t]
      BY <1>1, <1>8, <2>1, <2>4 DEF DriveOrphan, TypeOK
    <3>2. Listed(t) => Listed(t)'
      BY <1>1, <1>8, <2>1, <2>4 DEF DriveOrphan, Listed, BootStates
    <3>3. Untold(t)
      BY <2>2, <2>3, <2>4, <3>1, <3>2
         DEF Untold, Starting, Removing, Concluding, Swept, Of, Unused
    <3> QED BY <1>1, <3>3, UntoldKeeps
  <2>5. CASE u = t
    <3>1. reg[t] = Nobody
      BY <1>8, <2>1, <2>5 DEF DriveOrphan
    <3>2. ~Asking(t) /\ \A e \in Drivers : ~Of(e, t)
      BY <1>1, <3>1, NobodyDrives, ConstantsAssumption
         DEF ConstantsAssumption, IInv, Registry, Claims, Asking, Spared
    <3>3. ~Asking(t)' /\ \A e \in Drivers : Of(e, t)' => e = d
      BY <2>2, <2>3, <3>2 DEF Asking, Of
    <3> QED BY <1>1, <2>3, <2>5, <3>3, BornKeeps
  <2> QED BY <2>4, <2>5
<1> QED BY <1>2, <1>3, <1>4, <1>5, <1>6, <1>7, <1>8 DEF StartupResume, Scans

-----------------------------------------------------------------------------
(* The supervisor, and what goes wrong *)

LEMMA SupervisorTold ==
    ASSUME IInv, NEW t \in Spared, Told(t), t \notin cut', Supervisor
    PROVE  Told(t)'
<1> USE DEF durable, history, bounds
<1>1. TypeOK /\ t \in Tasks /\ t # Nobody /\ sup \in SweepStates
  BY ConstantsAssumption DEF ConstantsAssumption, IInv, Spared, TypeOK
<1>2. ASSUME NEW u \in Tasks, Look(u) PROVE Told(t)'
  <2>1. UNCHANGED <<row, ckpt, marked, drv, req, boot>> /\ sup.at = "idle" /\ sup'.at = "decided"
        /\ sup'.task = u /\ ~Waits(u)
    BY <1>2 DEF Look, Sweeping, Waits
  <2>2. SweepsParked(t)'
    BY <2>1 DEF SweepsParked, Swept, Waits
  <2>3. SaysDone(t)' /\ SaysAwaiting(t)' /\ InStep(t)' /\ RemovesRow(t)' /\ Accounted(t)'
    BY <2>1 DEF Told, SaysDone, SaysAwaiting, InStep, RemovesRow, Accounted, Renewed, Starting,
                Concluding, Removing, Listed, Waits, Driven, Drives
  <2> QED BY <2>2, <2>3 DEF Told
<1>3. CASE \/ ClaimForSweep \/ TakeWorkspace \/ RemoveWorkspace
           \/ \E u \in Tasks : ListWorkspace(u)
  <2>1. UNCHANGED <<row, ckpt, marked, drv, req, boot>> /\ sup.at # "meta" /\ sup'.at # "meta"
    BY <1>1, <1>3 DEF ClaimForSweep, TakeWorkspace, RemoveWorkspace, ListWorkspace, NoSweep, SweepStates
  <2>2. Swept(t)' => Swept(t)
    BY <1>1, <1>3 DEF ClaimForSweep, TakeWorkspace, RemoveWorkspace, ListWorkspace, NoSweep,
                      Swept, SweepStates
  <2>3. Untold(t)
    BY <2>1, <2>2 DEF Untold, Starting, Removing, Concluding, Listed
  <2> QED BY <1>1, <2>3, UntoldKeeps
<1>4. CASE Conclude
  <2>1. PICK u \in Tasks : u = sup.task
    BY <1>4 DEF Conclude, IInv, Named
  <2>2. Writes(u, "done") /\ UNCHANGED <<row, drv, req>> /\ sup.at = "apply"
        /\ sup'.at = "meta" /\ sup'.saw = "conclude" /\ sup'.task = u
    BY <1>1, <1>4, <2>1 DEF Conclude, SweepStates
  <2>3. ckpt'[u] = "done" /\ (u # t => ckpt'[t] = ckpt[t] /\ marked'[t] = marked[t])
        /\ BootStays
    BY <1>1, <2>2 DEF Writes, TypeOK, BootStates
  <2>4. CASE u # t
    <3>1. Untold(t)
      BY <2>1, <2>2, <2>3, <2>4 DEF Untold, Starting, Removing, Concluding, Swept, Listed
    <3> QED BY <1>1, <3>1, UntoldKeeps
  <2>5. CASE u = t
    <3>1. Applying(t) /\ Swept(t)
      BY <2>1, <2>2, <2>5 DEF Applying, Swept
    <3>2. ~Driven(t) /\ \A e \in Drivers : ~Of(e, t)
      BY <3>1, NobodyDrives
    <3>3. ~Waits(t)' /\ Concluding(t)'
      BY <2>2, <2>5, <3>1, <3>2 DEF Told, SweepsParked, Waits, Concluding
    <3>4. InStep(t)' /\ RemovesRow(t)'
      BY <2>2, <3>2 DEF Told, InStep, Of, RemovesRow, Removing
    <3> QED BY <2>3, <2>5, <3>3, <3>4 DEF Told, SaysDone, SaysAwaiting, Accounted, SweepsParked
  <2> QED BY <2>4, <2>5
<1>5. CASE WriteMeta
  <2>1. UNCHANGED <<ckpt, marked, drv, req, boot, reg>> /\ sup.at = "meta" /\ sup' = NoSweep
    BY <1>5 DEF WriteMeta
  <2>2. CASE Concluding(t)
    <3>1. row'[t] = "done" /\ reg[t] = Nobody /\ ckpt[t] = "done"
      BY <1>1, <1>5, <2>2 DEF WriteMeta, Concluding, TypeOK
    <3>2. ~Asking(t) /\ \A e \in Drivers : ~Of(e, t)
      BY <1>1, <3>1, NobodyDrives, ConstantsAssumption
         DEF ConstantsAssumption, IInv, Registry, Claims, Asking, Spared
    <3>3. InStep(t)' /\ ~Removing(t)' /\ ~Waits(t)'
      BY <2>1, <3>1, <3>2 DEF InStep, Of, Removing, Asking, NoRequest, Waits
    <3> QED BY <2>1, <3>1, <3>3 DEF Told, SaysDone, SaysAwaiting, RemovesRow, Accounted, SweepsParked
  <2>3. CASE ~Concluding(t)
    <3>1. row'[t] = row[t] \/ (row[t] = "none" /\ row'[t] = "bare")
      BY <1>1, <1>5, <2>1, <2>3 DEF WriteMeta, Concluding, TypeOK
    <3>2. ~Concluding(t)' /\ ~Swept(t)'
      BY <2>1 DEF Concluding, Swept, NoSweep
    <3>3. (Renewed(t)' <=> Renewed(t)) /\ (Waits(t)' <=> Waits(t)) /\ (Driven(t)' <=> Driven(t))
      BY <2>1, <3>1 DEF Renewed, Starting, Waits, Driven, Drives
    <3>4. SaysDone(t)' /\ SaysAwaiting(t)' /\ InStep(t)' /\ RemovesRow(t)'
      BY <2>1, <2>3, <3>1, <3>3 DEF Told, SaysDone, SaysAwaiting, InStep, RemovesRow, Removing
    <3>5. Accounted(t)' /\ SweepsParked(t)'
      BY <2>1, <3>2, <3>3 DEF Told, Accounted, SweepsParked, Starting, Listed
    <3> QED BY <3>4, <3>5 DEF Told
  <2> QED BY <2>2, <2>3
<1>6. ASSUME NEW d \in Drivers, Heal(d) PROVE Told(t)'
  <2>1. PICK u \in Tasks : u = sup.task
    BY <1>6 DEF Heal, IInv, Named
  <2>2. Starts(d, u, FALSE) /\ Unused(d) /\ UNCHANGED <<row, req>> /\ sup.at = "apply"
        /\ sup'.at = "meta" /\ sup'.saw = "heal" /\ \E c \in Nodes : Writes(u, c)
    BY <1>1, <1>6, <2>1 DEF Heal, SweepStates
  <2>3. drv'[d].task = u /\ drv'[d].pc = "born" /\ \A e \in Drivers : e # d => drv'[e] = drv[e]
    BY <1>1, <2>2 DEF Starts, TypeOK
  <2>4. (u # t => ckpt'[t] = ckpt[t] /\ marked'[t] = marked[t])
        /\ BootStays
    <3>1. PICK c \in Nodes : Writes(u, c)
      BY <2>2
    <3>2. UNCHANGED boot \/ boot' = [boot EXCEPT !.current = FALSE]
      BY <3>1 DEF Writes
    <3>3. BootStays
      BY <1>1, <3>2 DEF TypeOK, BootStates
    <3>4. u # t => ckpt'[t] = ckpt[t] /\ marked'[t] = marked[t]
      BY <1>1, <3>1 DEF Writes, TypeOK
    <3> QED BY <3>3, <3>4
  <2>5. CASE u # t
    <3>1. Untold(t)
      BY <2>1, <2>2, <2>3, <2>4, <2>5
         DEF Untold, Starting, Removing, Concluding, Swept, Listed, Of, Unused
    <3> QED BY <1>1, <3>1, UntoldKeeps
  <2>6. CASE u = t
    <3>1. Applying(t)
      BY <2>1, <2>2, <2>6 DEF Applying
    <3>2. ~Asking(t) /\ \A e \in Drivers : ~Of(e, t)
      BY <1>1, <3>1, NobodyDrives DEF IInv, Registry, Claims, Asking, Applying, Spared
    <3>3. ~Asking(t)' /\ \A e \in Drivers : Of(e, t)' => e = d
      BY <2>2, <2>3, <3>2 DEF Asking, Of
    <3> QED BY <1>1, <2>3, <2>6, <3>3, BornKeeps
  <2> QED BY <2>5, <2>6
<1> QED BY <1>2, <1>3, <1>4, <1>5, <1>6 DEF Supervisor

LEMMA FaultsTold ==
    ASSUME IInv, NEW t \in Spared, Told(t), t \notin cut', Faults
    PROVE  Told(t)'
<1> USE DEF durable, history, bounds
<1>1. TypeOK /\ t \in Tasks /\ t # Nobody /\ sup \in SweepStates /\ boot \in BootStates
  BY ConstantsAssumption DEF ConstantsAssumption, IInv, Spared, TypeOK
<1>2. CASE Crash
  <2>1. ~Renewed(t) /\ ~Concluding(t) /\ UNCHANGED <<row, ckpt>>
    BY <1>1, <1>2 DEF Crash, Renewed, Starting, Concluding
  <2>2. /\ ~Starting(t)' /\ ~Removing(t)' /\ ~Swept(t)' /\ Listed(t)'
        /\ \A e \in Drivers : drv'[e].pc = "idle"
    BY <1>1, <1>2 DEF Crash, NoRequest, NoSweep, NoDriver, Down, Starting, Removing, Swept, Listed
  <2>3. SaysDone(t)' /\ SaysAwaiting(t)'
    BY <2>1 DEF Told, SaysDone, SaysAwaiting
  <2> QED BY <2>2, <2>3 DEF Told, InStep, RemovesRow, Accounted, SweepsParked
<1>3. CASE SweepFails
  <2>1. UNCHANGED <<row, ckpt, marked, drv, req, boot>> /\ sup' = NoSweep /\ ~Concluding(t)
    BY <1>1, <1>3 DEF SweepFails, Concluding
  <2>2. Untold(t)
    BY <2>1 DEF Untold, Starting, Removing, Concluding, Swept, Listed, NoSweep
  <2> QED BY <1>1, <2>2, UntoldKeeps
<1>4. CASE OrphanFails
  <2>1. UNCHANGED <<row, ckpt, marked, drv, req, sup>> /\ boot.task # t
    BY <1>1, <1>4 DEF OrphanFails
  <2>2. Listed(t) => Listed(t)'
    BY <1>1, <1>4, <2>1 DEF OrphanFails, Listed, BootStates
  <2>3. Untold(t)
    BY <2>1, <2>2 DEF Untold, Starting, Removing, Concluding, Swept
  <2> QED BY <1>1, <2>3, UntoldKeeps
<1>5. ASSUME NEW d \in Drivers, BirthFails(d) \/ Throws(d) PROVE Told(t)'
  <2>1. CASE drv[d].task # t
    <3>1. PICK pc \in Places : At(d, pc) /\ UNCHANGED <<row, ckpt, marked, req, sup, boot>>
      BY <1>5 DEF BirthFails, Throws, Places, Handling
    <3>2. \A e \in Drivers : Of(e, t) \/ Of(e, t)' => drv'[e] = drv[e]
      BY <1>1, <2>1, <3>1, AtDoes DEF Of
    <3>3. Untold(t)
      BY <3>1, <3>2 DEF Untold, Starting, Removing, Concluding, Swept, Listed
    <3> QED BY <1>1, <3>3, UntoldKeeps
  <2>2. CASE drv[d].task = t
    <3>1. Throws(d)
      BY <1>1, <1>5, <2>2 DEF BirthFails
    <3>2. drv[d].pc \in Trying /\ At(d, "fail") /\ UNCHANGED <<row, ckpt, req, sup>>
      BY <3>1 DEF Throws
    <3> QED BY <2>2, <3>2, Unwinds DEF Handling
  <2> QED BY <2>1, <2>2
<1>6. ASSUME NEW u \in Tasks, RequestFails(u) PROVE Told(t)'
  <2>1. u # t /\ UNCHANGED <<row, ckpt, marked, drv, sup, boot>>
    BY <1>1, <1>6 DEF RequestFails
  <2>2. req'[t] = req[t]
    BY <1>1, <1>6, <2>1 DEF RequestFails, TypeOK
  <2>3. Untold(t)
    BY <2>1, <2>2 DEF Untold, Starting, Removing, Concluding, Swept, Listed
  <2> QED BY <1>1, <2>3, UntoldKeeps
<1>7. ASSUME NEW p \in Projects, ScanFails(p) PROVE Told(t)'
  <2>1. /\ UNCHANGED <<row, ckpt, marked, drv, req, sup>> /\ boot.at = "scan"
        /\ boot'.missed = boot.missed \union Orphans(p) /\ boot'.left = boot.left \ {p}
        /\ UNCHANGED <<boot.at, boot.todo, boot.task>>
    BY <1>1, <1>7 DEF ScanFails, BootStates
  <2>2. Accounted(t)'
    BY <1>1, <2>1 DEF Told, Accounted, Orphans, Waits, Listed, Driven, Drives, Starting
  <2>3. SaysDone(t)' /\ SaysAwaiting(t)' /\ InStep(t)' /\ RemovesRow(t)' /\ SweepsParked(t)'
    BY <2>1 DEF Told, SaysDone, SaysAwaiting, InStep, RemovesRow, SweepsParked, Renewed, Starting,
                Concluding, Removing, Swept, Waits, Driven, Drives
  <2> QED BY <2>2, <2>3 DEF Told
<1> QED BY <1>2, <1>3, <1>4, <1>5, <1>6, <1>7 DEF Faults

-----------------------------------------------------------------------------
(* The theorems *)

\* The startup resume names a task only while it is at its list.
LEMMA BootShapeKeeps == ASSUME IInv, BootShape, Next PROVE BootShape'
<1> USE DEF durable, history, bounds
<1>1. TypeOK /\ boot \in BootStates
  BY DEF IInv, TypeOK
<1>2. CASE StartupResume
  <2>1. CASE Boot \/ Scans
    BY <1>1, <2>1 DEF Boot, Scans, ScanOrphans, ScanOn, BootEnds, Booted, Down, BootShape, BootStates
  <2>2. CASE PatchOrphan
    BY <1>1, <2>2 DEF PatchOrphan, BootShape, BootStates
  <2>3. ASSUME NEW u \in Tasks, PickOrphan(u) PROVE BootShape'
    <3>1. boot.at = "loop" /\ boot.task = Nobody
      BY <2>3 DEF PickOrphan, BootShape
    <3>2. boot'.at = "patch" \/ (boot'.at = "loop" /\ boot'.task = Nobody)
      BY <1>1, <2>3, <3>1 DEF PickOrphan, BootStates
    <3> QED BY <3>2 DEF BootShape
  <2>4. ASSUME NEW d \in Drivers, DriveOrphan(d) PROVE BootShape'
    <3>1. boot'.at = "loop" /\ boot'.task = Nobody
      BY <1>1, <2>4 DEF DriveOrphan, BootStates
    <3> QED BY <3>1 DEF BootShape
  <2> QED BY <1>2, <2>1, <2>2, <2>3, <2>4 DEF StartupResume, Scans
<1>3. CASE Crash
  BY <1>3 DEF Crash, Down, BootShape
<1>4. CASE Skips
  BY <1>1, <1>4 DEF Skips, OrphanFails, ScanFails, BootShape, BootStates
<1>5. ASSUME BootStays PROVE BootShape'
  BY <1>5 DEF BootShape
<1>6. ASSUME NEW d \in Drivers, Stream(d) \/ Progress(d) PROVE BootShape'
  BY <1>1, <1>5, <1>6
     DEF Stream, Progress, MarkQueued, TakeSlot, MarkRunning, StartPass, EndPass, RunGate, EndStream,
         WriteFinal, FreeWorkspace, WriteError, WriteStopped, Writes, BootStates
<1>7. ASSUME NEW t \in Tasks, Request(t) \/ RequestFails(t) PROVE BootShape'
  BY <1>1, <1>5, <1>7
     DEF Request, Decide, Apply, DeleteRow, DeleteFiles, DeleteThread, StartRun, RequestFails, Writes,
         BootStates
<1>8. CASE Operator
  BY <1>5, <1>8 DEF Operator, StopTask, CreateTask, ClaimTask
<1>9. CASE Supervisor \/ SweepFails
  BY <1>1, <1>5, <1>9
     DEF Supervisor, Look, ListWorkspace, ClaimForSweep, Conclude, WriteMeta, TakeWorkspace,
         RemoveWorkspace, Heal, SweepFails, Writes, BootStates
<1>10. ASSUME NEW d \in Drivers, BirthFails(d) \/ Throws(d) PROVE BootShape'
  BY <1>5, <1>10 DEF BirthFails, Throws
<1> QED BY <1>2, <1>3, <1>4, <1>6, <1>7, <1>8, <1>9, <1>10 DEF Next, Faults, Skips

\* What was once dropped or taken from somebody stays so.
LEMMA SparedShrinks == ASSUME IInv, Next PROVE raced \subseteq raced' /\ cut \subseteq cut'
<1> USE DEF durable, history, bounds
<1>1. ASSUME NEW d \in Drivers, Stream(d) \/ Progress(d)
      PROVE  raced \subseteq raced' /\ cut \subseteq cut'
  BY <1>1 DEF Stream, Progress, MarkQueued, TakeSlot, MarkRunning, StartPass, EndPass, RunGate,
              EndStream, WriteFinal, FreeWorkspace, WriteError, WriteStopped
<1>2. ASSUME NEW t \in Tasks, Request(t) PROVE raced \subseteq raced' /\ cut \subseteq cut'
  BY <1>2 DEF Request, Decide, Apply, DeleteRow, DeleteFiles, DeleteThread, StartRun
<1>3. ASSUME StartupResume PROVE raced \subseteq raced' /\ cut \subseteq cut'
  BY <1>3 DEF StartupResume, Boot, Scans, ScanOrphans, ScanOn, BootEnds, PatchOrphan, PickOrphan, DriveOrphan
<1>4. ASSUME Operator PROVE raced \subseteq raced' /\ cut \subseteq cut'
  BY <1>4 DEF Operator, StopTask, CreateTask, ClaimTask
<1>5. ASSUME Supervisor PROVE raced \subseteq raced' /\ cut \subseteq cut'
  BY <1>5 DEF Supervisor, Look, ListWorkspace, ClaimForSweep, Conclude, WriteMeta, TakeWorkspace,
              RemoveWorkspace, Heal
<1>6. ASSUME Faults PROVE raced \subseteq raced' /\ cut \subseteq cut'
  BY <1>6 DEF Faults, Crash, SweepFails, OrphanFails, ScanFails, BirthFails, Throws,
              RequestFails
<1> QED BY <1>1, <1>2, <1>3, <1>4, <1>5, <1>6 DEF Next

LEMMA NextRows == ASSUME RowsInv, Next PROVE RowsInv'
<1>1. IInv /\ BootShape
  BY DEF RowsInv
<1>2. ASSUME NEW t \in Tasks, t \notin raced' \union cut' PROVE Told(t)'
  <2>1. t \in Spared /\ Told(t) /\ t \notin cut'
    BY <1>1, <1>2, SparedShrinks DEF RowsInv, Spared
  <2> QED BY <1>1, <1>2, <2>1, StreamTold, RequestTold, BootTold, OperatorTold, SupervisorTold,
             FaultsTold DEF Next
<1> QED BY <1>1, <1>2, NextIInv, BootShapeKeeps DEF RowsInv, Spared

LEMMA StutterRows == ASSUME RowsInv, UNCHANGED vars PROVE RowsInv'
<1> USE DEF vars
<1>1. BootShape'
  BY DEF RowsInv, BootShape
<1>2. ASSUME NEW t \in Tasks \ (raced \union cut) PROVE Told(t)'
  <2>1. Untold(t)
    BY DEF Untold, Starting, Removing, Concluding, Swept, Listed
  <2> QED BY <1>2, <2>1, UntoldKeeps DEF RowsInv, Spared
<1> QED BY <1>1, <1>2, StutterIInv DEF RowsInv, Spared

LEMMA RowsInvHolds == Spec => []RowsInv
<1>1. RowsInv /\ [Next]_vars => RowsInv'
  BY NextRows, StutterRows
<1> QED BY InitRows, <1>1, PTL DEF Spec

\* A task without an entry in running_tasks is not about to be written either.
LEMMA Alone ==
    ASSUME IInv, NEW t \in Spared, reg[t] = Nobody
    PROVE  ~Starting(t) /\ ~Renewed(t)
<1>1. ~Asking(t) /\ reg[t] \notin Drivers
  BY ConstantsAssumption DEF ConstantsAssumption, IInv, Registry, Claims, Asking, Spared
<1>2. ~Starting(t)
  BY <1>1 DEF Starting, Asking, NoRequest
<1> QED BY <1>1, <1>2, NobodyDrives DEF Renewed, Of

\* The Store says done only of a task whose graph ended: the end of a run
\* (final_status), a stop, an error, a decision, a sweep and a restart in any order.
THEOREM DoneMeansDone == Spec => []DoneIsDone
<1>1. ASSUME RowsInv, NEW t \in Spared, row[t] = "done", reg[t] = Nobody PROVE ckpt[t] = "done"
  BY <1>1, Alone DEF RowsInv, Told, SaysDone
<1>2. RowsInv => DoneIsDone
  BY <1>1 DEF DoneIsDone, Spared
<1> QED BY <1>2, RowsInvHolds, PTL

\* A task at rest that is not done is one lifecycle.py accepts a resume or a
\* decision for, whatever its row and its checkpoint went through.
THEOREM NothingStranded == Spec => []NeverStranded
<1>1. ASSUME RowsInv, NEW t \in Spared, reg[t] = Nobody, ckpt[t] # "none",
             ~(sup.at = "meta" /\ sup.task = t),
             row[t] \notin {"none", "bare", "done", "queued"}
      PROVE  May("resume", t) \/ May("decide", t)
  <2>1. row[t] \in {"running", "stopped", "error", "escalated", "awaiting"}
    BY <1>1 DEF RowsInv, IInv, TypeOK, Rows, Resting, Spared
  <2>2. row[t] = "awaiting" => ckpt[t] \in {"awaiting", "escalated"}
    BY <1>1, Alone DEF RowsInv, Told, SaysAwaiting, Concluding
  <2> QED BY <1>1, <2>1, <2>2 DEF May, PhaseOf, Resumable
<1>2. RowsInv => NeverStranded
  BY <1>1 DEF NeverStranded, Spared
<1> QED BY <1>2, RowsInvHolds, PTL

\* After the startup resume a task the Store calls queued or running has a driver
\* or a request that is about to give it one.
THEOREM OrphansAreDriven == Spec => []OrphansAreResumed
<1>1. ASSUME RowsInv, NEW t \in Spared, boot.at = "up", t \notin boot.missed, Waits(t),
             ckpt[t] \notin {"none", "escalated"}, ~marked[t]
      PROVE  Driven(t) \/ reg[t] = Claimed
  <2>1. ~Listed(t)
    BY <1>1, ConstantsAssumption DEF ConstantsAssumption, RowsInv, BootShape, Listed, Spared
  <2>2. Starting(t) => reg[t] = Claimed
    BY <1>1 DEF RowsInv, IInv, Registry, Claims, Starting, NoRequest, Spared
  <2> QED BY <1>1, <2>1, <2>2 DEF RowsInv, Told, Accounted
<1>2. RowsInv => OrphansAreResumed
  BY <1>1 DEF OrphansAreResumed, Waits, Spared
<1> QED BY <1>2, RowsInvHolds, PTL

=============================================================================
