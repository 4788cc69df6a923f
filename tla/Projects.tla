------------------------------ MODULE Projects ------------------------------
(***************************************************************************)
(* How a project comes, moves and goes (agent/routers/projects.py with     *)
(* provisioning.py, project_removal.py and deploy_keys.py): projects.json  *)
(* and the copy of it the process works from, the checkouts on disk, the   *)
(* agent's workspace of a project (a git worktree of its checkout), its    *)
(* deploy key, the rows the Store keeps for it and the archives of those.  *)
(*                                                                         *)
(* Requests interleave at every await.  What runs on the event loop keeps  *)
(* everything else on the loop out, what runs in a thread does not: a step *)
(* below that asks for Loop is of the first kind.                          *)
(***************************************************************************)
EXTENDS Naturals, FiniteSets

CONSTANTS
    Names,        \* project names, a workspace's path is made from one
    Dirs,         \* paths a checkout can be at
    Basename,     \* the name a checkout is onboarded under
    Requests,     \* requests under way at the same time
    None,
    PageLimit,    \* rows collect and purge read of a namespace (the code's 1000)
    First,        \* the checkout of the project that is there at first
    Cloned,       \* the checkouts that are there at first
    OldRows,      \* the rows of that project
    MaxRequests,  \* bound: requests, and starts and resumes of tasks
    MaxRepos,     \* bound: repositories, the ones there at first included
    MaxRows,      \* bound: rows ever written, the ones there at first included
    MaxFaults     \* bound: crashes, and steps of the disk, git and the Store that fail

ASSUME ConstantsAssumption ==
    /\ Basename \in [Dirs -> Names]
    /\ First \in Cloned /\ Cloned \subseteq Dirs /\ IsFiniteSet(Cloned)
    /\ IsFiniteSet(OldRows) /\ OldRows = 1..Cardinality(OldRows)
    /\ Cardinality(OldRows) <= MaxRows
    /\ Cardinality(Cloned) <= MaxRepos
    /\ None \notin Names \union Dirs \union Requests \union [live : Dirs, checks : BOOLEAN]
    /\ PageLimit \in Nat /\ MaxRequests \in Nat /\ MaxRepos \in Nat
    /\ MaxRows \in Nat /\ MaxFaults \in Nat

VARIABLES
    disk,      \* the repository at each path, 0 for none
    needed,    \* checkouts with something that is nowhere else, or in use
    ws,        \* the repository a project's workspace is a worktree of, 0 for none, or Torn
    keys,      \* projects with a deploy key file
    ssh,       \* whose key file a checkout's core.sshCommand names
    file,      \* projects.json
    known,     \* PROJECTS, the process's copy of it
    rows,      \* the Store's rows of each project
    archives,  \* the archive files, each the rows in it
    task,      \* a task of each project: none; new (no checkpoint yet), fresh (no workspace
               \* yet), working, parked; orphan, cut by a restart
    mapping,   \* projects whose codebase map is being made in the background
    req,       \* each request: its operation, where it is and what it remembers
    holder,    \* the request that keeps the loop between reading and writing it, or None
    snap,      \* the projects.json a request has read and will write back
    repos, written, begun, faults,
    \* history
    excused,   \* projects with overlapping requests, a cut or failed change
    slipped,   \* projects whose task the last check of a removal or a move did not see
    exposed,   \* rows a removal could not read, or that came after it had read
    lost,      \* rows an archiving removal deleted without having them archived
    wrote,     \* the operation that changed a project's entry last
    vanished,  \* <<a, b, n>>: an a wrote the file back without what a b had done to n
    stale      \* checkouts whose git may go on naming a key file that is gone: a move has
               \* left them, their creation failed, or the key or git did

diskVars  == <<disk, needed, ws, keys, ssh>>
fileVars  == <<file, known, holder, snap, wrote, vanished>>
storeVars == <<rows, archives, written, mapping, exposed, lost>>
taskVars  == <<task, slipped>>
vars == <<disk, needed, ws, keys, ssh, file, known, rows, archives, task, mapping, req,
          holder, snap, repos, written, begun, faults, excused, slipped,
          exposed, lost, wrote, vanished, stale>>

\* The repositories that are there at first.
Number == CHOOSE f \in [Cloned -> 1..Cardinality(Cloned)] :
              \A d, e \in Cloned : d # e => f[d] # f[e]

Entries == [live : Dirs, checks : BOOLEAN]
Rows    == 1..MaxRows

\* Part of a workspace, or a half-made one, of whichever repository.
Torn == MaxRepos + 1

Idle    == [op |-> "none", at |-> "idle", name |-> None, dir |-> None, to |-> None,
            flag |-> FALSE, doc |-> {}]

\* Mutant of Loop: the rewrites of removal and checks run in threads.
LoopAlways == TRUE

\* Nobody keeps the event loop.
Loop == holder = None

Configured(n) == file[n] # None
Active(n)     == \E r \in Requests : req[r].name = n
Faults        == faults < MaxFaults /\ faults' = faults + 1

Goes(r, at) == req' = [req EXCEPT ![r].at = at]
Ends(r)     == req' = [req EXCEPT ![r] = Idle]

\* A removal or a move of n that has looked for its tasks for the last time.
Leaves(n) ==
    \E r \in Requests :
        req[r].name = n /\ req[r].op \in {"remove", "erase", "move"} /\ req[r].at # "parked"

-----------------------------------------------------------------------------
(* A request comes in *)

\* Other projects that have one of the checkouts S, or have a request about it.
Sharing(n, S) ==
    {m \in Names \ {n} : \/ Configured(m) /\ file[m].live \in S
                         \/ \E o \in Requests : req[o].name = m /\ S \cap {req[o].dir, req[o].to} # {}}

Begins(r, op, n, d, to, flag, at) ==
    /\ req[r] = Idle /\ Loop /\ begun < MaxRequests /\ begun' = begun + 1
    /\ req' = [req EXCEPT ![r] = [Idle EXCEPT !.op = op, !.at = at, !.name = n, !.dir = d,
                                              !.to = to, !.flag = flag]]
    /\ LET Same == Sharing(n, {d, to} \ {None}) IN
       excused' = IF Active(n) \/ Same # {} THEN excused \union Same \union {n} ELSE excused
    /\ slipped' = IF op \in {"remove", "erase"} /\ task[n] = "new"
                  THEN slipped \union {n} ELSE slipped
    /\ UNCHANGED <<diskVars, fileVars, storeVars, task, repos, faults, stale>>

\* A new repository under a root; flag: GitHub is to have it too.
BeginCreate(r, d, github) ==
    /\ known[Basename[d]] = None
    /\ Begins(r, "create", Basename[d], d, None, github, "make")

\* A repository cloned from GitHub; flag: and onboarded at once.
BeginClone(r, d, onboard) ==
    /\ known[Basename[d]] = None
    /\ Begins(r, "clone", Basename[d], d, None, onboard, "make")

\* The wizard, for a directory; flag: an archive of that name is to be restored.
BeginAdd(r, d, restore) ==
    /\ restore => archives # {}
    /\ Begins(r, "add", Basename[d], d, None, restore, "detect")

\* Mutant of InFlight: a task counts once it has a workspace.
InFlightWorking(n) == task[n] = "working"

\* _running_repos: the project of a task that has a driver, read from its checkpoint.
InFlight(n) == task[n] \in {"fresh", "working"}

\* flag: archive what the Store has, or only delete it.
BeginRemove(r, n, archive) ==
    /\ known[n] # None /\ ~InFlight(n)
    /\ Begins(r, "remove", n, known[n].live, None, archive, "collect")

\* The same, and the checkout is to go; it is looked at before anything is done.
BeginErase(r, n, archive) ==
    /\ known[n] # None /\ ~InFlight(n)
    /\ disk[known[n].live] # 0 /\ known[n].live \notin needed
    /\ Begins(r, "erase", n, known[n].live, None, archive, "collect")

\* To another checkout that no other project has.
BeginMove(r, n, to) ==
    /\ known[n] # None /\ ~InFlight(n)
    /\ disk[to] # 0 /\ \A m \in Names : known[m] # None => known[m].live # to
    /\ Begins(r, "move", n, known[n].live, to, FALSE, "parked")

\* flag: a new deploy key, or none any more.
BeginKey(r, n, new) == known[n] # None /\ Begins(r, "key", n, known[n].live, None, new, "key")

\* autodetect_checks_if_none, at a task's first ship.
BeginChecks(r, n) ==
    /\ known[n] # None /\ ~known[n].checks
    /\ Begins(r, "checks", n, known[n].live, None, FALSE, "read")

-----------------------------------------------------------------------------
(* Creating and onboarding *)

\* create_repository and clone_repository: nothing may be at the path.
MakeRepository(r) ==
    /\ req[r].at = "make"
    /\ LET d == req[r].dir IN
       IF disk[d] = 0 /\ repos < MaxRepos
       THEN /\ repos' = repos + 1 /\ disk' = [disk EXCEPT ![d] = repos']
            /\ needed' = IF req[r].op = "create" THEN needed \union {d} ELSE needed \ {d}
            /\ IF req[r].op = "create"
               THEN Goes(r, IF req[r].flag THEN "github" ELSE "detect")
               ELSE IF req[r].flag THEN Goes(r, "detect") ELSE Ends(r)
       ELSE Ends(r) /\ UNCHANGED <<disk, needed, repos>>
    /\ UNCHANGED <<ws, keys, ssh, fileVars, storeVars, taskVars, begun, faults, excused, stale>>

\* configure_repo.
Uses(n, d) ==
    IF disk[d] # 0
    THEN ssh' = [ssh EXCEPT ![d] = n] /\ stale' = stale \ {d}
    ELSE UNCHANGED <<ssh, stale>>

\* generate_key and install_key: the key file, and core.sshCommand of the checkout, which
\* git may fail to set with nobody looking.
Mint(n, d) ==
    /\ keys' = keys \union {n}
    /\ \/ Uses(n, d) /\ UNCHANGED faults
       \/ Faults /\ UNCHANGED <<ssh, stale>>

\* ssh-keygen cannot make the key, or cannot read the one that was pasted: the previous key
\* file is gone by then.
MintFails(n, d) ==
    keys' = keys \ {n} /\ stale' = stale \union {d} /\ UNCHANGED ssh

\* Mutant of Unpointed: the key file goes, core.sshCommand stays.
UnpointedNot(d) == ssh

\* git config --unset core.sshCommand, in the checkout the request began with.
Unpointed(d) == [ssh EXCEPT ![d] = None]

Unmint(n, d) == keys' = keys \ {n} /\ ssh' = Unpointed(d) /\ stale' = stale \ {d}

\* The key file cannot be deleted, or git fails with nobody looking.
UnmintFails(n, d) ==
    keys' \in {keys, keys \ {n}} /\ stale' = stale \union {d} /\ UNCHANGED ssh

\* The private repository on GitHub, its key, and the first push; each may fail.  Only a
\* project that has no repository on GitHub may have its directory rolled back.
ConnectGithub(r) ==
    /\ req[r].at = "github"
    /\ LET d == req[r].dir  n == req[r].name IN
       \/ /\ keys' = keys \union {n} /\ Goes(r, "detect")
          /\ \/ Uses(n, d) /\ needed' = needed \ {d} /\ UNCHANGED faults
             \/ Faults /\ Uses(n, d) /\ UNCHANGED needed
             \/ Faults /\ UNCHANGED <<ssh, stale>> /\ needed' \in {needed, needed \ {d}}
       \/ Faults /\ MintFails(n, d) /\ Goes(r, "detect") /\ UNCHANGED needed
       \/ /\ Faults
          /\ \E created \in BOOLEAN : req' = [req EXCEPT ![r].at = "detect", ![r].flag = created]
          /\ UNCHANGED <<keys, ssh, stale, needed>>
    /\ UNCHANGED <<disk, ws, fileVars, storeVars, taskVars, repos, begun, excused>>

\* detect_project: not a checkout, or the name is configured.
Detect(r) ==
    /\ req[r].at = "detect"
    /\ IF disk[req[r].dir] # 0 /\ known[req[r].name] = None
       THEN Goes(r, "tree")
       ELSE IF req[r].op = "create" THEN Goes(r, "rollback") ELSE Ends(r)
    /\ UNCHANGED <<diskVars, fileVars, storeVars, taskVars, repos, begun, faults, excused, stale>>

\* must_be_new: only a project that was there before may have a workspace.
MayAdopt(r) == req[r].op # "create"

Worktree(n, d) == ws' = [ws EXCEPT ![n] = disk[d]]

\* git or rmtree stops half way, or git is killed at its timeout.
Tears(n) == ws' = [ws EXCEPT ![n] = Torn] /\ excused' = excused \union {n}

\* create_worktree: what is there with a .git is taken, whatever it is of, the rest refused.
CreateWorktree(r) ==
    /\ req[r].at = "tree"
    /\ LET d == req[r].dir  n == req[r].name IN
       \/ /\ UNCHANGED <<ws, faults, excused>>
          /\ \/ ws[n] # 0 /\ MayAdopt(r) /\ Goes(r, "entry")
             \/ ws[n] # 0 /\ ~MayAdopt(r) /\ Goes(r, "undo")
             \/ ws[n] = Torn /\ Goes(r, "undo")
             \/ ws[n] = 0 /\ disk[d] = 0 /\ Goes(r, "undo")
       \/ /\ ws[n] = 0 /\ disk[d] # 0 /\ Worktree(n, d) /\ Goes(r, "entry")
          /\ UNCHANGED <<faults, excused>>
       \/ /\ ws[n] = 0 /\ Faults /\ Goes(r, "undo")
          /\ UNCHANGED <<ws, excused>> \/ Tears(n)
    /\ UNCHANGED <<disk, needed, keys, ssh, fileVars, storeVars, taskVars, repos, begun, stale>>

-----------------------------------------------------------------------------
(* projects.json *)

\* Mutant of LockFree: the lock beside the file is not taken.
LockFreeAlways == TRUE

\* _rewrite_projects: nobody is between reading and writing under the lock.
LockFree == \A r \in Requests : req[r].at # "store"

\* r writes the file back with its own change to n; what others changed since it read
\* is gone.
Rewrites(r, n, op, entry) ==
    /\ file' = [snap[r] EXCEPT ![n] = entry]
    /\ LET Others == {m \in Names \ {n} : file[m] # snap[r][m]} IN
       /\ wrote' = [m \in Names |-> IF m \in Others \union {n} THEN op ELSE wrote[m]]
       /\ vanished' = vanished \union {<<op, wrote[m], m>> : m \in Others}
    /\ snap' = [snap EXCEPT ![r] = [m \in Names |-> None]]

\* write_project_entry, in a thread.  When it fails the workspace stays, for whichever
\* checkout of that name is onboarded next.
ReadToAdd(r) ==
    /\ req[r].at = "entry" /\ LockFree
    /\ \/ /\ file[req[r].name] = None
          /\ snap' = [snap EXCEPT ![r] = file] /\ Goes(r, "store")
          /\ UNCHANGED <<faults, excused>>
       \/ file[req[r].name] # None /\ Goes(r, "undo") /\ UNCHANGED <<snap, faults, excused>>
       \/ /\ Faults /\ excused' = excused \union {req[r].name}
          /\ Goes(r, "undo") /\ UNCHANGED snap
    /\ UNCHANGED <<diskVars, file, known, holder, wrote, vanished, storeVars, taskVars,
                   repos, begun, stale>>

WriteAdded(r) ==
    /\ req[r].at = "store"
    /\ Rewrites(r, req[r].name, "add", [live |-> req[r].dir, checks |-> FALSE])
    /\ Goes(r, "load")
    /\ UNCHANGED <<diskVars, known, holder, storeVars, taskVars, repos, begun, faults, excused, stale>>

\* Rows that will be in the purge of a removal which has read its page without them.
Late(n, S, r) ==
    exposed' = IF \E o \in Requests \ {r} : req[o].name = n /\ req[o].at = "purge"
               THEN exposed \union S ELSE exposed

NewRow(n) ==
    IF written < MaxRows
    THEN /\ written' = written + 1
         /\ rows' = [rows EXCEPT ![n] = @ \union {written'}] /\ Late(n, {written'}, None)
    ELSE UNCHANGED <<written, rows, exposed>>

\* The copy is read again, the starter memory is written, the map is begun.
Load(r) ==
    /\ req[r].at = "load" /\ Loop
    /\ known' = file
    /\ NewRow(req[r].name)
    /\ mapping' = mapping \union {req[r].name}
    /\ IF req[r].op = "add" /\ req[r].flag THEN Goes(r, "restore") ELSE Ends(r)
    /\ UNCHANGED <<diskVars, file, holder, snap, wrote, vanished, archives, lost, taskVars,
                   repos, begun, faults, excused, stale>>

\* Any archive, under the project's present name; best-effort.
Restore(r) ==
    /\ req[r].at = "restore" /\ Loop /\ Ends(r)
    /\ \/ \E a \in archives : /\ rows' = [rows EXCEPT ![req[r].name] = @ \union a]
                              /\ Late(req[r].name, a, r)
       \/ UNCHANGED <<rows, exposed>>
    /\ UNCHANGED <<diskVars, fileVars, archives, written, mapping, lost, taskVars, repos,
                   begun, faults, excused, stale>>

\* What is left when a step failed: the copy decides whether the project exists.
Undo(r) ==
    /\ req[r].at = "undo" /\ Loop
    /\ IF req[r].op = "create" /\ known[req[r].name] = None
       THEN Goes(r, "rollback") ELSE Ends(r)
    /\ UNCHANGED <<diskVars, fileVars, storeVars, taskVars, repos, begun, faults, excused, stale>>

Deleted(d) ==
    /\ disk' = [disk EXCEPT ![d] = 0] /\ ssh' = [ssh EXCEPT ![d] = None]
    /\ stale' = stale \ {d}

\* _rollback_new_project: the directory goes, unless GitHub has the repository.
Rollback(r) ==
    /\ req[r].at = "rollback" /\ Loop /\ Ends(r)
    /\ \/ ~req[r].flag /\ Deleted(req[r].dir) /\ UNCHANGED faults
       \/ req[r].flag /\ stale' = stale \union {req[r].dir} /\ UNCHANGED <<disk, ssh, faults>>
       \/ ~req[r].flag /\ Faults /\ UNCHANGED <<disk, ssh, stale>>
    /\ UNCHANGED <<needed, ws, keys, fileVars, storeVars, taskVars, repos, begun, excused>>

-----------------------------------------------------------------------------
(* Removing *)

\* Mutant of Purged: every row is deleted, though only a page has been archived.
PurgedAll(n) == rows[n]

\* asearch(limit=1000): the newest rows.
Page(n) == {x \in rows[n] : Cardinality({y \in rows[n] : y > x}) < PageLimit}

Purged(n) == Page(n)

\* collect and write_archive.  A namespace that cannot be read is an empty one; when the
\* index or the archive fails, the removal is refused.
Collect(r) ==
    /\ req[r].at = "collect" /\ Loop
    /\ LET n == req[r].name IN
       \/ ~req[r].flag /\ Goes(r, "purge") /\ UNCHANGED <<archives, exposed, faults>>
       \/ /\ req[r].flag
          /\ req' = [req EXCEPT ![r].at = "purge", ![r].doc = Page(n)]
          /\ archives' = archives \union {Page(n)}
          /\ UNCHANGED <<exposed, faults>>
       \/ /\ req[r].flag /\ Faults /\ Goes(r, "purge")
          /\ archives' = archives \union {{}}
          /\ exposed' = exposed \union rows[n]
       \/ req[r].flag /\ Faults /\ Ends(r) /\ UNCHANGED <<archives, exposed>>
    /\ UNCHANGED <<diskVars, fileVars, rows, written, mapping, lost, taskVars, repos, begun,
                   excused, stale>>

\* purge: page by page of its own, and never a reason to stop.
Purge(r) ==
    /\ req[r].at = "purge" /\ Loop /\ Goes(r, "detach")
    /\ LET n == req[r].name IN
       \/ /\ rows' = [rows EXCEPT ![n] = @ \ Purged(n)]
          /\ lost' = IF req[r].flag THEN lost \union (Purged(n) \ req[r].doc) ELSE lost
          /\ Late(n, rows[n] \ Purged(n), r)
          /\ UNCHANGED faults
       \/ Faults /\ UNCHANGED <<rows, lost, exposed>>
    /\ UNCHANGED <<diskVars, fileVars, archives, written, mapping, taskVars, repos, begun,
                   excused, stale>>

\* remove_worktree; a workspace that stays, or part of it, is reported and the removal goes
\* on, but git's timeout is an exception that ends it.
Detach(r) ==
    /\ req[r].at = "detach"
    /\ \/ /\ ws' = [ws EXCEPT ![req[r].name] = 0] /\ Goes(r, "entries")
          /\ UNCHANGED <<faults, excused>>
       \/ /\ ws[req[r].name] # 0 /\ Faults /\ (Goes(r, "entries") \/ Ends(r))
          /\ \/ Tears(req[r].name)
             \/ UNCHANGED ws /\ excused' = excused \union {req[r].name}
    /\ UNCHANGED <<disk, needed, keys, ssh, fileVars, storeVars, taskVars, repos, begun, stale>>

\* After the entry is gone: the checkout, if it was asked for.
AfterDrop(r) == IF req[r].op = "erase" THEN Goes(r, "erase") ELSE Ends(r)

\* remove_key, and remove_project_entry up to its write: no await, and no lock.
ReadToDrop(r) ==
    /\ req[r].at = "entries" /\ Loop
    /\ LET n == req[r].name  d == req[r].dir
           Reads == \/ /\ file[n] # None
                       /\ snap' = [snap EXCEPT ![r] = file] /\ holder' = r /\ Goes(r, "drop")
                       /\ UNCHANGED <<known, excused>>
                    \/ /\ file[n] = None
                       /\ known' = file /\ AfterDrop(r) /\ UNCHANGED <<snap, holder, excused>>
           Fails == excused' = excused \union {n} /\ Ends(r) /\ UNCHANGED <<snap, holder, known>>
       IN
       \/ Unmint(n, d) /\ Reads /\ UNCHANGED faults
       \/ UnmintFails(n, d) /\ Reads /\ Faults
       \/ (Unmint(n, d) \/ UnmintFails(n, d)) /\ Fails /\ Faults
    /\ UNCHANGED <<disk, needed, ws, file, wrote, vanished, storeVars, taskVars, repos, begun>>

WriteDropped(r) ==
    /\ req[r].at = "drop"
    /\ Rewrites(r, req[r].name, "drop", None) /\ known' = file' /\ holder' = None
    /\ AfterDrop(r)
    /\ UNCHANGED <<diskVars, storeVars, taskVars, repos, begun, faults, excused, stale>>

\* delete_checkout looks again before it deletes; what it cannot delete stays.
Erase(r) ==
    /\ req[r].at = "erase" /\ Ends(r)
    /\ LET safe == disk[req[r].dir] # 0 /\ req[r].dir \notin needed IN
       \/ safe /\ Deleted(req[r].dir) /\ UNCHANGED faults
       \/ ~safe /\ UNCHANGED <<disk, ssh, stale, faults>>
       \/ safe /\ Faults /\ UNCHANGED <<disk, ssh, stale>>
    /\ UNCHANGED <<needed, ws, keys, fileVars, storeVars, taskVars, repos, begun, excused>>

-----------------------------------------------------------------------------
(* Moving *)

\* workspaces.existing, where one is of a task that works or did before, and the tasks that
\* wait for a decision.
MoveChecks(r) ==
    /\ req[r].at = "parked" /\ Loop
    /\ LET n == req[r].name IN
       \/ task[n] \in {"fresh", "working", "parked", "orphan"} /\ Ends(r) /\ UNCHANGED slipped
       \/ /\ task[n] \notin {"working", "parked"} /\ Goes(r, "unhook")
          /\ slipped' = IF task[n] \in {"new", "fresh"} THEN slipped \union {n} ELSE slipped
    /\ UNCHANGED <<diskVars, fileVars, storeVars, task, repos, begun, faults, excused, stale>>

\* remove_worktree: when it fails the move ends, whether or not part of it is gone.
Unhook(r) ==
    /\ req[r].at = "unhook"
    /\ LET n == req[r].name IN
       \/ /\ ws' = [ws EXCEPT ![n] = 0] /\ Goes(r, "rehook") /\ UNCHANGED <<faults, excused>>
       \/ ws[n] # 0 /\ Faults /\ Ends(r) /\ (UNCHANGED <<ws, excused>> \/ Tears(n))
    /\ UNCHANGED <<disk, needed, keys, ssh, fileVars, storeVars, taskVars, repos, begun, stale>>

\* create_worktree, from the new checkout.
Rehook(r) ==
    /\ req[r].at = "rehook"
    /\ LET n == req[r].name  d == req[r].to IN
       \/ /\ UNCHANGED <<ws, faults, excused>>
          /\ \/ ws[n] # 0 /\ Goes(r, "point")
             \/ ws[n] = Torn /\ Goes(r, "putback")
             \/ ws[n] = 0 /\ disk[d] = 0 /\ Goes(r, "putback")
       \/ /\ ws[n] = 0 /\ disk[d] # 0 /\ Worktree(n, d) /\ Goes(r, "point")
          /\ UNCHANGED <<faults, excused>>
       \/ /\ ws[n] = 0 /\ Faults /\ Goes(r, "putback")
          /\ UNCHANGED <<ws, excused>> \/ Tears(n)
    /\ UNCHANGED <<disk, needed, keys, ssh, fileVars, storeVars, taskVars, repos, begun, stale>>

\* Mutant of OldTree: the workspace is not put back.
OldTreeGone(r) == 0

\* The old checkout's worktree again.
OldTree(r) == disk[req[r].dir]

\* create_worktree, from the old one: what the failed one left there is taken, or refused.
PutBack(r) ==
    /\ req[r].at = "putback" /\ Ends(r)
    /\ LET n == req[r].name IN
       \/ ws' = [ws EXCEPT ![n] = IF @ = 0 THEN OldTree(r) ELSE @] /\ UNCHANGED <<faults, excused>>
       \/ /\ ws[n] = 0 /\ Faults
          /\ \/ Tears(n)
             \/ UNCHANGED ws /\ excused' = excused \union {n}
    /\ UNCHANGED <<disk, needed, keys, ssh, fileVars, storeVars, taskVars, repos, begun, stale>>

\* move_project_entry, under the lock and on the loop.
Point(r) ==
    /\ req[r].at = "point" /\ Loop /\ LockFree
    /\ LET n == req[r].name IN
       \/ /\ Configured(n)
          /\ file' = [file EXCEPT ![n].live = req[r].to] /\ known' = file'
          /\ wrote' = [wrote EXCEPT ![n] = "move"]
          /\ stale' = stale \union {req[r].dir}
          /\ Goes(r, "follow") /\ UNCHANGED <<faults, excused>>
       \/ ~Configured(n) /\ Ends(r) /\ UNCHANGED <<file, known, wrote, faults, excused, stale>>
       \/ /\ Faults /\ excused' = excused \union {n} /\ Ends(r)
          /\ UNCHANGED <<file, known, wrote, stale>>
    /\ UNCHANGED <<diskVars, holder, snap, vanished, storeVars, taskVars, repos, begun>>

\* follow_move: the new checkout uses the key, the old one goes on doing so.
FollowKey(r) ==
    /\ req[r].at = "follow" /\ Ends(r)
    /\ LET n == req[r].name  d == req[r].to
           follows == n \in keys /\ ssh[req[r].dir] = n IN
       \/ follows /\ Uses(n, d) /\ UNCHANGED faults
       \/ ~follows /\ UNCHANGED <<ssh, stale, faults>>
       \/ follows /\ Faults /\ UNCHANGED <<ssh, stale>>
    /\ UNCHANGED <<disk, needed, ws, keys, fileVars, storeVars, taskVars, repos, begun, excused>>

-----------------------------------------------------------------------------
(* Keys and checks *)

\* install_deploy_key and generate_deploy_key, or delete_deploy_key.
ChangeKey(r) ==
    /\ req[r].at = "key" /\ Ends(r)
    /\ LET n == req[r].name  d == req[r].dir IN
       \/ req[r].flag /\ Mint(n, d)
       \/ req[r].flag /\ MintFails(n, d) /\ UNCHANGED faults
       \/ ~req[r].flag /\ Unmint(n, d) /\ UNCHANGED faults
       \/ ~req[r].flag /\ UnmintFails(n, d) /\ Faults
    /\ UNCHANGED <<disk, needed, ws, fileVars, storeVars, taskVars, repos, begun, excused>>

\* set_project_checks, up to its write: on the loop, without the lock.
ReadToFill(r) ==
    /\ req[r].at = "read" /\ Loop
    /\ LET n == req[r].name IN
       IF Configured(n) /\ ~file[n].checks
       THEN snap' = [snap EXCEPT ![r] = file] /\ holder' = r /\ Goes(r, "fill")
       ELSE Ends(r) /\ UNCHANGED <<snap, holder>>
    /\ UNCHANGED <<diskVars, file, known, wrote, vanished, storeVars, taskVars, repos, begun,
                   faults, excused, stale>>

WriteFilled(r) ==
    /\ req[r].at = "fill" /\ Ends(r)
    /\ Rewrites(r, req[r].name, "fill", [snap[r][req[r].name] EXCEPT !.checks = TRUE])
    /\ known' = file' /\ holder' = None
    /\ UNCHANGED <<diskVars, storeVars, taskVars, repos, begun, faults, excused, stale>>

-----------------------------------------------------------------------------
(* What goes on around the requests *)

\* A task is created, or a parked or an orphaned one resumed.
StartTask(n) ==
    /\ Loop /\ known[n] # None /\ task[n] \in {"none", "parked", "orphan"}
    /\ begun < MaxRequests /\ begun' = begun + 1
    /\ task' = [task EXCEPT ![n] = IF @ = "none" THEN "new" ELSE "fresh"]
    /\ slipped' = IF Leaves(n) THEN slipped \union {n} ELSE slipped
    /\ UNCHANGED <<diskVars, fileVars, storeVars, req, repos, faults, excused, stale>>

\* It has a slot, and its graph the first checkpoint, which says whose task it is.
TaskSaved(n) ==
    /\ Loop /\ task[n] = "new" /\ task' = [task EXCEPT ![n] = "fresh"]
    /\ UNCHANGED <<diskVars, fileVars, storeVars, slipped, req, repos, begun, faults, excused, stale>>

\* workspaces.ensure: a worktree of the task's own, made from the checkout.
TaskWorks(n) ==
    /\ task[n] = "fresh"
    /\ LET there == known[n] # None /\ disk[known[n].live] # 0 IN
       /\ task' = [task EXCEPT ![n] = IF there THEN "working" ELSE "none"]
       /\ slipped' = IF there THEN slipped ELSE slipped \ {n}
    /\ UNCHANGED <<diskVars, fileVars, storeVars, req, repos, begun, faults, excused, stale>>

\* It parks, or it has landed, pushed or not; what it did becomes a row.
TaskRests(n) ==
    /\ task[n] = "working" /\ Loop
    /\ NewRow(n) /\ slipped' = slipped \ {n}
    /\ \/ task' = [task EXCEPT ![n] = "parked"] /\ UNCHANGED needed
       \/ /\ task' = [task EXCEPT ![n] = "none"]
          /\ \/ UNCHANGED needed
             \/ known[n] # None /\ needed' = needed \union {known[n].live}
    /\ UNCHANGED <<disk, ws, keys, ssh, fileVars, archives, mapping, lost, req,
                   repos, begun, faults, excused, stale>>

\* run_cartographer, spawned by Load, writes what it has found.
MapBuilt(n) ==
    /\ n \in mapping /\ Loop /\ mapping' = mapping \ {n} /\ NewRow(n)
    /\ UNCHANGED <<diskVars, fileVars, archives, lost, taskVars, req, repos, begun, faults,
                   excused, stale>>

\* The server restarts in the middle of what it is doing.
Crash ==
    /\ Faults
    /\ excused' = excused \union {n \in Names : Active(n)}
    /\ req' = [r \in Requests |-> Idle] /\ holder' = None
    /\ snap' = [r \in Requests |-> [n \in Names |-> None]]
    /\ known' = file /\ mapping' = {}
    /\ task' = [n \in Names |-> CASE task[n] = "new" -> "none"
                                   [] task[n] \in {"fresh", "working"} -> "orphan"
                                   [] OTHER -> task[n]]
    /\ slipped' = {}
    /\ UNCHANGED <<diskVars, file, wrote, vanished, rows, archives, written, exposed, lost,
                   repos, begun, stale>>

-----------------------------------------------------------------------------

Init ==
    LET own == Basename[First] IN
    /\ disk = [d \in Dirs |-> IF d \in Cloned THEN Number[d] ELSE 0]
    /\ needed = {} /\ repos = Cardinality(Cloned)
    /\ ws = [n \in Names |-> IF n = own THEN Number[First] ELSE 0]
    /\ keys = {own} /\ ssh = [d \in Dirs |-> IF d = First THEN own ELSE None]
    /\ file = [n \in Names |-> IF n = own THEN [live |-> First, checks |-> FALSE] ELSE None]
    /\ known = file
    /\ written = Cardinality(OldRows)
    /\ rows = [n \in Names |-> IF n = own THEN OldRows ELSE {}]
    /\ archives = {} /\ mapping = {} /\ exposed = {} /\ lost = {}
    /\ task = [n \in Names |-> "none"] /\ slipped = {}
    /\ req = [r \in Requests |-> Idle] /\ holder = None
    /\ snap = [r \in Requests |-> [n \in Names |-> None]]
    /\ wrote = [n \in Names |-> "add"] /\ vanished = {}
    /\ begun = 0 /\ faults = 0 /\ excused = {} /\ stale = {}

Begin(r) ==
    \/ \E d \in Dirs, f \in BOOLEAN : BeginCreate(r, d, f) \/ BeginClone(r, d, f) \/ BeginAdd(r, d, f)
    \/ \E n \in Names, f \in BOOLEAN : BeginRemove(r, n, f) \/ BeginErase(r, n, f) \/ BeginKey(r, n, f)
    \/ \E n \in Names : BeginChecks(r, n) \/ \E d \in Dirs : BeginMove(r, n, d)

Onboards(r) ==
    \/ MakeRepository(r) \/ ConnectGithub(r) \/ Detect(r) \/ CreateWorktree(r)
    \/ ReadToAdd(r) \/ WriteAdded(r) \/ Load(r) \/ Restore(r) \/ Undo(r) \/ Rollback(r)

Removes(r) ==
    \/ Collect(r) \/ Purge(r) \/ Detach(r) \/ ReadToDrop(r) \/ WriteDropped(r) \/ Erase(r)

Moves(r) ==
    \/ MoveChecks(r) \/ Unhook(r) \/ Rehook(r) \/ PutBack(r) \/ Point(r) \/ FollowKey(r)

Changes(r) == ChangeKey(r) \/ ReadToFill(r) \/ WriteFilled(r)

Around(n) == StartTask(n) \/ TaskSaved(n) \/ TaskWorks(n) \/ TaskRests(n) \/ MapBuilt(n)

Next ==
    \/ \E r \in Requests : Begin(r) \/ Onboards(r) \/ Removes(r) \/ Moves(r) \/ Changes(r)
    \/ \E n \in Names : Around(n)
    \/ Crash

Spec == Init /\ [][Next]_vars

-----------------------------------------------------------------------------
(* What has to hold *)

\* Every variable is in its type, and only a step of the loop keeps the loop.
TypeOK ==
    /\ disk \in [Dirs -> 0..MaxRepos] /\ needed \subseteq Dirs
    /\ ws \in [Names -> 0..Torn]
    /\ keys \subseteq Names /\ ssh \in [Dirs -> Names \union {None}]
    /\ file \in [Names -> Entries \union {None}] /\ known \in [Names -> Entries \union {None}]
    /\ \A r \in Requests : snap[r] \in [Names -> Entries \union {None}]
    /\ \A n \in Names :
           /\ rows[n] \subseteq Rows
           /\ task[n] \in {"none", "new", "fresh", "working", "parked", "orphan"}
    /\ \A a \in archives : a \subseteq Rows
    /\ mapping \subseteq Names
    /\ \A r \in Requests : (holder = r) <=> req[r].at \in {"drop", "fill"}
    /\ Cardinality({r \in Requests : req[r].at = "store"}) <= 1

\* Projects that share a checkout, that two requests changed at the same time, whose
\* onboarding, removal or move was cut or failed half way, or whose entry was lost to another's.
NotPromised == excused \union {v[3] : v \in vanished}

\* A configured project that nobody is changing has its checkout, and its workspace is a
\* worktree of that checkout, whole, and of no other repository (create_worktree, and the
\* put-back of a move when the failed worktree left nothing behind); see NotPromised.
ConfiguredIsWhole ==
    \A n \in Names \ NotPromised :
        (Configured(n) /\ ~Active(n)) =>
            disk[file[n].live] # 0 /\ ws[n] = disk[file[n].live]

\* A project's entry, checkout and workspace stay while a task works in it, when the last
\* check of every removal and move (_running_repos, and for a move the workspaces and the
\* waiting tasks) came before the task or could see it; see NotPromised.
RunningIsSafe ==
    \A n \in Names \ (slipped \union NotPromised) :
        task[n] = "working" => Configured(n) /\ disk[file[n].live] # 0 /\ ws[n] \notin {0, Torn}

\* What a removal with an archive deletes from the Store is in its archive, whatever the
\* page limit, except rows it could not read or that came into its page afterwards: written
\* or restored, or moved up by another removal of the project.
LostOnlyExposed == lost \subseteq exposed

\* The lock of projects.json and the event loop together: a change to one project's entry
\* is never lost to a change of another's, except between an onboarding, which writes in
\* a thread, and the two rewrites that do not take the lock.
EntriesAreKept ==
    \A v \in vanished : \/ v[1] = "add" /\ v[2] \in {"drop", "fill"}
                        \/ v[2] = "add" /\ v[1] \in {"drop", "fill"}

\* No checkout's git points at a deploy key file that is gone (remove_key, follow_move,
\* _rollback_new_project), except the ones in stale; see NotPromised.
KeysExist == \A d \in Dirs \ stale : ssh[d] \in keys \union NotPromised \union {None}
=============================================================================
