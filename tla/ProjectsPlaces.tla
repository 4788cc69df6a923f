--------------------------- MODULE ProjectsPlaces ---------------------------
(***************************************************************************)
(* Theorems about Projects on checkouts, workspaces, deploy keys and the   *)
(* tasks in them, for every value of its constants: what is configured is  *)
(* whole, nobody takes a project from under a task, no key file is missed. *)
(*                                                                         *)
(* Everything is said of one project at a time, as long as it is promised: *)
(* where its request stands, the entry, the workspace and the key are what *)
(* that place says (Stands), and without a request they are what an idle   *)
(* one says.  A promised project has one request at most and shares no     *)
(* checkout (Apiece), so the steps of other requests leave it alone        *)
(* (Apart), and what is left is each step of its own.                      *)
(***************************************************************************)
EXTENDS ProjectsProofs

-----------------------------------------------------------------------------
(* Checkouts, workspaces and keys: what a request's step leaves alone *)

Proceeds(r) == Onboards(r) \/ Removes(r) \/ Moves(r) \/ Changes(r)

LEMMA StepHops ==
    ASSUME Typed, NEW r \in Requests, Proceeds(r)
    PROVE  Hopped(r) /\ req[r].at # "idle" /\ req[r].name \in Names /\ req[r].dir \in Dirs
<1>1. Hopped(r)
  BY OnboardsHop, RemovesHop, MovesHop, ChangesHop DEF Proceeds
<1>2. req[r].at # "idle"
  <2>1. CASE Onboards(r)
    BY <2>1 DEF Onboards, MakeRepository, ConnectGithub, Detect, CreateWorktree, ReadToAdd,
                WriteAdded, Load, Restore, Undo, Rollback
  <2>2. CASE Removes(r)
    BY <2>2 DEF Removes, Collect, Purge, Detach, ReadToDrop, WriteDropped, Erase
  <2>3. CASE Moves(r)
    BY <2>3 DEF Moves, MoveChecks, Unhook, Rehook, PutBack, Point, FollowKey
  <2>4. CASE Changes(r)
    BY <2>4 DEF Changes, ChangeKey, ReadToFill, WriteFilled
  <2> QED
    BY <2>1, <2>2, <2>3, <2>4 DEF Proceeds
<1> QED
  BY <1>1, <1>2, AtWork DEF Typed

\* The disk: a checkout that is there stays, but for the one the request is about; no other
\* project's workspace, key or use of a key changes.
DiskLeft(r) ==
    /\ \A e \in Dirs : disk[e] # 0 /\ e # req[r].dir => disk'[e] = disk[e]
    /\ \A m \in Names : m # req[r].name =>
           /\ ws'[m] = ws[m] /\ (m \in keys' <=> m \in keys)
           /\ \A e \in Dirs \ stale' : ssh'[e] = m => e \notin stale /\ ssh[e] = m

LEMMA StepDisk ==
    ASSUME Typed, NEW r \in Requests, Proceeds(r)
    PROVE  DiskLeft(r)
<1> DEFINE n == req[r].name
<1> DEFINE d == req[r].dir
<1>0. /\ n \in Names /\ d \in Dirs /\ None \notin Names
      /\ disk \in [Dirs -> 0..MaxRepos] /\ ws \in [Names -> 0..Torn]
      /\ ssh \in [Dirs -> Names \union {None}]
  BY StepHops, ConstantsAssumption DEF Typed, DiskTyped
<1>1. CASE UNCHANGED <<disk, ws, keys, ssh, stale>>
  BY <1>1 DEF DiskLeft
<1>2. CASE UNCHANGED <<disk, keys, ssh, stale>> /\ \E x : ws' = [ws EXCEPT ![n] = x]
  BY <1>0, <1>2 DEF DiskLeft
<1>3. CASE /\ UNCHANGED <<ws, keys>>
           /\ \/ UNCHANGED <<ssh, stale>> /\ \E x : disk' = [disk EXCEPT ![d] = x]
              \/ Deleted(d)
  BY <1>0, <1>3 DEF DiskLeft, Deleted
<1>4. CASE /\ UNCHANGED <<disk, ws>>
           /\ keys' \in {keys, keys \union {n}, keys \ {n}}
           /\ \/ UNCHANGED ssh /\ stale \subseteq stale'
              \/ \E e \in Dirs, x \in {n, None} :
                     ssh' = [ssh EXCEPT ![e] = x] /\ stale' = stale \ {e}
  BY <1>0, <1>4 DEF DiskLeft
<1>5. CASE UNCHANGED <<disk, ws, keys, ssh>> /\ stale \subseteq stale'
  BY <1>5 DEF DiskLeft
<1>6. CASE Onboards(r)
  <2>1. CASE MakeRepository(r)
    BY <1>1, <1>3, <2>1 DEF MakeRepository
  <2>2. CASE ConnectGithub(r)
    BY <1>0, <1>4, <2>2 DEF ConnectGithub, MintFails, Uses
  <2>3. CASE Detect(r) \/ ReadToAdd(r) \/ WriteAdded(r) \/ Load(r) \/ Restore(r) \/ Undo(r)
    BY <1>1, <2>3 DEF Detect, ReadToAdd, WriteAdded, Load, Restore, Undo, diskVars
  <2>4. CASE CreateWorktree(r)
    BY <1>1, <1>2, <2>4 DEF CreateWorktree, Worktree, Tears
  <2>5. CASE Rollback(r)
    BY <1>1, <1>3, <1>5, <2>5 DEF Rollback
  <2> QED
    BY <1>6, <2>1, <2>2, <2>3, <2>4, <2>5 DEF Onboards
<1>7. CASE Removes(r)
  <2>1. CASE Collect(r) \/ Purge(r) \/ WriteDropped(r)
    BY <1>1, <2>1 DEF Collect, Purge, WriteDropped, diskVars
  <2>2. CASE Detach(r)
    BY <1>1, <1>2, <2>2 DEF Detach, Tears
  <2>3. CASE ReadToDrop(r)
    <3>1. UNCHANGED <<disk, ws>> /\ (Unmint(n, d) \/ UnmintFails(n, d))
      BY <2>3 DEF ReadToDrop
    <3> QED
      BY <1>0, <1>4, <3>1 DEF Unmint, UnmintFails, Unpointed
  <2>4. CASE Erase(r)
    BY <1>1, <1>3, <2>4 DEF Erase
  <2> QED
    BY <1>7, <2>1, <2>2, <2>3, <2>4 DEF Removes
<1>8. CASE Moves(r)
  <2>1. CASE MoveChecks(r)
    BY <1>1, <2>1 DEF MoveChecks, diskVars
  <2>2. CASE Unhook(r) \/ Rehook(r) \/ PutBack(r)
    BY <1>1, <1>2, <2>2 DEF Unhook, Rehook, PutBack, Worktree, Tears
  <2>3. CASE Point(r)
    BY <1>5, <2>3 DEF Point, diskVars
  <2>4. CASE FollowKey(r)
    <3>1. req[r].to \in Dirs
      BY <2>4, AtWork DEF FollowKey, Typed
    <3> QED
      BY <1>0, <1>4, <2>4, <3>1 DEF FollowKey, Uses
  <2> QED
    BY <1>8, <2>1, <2>2, <2>3, <2>4 DEF Moves
<1>9. CASE Changes(r)
  <2>1. CASE ChangeKey(r)
    <3>1. /\ UNCHANGED <<disk, ws>>
          /\ Mint(n, d) \/ MintFails(n, d) \/ Unmint(n, d) \/ UnmintFails(n, d)
      BY <2>1 DEF ChangeKey
    <3> QED
      BY <1>0, <1>4, <3>1 DEF Mint, MintFails, Uses, Unmint, UnmintFails, Unpointed
  <2>2. CASE ReadToFill(r) \/ WriteFilled(r)
    BY <1>1, <2>2 DEF ReadToFill, WriteFilled, diskVars
  <2> QED
    BY <1>9, <2>1, <2>2 DEF Changes
<1> QED
  BY <1>6, <1>7, <1>8, <1>9 DEF Proceeds

\* The file: another project's entry stays or is nobody's promise any more; what the
\* process knows it knows from the file.
FileLeft(r) ==
    /\ \A m \in Names : m # req[r].name => file'[m] = file[m] \/ m \in NotPromised'
    /\ \A o \in Requests : o # r => snap'[o] = snap[o]
    /\ known' \in {known, file, file'}
    /\ excused \subseteq excused' /\ vanished \subseteq vanished'
    /\ UNCHANGED task /\ slipped \subseteq slipped'

LEMMA RewriteLeft ==
    ASSUME Typed, NEW r \in Requests, NEW op, NEW entry, req[r].name \in Names,
           Rewrites(r, req[r].name, op, entry), known' \in {known, file'}, UNCHANGED excused,
           UNCHANGED taskVars
    PROVE  FileLeft(r)
<1> PICK n \in Names : n = req[r].name
  OBVIOUS
<1>1. file \in Copies /\ snap \in [Requests -> Copies]
  BY DEF Typed, FileTyped
<1>2. /\ \A m \in Names : m # n => file'[m] = snap[r][m]
      /\ vanished' = vanished \union
             {<<op, wrote[m], m>> : m \in {k \in Names \ {n} : file[k] # snap[r][k]}}
      /\ \A o \in Requests : o # r => snap'[o] = snap[o]
  BY <1>1 DEF Rewrites, Copies
<1>3. ASSUME NEW m \in Names, m # n, file'[m] # file[m] PROVE m \in NotPromised'
  <2>1. PICK v : v = <<op, wrote[m], m>>
    OBVIOUS
  <2>2. v \in vanished' /\ v[3] = m
    BY <1>2, <1>3, <2>1
  <2> QED
    BY <2>2 DEF NotPromised
<1> QED
  BY <1>2, <1>3 DEF FileLeft, taskVars

LEMMA StepFile ==
    ASSUME Typed, NEW r \in Requests, Proceeds(r)
    PROVE  FileLeft(r)
<1> DEFINE n == req[r].name
<1>0. n \in Names /\ file \in Copies /\ snap \in [Requests -> Copies]
  BY StepHops DEF Typed, FileTyped
<1>1. CASE UNCHANGED <<file, snap, vanished, task>> /\ known' \in {known, file}
           /\ excused \subseteq excused' /\ slipped \subseteq slipped'
  BY <1>1 DEF FileLeft
<1>2. CASE UNCHANGED <<file, known, vanished, task, slipped>> /\ excused \subseteq excused'
           /\ snap' = [snap EXCEPT ![r] = file]
  BY <1>0, <1>2 DEF FileLeft
<1>3. CASE Onboards(r)
  <2>1. CASE MakeRepository(r) \/ ConnectGithub(r) \/ Detect(r) \/ CreateWorktree(r)
             \/ Restore(r) \/ Undo(r) \/ Rollback(r)
    BY <1>1, <2>1 DEF MakeRepository, ConnectGithub, Detect, CreateWorktree, Restore, Undo,
                      Rollback, Tears, fileVars, taskVars
  <2>2. CASE ReadToAdd(r)
    BY <1>1, <1>2, <2>2 DEF ReadToAdd, taskVars
  <2>3. CASE WriteAdded(r)
    <3>1. PICK e : e = [live |-> req[r].dir, checks |-> FALSE]
      OBVIOUS
    <3> QED
      BY <1>0, <2>3, <3>1, RewriteLeft DEF WriteAdded
  <2>4. CASE Load(r)
    BY <1>1, <2>4 DEF Load, taskVars
  <2> QED
    BY <1>3, <2>1, <2>2, <2>3, <2>4 DEF Onboards
<1>4. CASE Removes(r)
  <2>1. CASE Collect(r) \/ Purge(r) \/ Detach(r) \/ Erase(r)
    BY <1>1, <2>1 DEF Collect, Purge, Detach, Erase, Tears, fileVars, taskVars
  <2>2. CASE ReadToDrop(r)
    BY <1>1, <1>2, <2>2 DEF ReadToDrop, taskVars
  <2>3. CASE WriteDropped(r)
    BY <1>0, <2>3, RewriteLeft DEF WriteDropped
  <2> QED
    BY <1>4, <2>1, <2>2, <2>3 DEF Removes
<1>5. CASE Moves(r)
  <2>1. CASE MoveChecks(r) \/ Unhook(r) \/ Rehook(r) \/ PutBack(r) \/ FollowKey(r)
    BY <1>1, <2>1 DEF MoveChecks, Unhook, Rehook, PutBack, FollowKey, Tears,
                      fileVars, taskVars
  <2>2. CASE Point(r)
    <3>1. \A m \in Names : m # n => file'[m] = file[m]
      BY <1>0, <2>2 DEF Point, Copies
    <3>2. UNCHANGED <<snap, vanished, task, slipped>> /\ excused \subseteq excused'
      BY <2>2 DEF Point, taskVars
    <3>3. known' \in {known, file'}
      BY <2>2 DEF Point
    <3> QED
      BY <3>1, <3>2, <3>3 DEF FileLeft
  <2> QED
    BY <1>5, <2>1, <2>2 DEF Moves
<1>6. CASE Changes(r)
  <2>1. CASE ChangeKey(r)
    BY <1>1, <2>1 DEF ChangeKey, fileVars, taskVars
  <2>2. CASE ReadToFill(r)
    BY <1>1, <1>2, <2>2 DEF ReadToFill, taskVars
  <2>3. CASE WriteFilled(r)
    <3>1. PICK e : e = [snap[r][n] EXCEPT !.checks = TRUE]
      OBVIOUS
    <3> QED
      BY <1>0, <2>3, <3>1, RewriteLeft DEF WriteFilled
  <2> QED
    BY <1>6, <2>1, <2>2, <2>3 DEF Changes
<1> QED
  BY <1>3, <1>4, <1>5, <1>6 DEF Proceeds

-----------------------------------------------------------------------------
(* Checkouts, workspaces and keys: one project at a time *)

Touches(r) == {req[r].dir, req[r].to} \ {None}

\* Requests that are about one project, or have a checkout in common, excuse their projects.
Apiece ==
    /\ \A r, s \in Requests :
           r # s /\ req[r].name = req[s].name /\ req[r].name # None => req[r].name \in excused
    /\ \A r, s \in Requests :
           req[r].name # req[s].name /\ Touches(r) \cap Touches(s) # {} => req[r].name \in excused
    /\ \A r \in Requests : \A m \in Names \ NotPromised :
           req[r].name \notin {None, m} /\ Configured(m) => file[m].live \notin Touches(r)

\* The checkout d of n, the repository there and the workspace, as far as n has them.
Whole(n, d)    == Configured(n) /\ file[n].live = d /\ disk[d] # 0 /\ ws[n] = disk[d]
Absent(n)      == ~Configured(n) /\ ws[n] = 0
Bare(n, d)     == Configured(n) /\ file[n].live = d /\ disk[d] # 0 /\ ws[n] = 0
Made(n, d)     == ~Configured(n) /\ disk[d] # 0 /\ ws[n] = disk[d]
Moved(n, d, t) == Configured(n) /\ file[n].live = d /\ disk[d] # 0 /\ disk[t] # 0 /\ ws[n] = disk[t]

\* A request that has done nothing to its project.
Resting(q) == q.at = "idle" \/ (q.op = "add" /\ q.at = "detect")

\* What a request q of n has come to: the file and its copy, the places, the key.
Copied(n, q) == known[n] = file[n] \/ (known[n] = None /\ q.at = "load")

Placed(n, q) ==
    /\ Resting(q) => IF Configured(n) THEN Whole(n, file[n].live) ELSE Absent(n)
    /\ q.at \in {"make", "github", "detect", "tree", "undo", "rollback", "erase"}
         => Resting(q) \/ Absent(n)
    /\ q.at \in {"entry", "store"} => Made(n, q.dir)
    /\ q.at \in {"load", "restore", "collect", "purge", "detach", "parked", "unhook", "key",
                 "read", "fill"} => Whole(n, q.dir)
    /\ q.at \in {"entries", "drop", "rehook", "putback"} => Bare(n, q.dir)
    /\ q.at = "point" => Moved(n, q.dir, q.to)
    /\ q.at = "follow" => Whole(n, q.to)

NoKey(n)    == \A e \in Dirs \ stale : ssh[e] # n
KeyAt(n, d) == \A e \in Dirs \ stale : ssh[e] = n => e = d /\ n \in keys

OwnKey(n, q) == IF q.op = "create" /\ q.flag THEN KeyAt(n, q.dir) ELSE NoKey(n)

Keyed(n, q) ==
    /\ Resting(q) => IF Configured(n) THEN KeyAt(n, file[n].live) ELSE NoKey(n)
    /\ q.at \in {"make", "github", "drop", "erase", "follow"} => NoKey(n)
    /\ q.at \in {"detect", "tree", "undo", "entry", "store", "rollback"}
         => Resting(q) \/ OwnKey(n, q)
    /\ q.at \in {"load", "restore", "collect", "purge", "detach", "entries", "parked", "unhook",
                 "rehook", "putback", "point", "key", "read", "fill"} => KeyAt(n, q.dir)

Stands(n, q) == Copied(n, q) /\ Placed(n, q) /\ Keyed(n, q)

\* What a request is going to write back has the project as the file has it.
Fresh(n, r) == req[r].at \in {"drop", "fill"} => snap[r][n] = file[n]

Settled(n) ==
    /\ \A r \in Requests : \A q \in {req[r]} : q.name = n => Stands(n, q) /\ Fresh(n, r)
    /\ ~Active(n) => Stands(n, Idle)

\* A task is under way in what is configured, and nobody takes it away.
Housed(n) ==
    task[n] \in {"new", "fresh", "working"} /\ n \notin slipped => Configured(n) /\ ~Leaves(n)

PlaceIInv == Typed /\ Apiece /\ \A n \in Names \ NotPromised : Settled(n) /\ Housed(n)

\* A step that leaves project n alone.
Apart(n) ==
    /\ \A o \in Requests : req[o].name = n \/ req'[o].name = n => req'[o] = req[o] /\ snap'[o] = snap[o]
    /\ file'[n] = file[n] /\ ws'[n] = ws[n] /\ (n \in keys' <=> n \in keys)
    /\ \A e \in Dirs \ stale' : ssh'[e] = n => e \notin stale /\ ssh[e] = n
    /\ known'[n] \in {known[n], file[n]}
    /\ \A e \in Dirs : /\ disk[e] # 0
                       /\ \/ Configured(n) /\ e = file[n].live
                          \/ \E o \in Requests : req[o].name = n /\ e \in Touches(o)
                       => disk'[e] = disk[e]

LEMMA StandsApart ==
    ASSUME Typed, NEW n \in Names, NEW q, q \in Requestings, Fits(q), Apart(n), Stands(n, q),
           q # Idle => \E o \in Requests : req[o] = q /\ q.name = n
    PROVE  Stands(n, q)'
<1>0. /\ Configured(n)' <=> Configured(n)
      /\ Configured(n) => file[n].live \in Dirs
      /\ q.at # "idle" => q.dir \in Dirs
      /\ q.at \in {"point", "follow"} => q.to \in Dirs
  BY EntryType DEF Apart, Configured, Typed, FileTyped, Copies, Requestings, Fits, Allowed
<1>1. \A e \in Dirs : /\ disk[e] # 0
                      /\ (Configured(n) /\ e = file[n].live) \/ (q.at # "idle" /\ e \in {q.dir, q.to})
                      => disk'[e] = disk[e]
  <2>1. CASE q = Idle
    BY <2>1 DEF Apart, Idle
  <2>2. CASE q # Idle
    <3>1. PICK o \in Requests : req[o] = q /\ q.name = n
      BY <2>2
    <3>2. \A e \in Dirs : e # None
      BY ConstantsAssumption
    <3> QED
      BY <3>1, <3>2 DEF Apart, Touches
  <2> QED
    BY <2>1, <2>2
<1>2. Copied(n, q)'
  BY DEF Apart, Stands, Copied
<1>3. Placed(n, q)'
  <2>1. \A d \in Dirs : d = file[n].live /\ Whole(n, d) => Whole(n, d)'
    BY <1>0, <1>1 DEF Apart, Whole
  <2>2. \A d \in Dirs : q.at # "idle" /\ d \in {q.dir, q.to} =>
            /\ Whole(n, d) => Whole(n, d)'
            /\ Bare(n, d) => Bare(n, d)'
            /\ Made(n, d) => Made(n, d)'
    BY <1>0, <1>1 DEF Apart, Whole, Bare, Made
  <2>3. Absent(n) => Absent(n)'
    BY <1>0 DEF Apart, Absent
  <2>4. q.at = "point" /\ Moved(n, q.dir, q.to) => Moved(n, q.dir, q.to)'
    BY <1>0, <1>1 DEF Apart, Moved
  <2>5. file'[n] = file[n]
    BY DEF Apart
  <2>6. Placed(n, q)
    BY DEF Stands
  <2>7. (Resting(q) => IF Configured(n) THEN Whole(n, file[n].live) ELSE Absent(n))'
    <3>1. PICK d : d = file[n].live
      OBVIOUS
    <3>2. Resting(q) /\ Configured(n) => Whole(n, d)'
      BY <1>0, <2>1, <2>6, <3>1 DEF Placed
    <3>3. Resting(q) /\ ~Configured(n) => Absent(n)'
      BY <2>3, <2>6 DEF Placed
    <3> QED
      BY <1>0, <2>5, <3>1, <3>2, <3>3 DEF Whole, Resting
  <2> QED
    BY <1>0, <2>2, <2>3, <2>4, <2>6, <2>7 DEF Placed, Whole, Bare, Made, Moved, Absent, Resting
<1>4. Keyed(n, q)'
  <2>1. NoKey(n) => NoKey(n)'
    BY DEF Apart, NoKey
  <2>2. \A d : KeyAt(n, d) => KeyAt(n, d)'
    BY DEF Apart, KeyAt
  <2>3. file'[n] = file[n]
    BY DEF Apart
  <2>4. Keyed(n, q)
    BY DEF Stands
  <2> QED
    BY <1>0, <2>1, <2>2, <2>3, <2>4 DEF Keyed, OwnKey, KeyAt, NoKey, Resting
<1> QED
  BY <1>2, <1>3, <1>4 DEF Stands

LEMMA SettledApart ==
    ASSUME Typed, NEW n \in Names, Apart(n), Settled(n)
    PROVE  Settled(n)'
<1>1. ASSUME NEW r \in Requests, NEW q \in {req'[r]}, q.name = n
      PROVE  Stands(n, q)' /\ Fresh(n, r)'
  <2>1. req'[r] = req[r] /\ snap'[r] = snap[r] /\ q = req[r]
    BY <1>1 DEF Apart
  <2>2. Stands(n, q) /\ Fresh(n, r)
    BY <1>1, <2>1 DEF Settled
  <2>3. q \in Requestings /\ Fits(q)
    BY <2>1 DEF Typed, ReqTyped
  <2>4. Stands(n, q)'
    BY <1>1, <2>1, <2>2, <2>3, StandsApart
  <2>5. Fresh(n, r)'
    BY <2>1, <2>2 DEF Fresh, Apart
  <2> QED
    BY <2>4, <2>5
<1>2. ASSUME ~Active(n)' PROVE Stands(n, Idle)'
  <2>1. ~Active(n)
    BY <1>2 DEF Active, Apart
  <2>2. Stands(n, Idle)
    BY <2>1 DEF Settled
  <2> QED
    BY <2>2, IdleFits, StandsApart
<1> QED
  BY <1>1, <1>2 DEF Settled

\* A request's step leaves every other project alone that keeps its promise.
LEMMA OthersApart ==
    ASSUME PlaceIInv, NEW r \in Requests, Proceeds(r), NEW n \in Names, n \notin NotPromised',
           n # req[r].name
    PROVE  Apart(n) /\ n \notin NotPromised
<1>1. /\ Typed /\ Hopped(r) /\ req[r].name \in Names /\ req[r].dir \in Dirs
      /\ DiskLeft(r) /\ FileLeft(r)
  BY StepHops, StepDisk, StepFile DEF PlaceIInv
<1>2. n \notin NotPromised
  BY <1>1 DEF FileLeft, NotPromised
<1>3. file'[n] = file[n]
  BY <1>1 DEF FileLeft
<1>4. \A o \in Requests : req[o].name = n \/ req'[o].name = n => o # r
  <2>1. None \notin Names
    BY ConstantsAssumption
  <2> QED
    BY <1>1, <2>1 DEF Hopped, Idle
<1>5. \A o \in Requests : req[o].name = n \/ req'[o].name = n =>
          req'[o] = req[o] /\ snap'[o] = snap[o]
  BY <1>1, <1>4 DEF Hopped, FileLeft
<1>6. req[r].dir \in Touches(r)
  BY <1>1, ConstantsAssumption DEF Touches
<1>7. Configured(n) => file[n].live # req[r].dir
  <2>1. req[r].name \notin {None, n}
    BY <1>1, ConstantsAssumption
  <2> QED
    BY <1>2, <1>6, <2>1 DEF PlaceIInv, Apiece
<1>8. \A o \in Requests : req[o].name = n => req[r].dir \notin Touches(o)
  BY <1>2, <1>6 DEF PlaceIInv, Apiece, NotPromised
<1>9. known'[n] \in {known[n], file[n]}
  BY <1>1, <1>3 DEF FileLeft
<1>10. \A e \in Dirs : /\ disk[e] # 0
                       /\ \/ Configured(n) /\ e = file[n].live
                          \/ \E o \in Requests : req[o].name = n /\ e \in Touches(o)
                       => disk'[e] = disk[e]
  BY <1>1, <1>7, <1>8 DEF DiskLeft
<1> QED
  BY <1>1, <1>2, <1>3, <1>5, <1>9, <1>10 DEF Apart, DiskLeft

-----------------------------------------------------------------------------
(* Who shares a project or a checkout is excused *)

\* What a request makes of its own project's entry: gone, or of a checkout it is about.
LEMMA OwnEntry ==
    ASSUME PlaceIInv, NEW r \in Requests, Proceeds(r), NEW n \in Names, n = req[r].name,
           n \notin NotPromised', file'[n] # None
    PROVE  file'[n].live \in Touches(r) \/ (Configured(n) /\ file'[n].live = file[n].live)
<1>0. /\ Typed /\ n \notin NotPromised /\ file \in Copies /\ snap \in [Requests -> Copies]
      /\ req[r].dir \in Touches(r)
  BY StepHops, StepFile, ConstantsAssumption
     DEF PlaceIInv, FileLeft, NotPromised, Typed, FileTyped, Touches
<1>1. CASE WriteAdded(r)
  BY <1>0, <1>1 DEF WriteAdded, Rewrites, Copies
<1>2. CASE WriteDropped(r)
  BY <1>0, <1>2 DEF WriteDropped, Rewrites, Copies
<1>3. CASE Point(r)
  <2>1. req[r].to \in Touches(r)
    BY <1>0, <1>3, AtWork, ConstantsAssumption DEF Point, Typed, Touches
  <2>2. \/ file'[n] = file[n]
        \/ file' = [file EXCEPT ![n].live = req[r].to] /\ Configured(n)
    BY <1>3 DEF Point
  <2>3. CASE file' = [file EXCEPT ![n].live = req[r].to] /\ Configured(n)
    <3>1. file'[n].live = req[r].to
      BY <1>0, <2>3, EntryType DEF Copies, Configured, Entries
    <3> QED
      BY <2>1, <3>1
  <2> QED
    BY <2>2, <2>3 DEF Configured
<1>4. CASE WriteFilled(r)
  <2>1. req[r].at = "fill" /\ snap[r][n] # None
    BY <1>0, <1>4 DEF WriteFilled, Typed, FillInv
  <2>2. Settled(n)
    BY <1>0 DEF PlaceIInv
  <2>3. snap[r][n] = file[n]
    BY <2>1, <2>2 DEF Settled, Fresh
  <2>4. PICK e : e = snap[r][n]
    OBVIOUS
  <2>5. e \in Entries
    BY <1>0, <2>1, <2>4 DEF Copies
  <2>6. file'[n] = [e EXCEPT !.checks = TRUE]
    BY <1>0, <1>4, <2>4 DEF WriteFilled, Rewrites, Copies
  <2>7. file'[n].live = e.live
    BY <2>5, <2>6 DEF Entries
  <2> QED
    BY <2>1, <2>3, <2>4, <2>7 DEF Configured
<1>5. CASE UNCHANGED file
  BY <1>5 DEF Configured
<1>6. CASE Onboards(r)
  BY <1>1, <1>5, <1>6 DEF Onboards, MakeRepository, ConnectGithub, Detect, CreateWorktree,
     ReadToAdd, Load, Restore, Undo, Rollback, fileVars
<1>7. CASE Removes(r)
  BY <1>2, <1>5, <1>7 DEF Removes, Collect, Purge, Detach, ReadToDrop, Erase, fileVars
<1>8. CASE Moves(r)
  BY <1>3, <1>5, <1>8 DEF Moves, MoveChecks, Unhook, Rehook, PutBack, FollowKey, fileVars
<1>9. CASE Changes(r)
  BY <1>4, <1>5, <1>9 DEF Changes, ChangeKey, ReadToFill, fileVars
<1> QED
  BY <1>6, <1>7, <1>8, <1>9 DEF Proceeds

LEMMA ProceedsApiece ==
    ASSUME PlaceIInv, NEW r \in Requests, Proceeds(r)
    PROVE  Apiece'
<1>0. /\ Typed /\ Apiece /\ Hopped(r) /\ FileLeft(r) /\ excused \subseteq excused'
      /\ req[r].name \in Names /\ None \notin Names
  BY StepHops, StepFile, ConstantsAssumption DEF PlaceIInv, FileLeft
<1>1. \A o \in Requests :
          \/ /\ req'[o].name = req[o].name /\ req'[o].dir = req[o].dir
             /\ req'[o].to = req[o].to
          \/ o = r /\ req'[o].name = None /\ req'[o].dir = None /\ req'[o].to = None
  BY <1>0 DEF Hopped, Idle
<1>2. \A o \in Requests : \/ req'[o].name = req[o].name /\ Touches(o)' = Touches(o)
                          \/ o = r /\ req'[o].name = None /\ Touches(o)' = {}
  BY <1>1 DEF Touches
<1>3. ASSUME NEW o \in Requests, NEW s \in Requests,
             o # s, req'[o].name = req'[s].name, req'[o].name # None
      PROVE  req'[o].name \in excused'
  BY <1>0, <1>1, <1>3 DEF Apiece
<1>4. ASSUME NEW o \in Requests, NEW s \in Requests,
             req'[o].name # req'[s].name, Touches(o)' \cap Touches(s)' # {}
      PROVE  req'[o].name \in excused'
  BY <1>0, <1>2, <1>4 DEF Apiece
<1>5. ASSUME NEW o \in Requests, NEW m \in Names \ NotPromised',
             req'[o].name \notin {None, m}, Configured(m)'
      PROVE  file'[m].live \notin Touches(o)'
  <2>1. req'[o].name = req[o].name /\ Touches(o)' = Touches(o)
    BY <1>2, <1>5
  <2>2. m \notin NotPromised
    BY <1>0 DEF FileLeft, NotPromised
  <2>3. Configured(m) => file[m].live \notin Touches(o)
    BY <1>0, <1>5, <2>1, <2>2 DEF Apiece
  <2>4. CASE m # req[r].name
    <3>1. file'[m] = file[m]
      BY <1>0, <2>4 DEF FileLeft
    <3> QED
      BY <1>5, <2>1, <2>3, <3>1 DEF Configured
  <2>5. CASE m = req[r].name
    <3>1. \/ file'[m].live \in Touches(r)
          \/ Configured(m) /\ file'[m].live = file[m].live
      BY <1>5, <2>5, OwnEntry DEF Configured
    <3>2. Touches(r) \cap Touches(o) = {}
      BY <1>0, <1>5, <2>1, <2>2, <2>5 DEF Apiece, NotPromised
    <3> QED
      BY <2>1, <2>3, <3>1, <3>2
  <2> QED
    BY <2>4, <2>5
<1> QED
  BY <1>3, <1>4, <1>5 DEF Apiece

LEMMA BeginApiece ==
    ASSUME PlaceIInv, NEW r \in Requests, NEW op \in Ops, NEW n \in Names, NEW d \in Dirs,
           NEW to \in Dirs \union {None}, NEW flag \in BOOLEAN, NEW at \in Plain,
           Begun(r, op, n, d, to, flag, at)
    PROVE  /\ Apiece' /\ UNCHANGED <<diskVars, fileVars, task, stale>>
           /\ slipped \subseteq slipped'
           /\ op \in {"remove", "erase"} /\ task[n] = "new" => n \in slipped'
           /\ excused \subseteq excused'
           /\ n \notin excused' => ~Active(n)
<1> DEFINE S == {d, to} \ {None}
<1>0. /\ Typed /\ Apiece /\ None \notin Names /\ req[r] = Idle
      /\ req'[r].name = n /\ req'[r].dir = d /\ req'[r].to = to
      /\ \A o \in Requests : o # r => req'[o] = req[o]
  BY BegunReq, ConstantsAssumption DEF PlaceIInv, Typed
<1>1. /\ UNCHANGED <<diskVars, fileVars, task, stale>>
      /\ slipped' = IF op \in {"remove", "erase"} /\ task[n] = "new"
                    THEN slipped \union {n} ELSE slipped
      /\ excused' = IF Active(n) \/ Sharing(n, S) # {}
                    THEN excused \union Sharing(n, S) \union {n} ELSE excused
  BY DEF Begun, Begins
<1>2. /\ excused \subseteq excused' /\ (n \notin excused' => ~Active(n))
      /\ Sharing(n, S) \subseteq excused' /\ (Sharing(n, S) # {} => n \in excused')
  BY <1>1
<1>3. file' = file /\ vanished' = vanished
  BY <1>1 DEF fileVars
<1>4. \A o \in Requests : o # r => Touches(o)' = Touches(o)
  BY <1>0 DEF Touches
<1>5. Touches(r)' = S
  BY <1>0 DEF Touches
<1>6. ASSUME NEW o \in Requests, req[o].name # n, S \cap Touches(o) # {}
      PROVE  req[o].name \in Sharing(n, S)
  <2>1. req[o].name \in Names
    <3>1. req[o].at # "idle"
      BY <1>0, <1>6 DEF Typed, ReqTyped, Fits, Touches, Idle
    <3> QED
      BY <1>0, <3>1, AtWork DEF Typed
  <2>2. S \cap {req[o].dir, req[o].to} # {}
    BY <1>6 DEF Touches
  <2> QED
    BY <1>6, <2>1, <2>2 DEF Sharing
<1>7. \A m \in Names \ {n} : Configured(m) /\ file[m].live \in S => m \in Sharing(n, S)
  BY DEF Sharing
<1>8. ASSUME NEW o \in Requests, NEW s \in Requests,
             o # s, req'[o].name = req'[s].name, req'[o].name # None
      PROVE  req'[o].name \in excused'
  <2>1. CASE o = r \/ s = r
    BY <1>0, <1>2, <1>8, <2>1 DEF Active
  <2>2. CASE o # r /\ s # r
    BY <1>0, <1>2, <1>8, <2>2 DEF Apiece
  <2> QED
    BY <2>1, <2>2
<1>9. ASSUME NEW o \in Requests, NEW s \in Requests,
             req'[o].name # req'[s].name, Touches(o)' \cap Touches(s)' # {}
      PROVE  req'[o].name \in excused'
  <2>1. CASE o = r
    <3>1. s # r /\ S \cap Touches(s) # {} /\ req[s].name # n
      BY <1>0, <1>4, <1>5, <1>9, <2>1
    <3> QED
      BY <1>0, <1>2, <1>6, <2>1, <3>1
  <2>2. CASE s = r
    <3>1. o # r /\ S \cap Touches(o) # {} /\ req[o].name # n
      BY <1>0, <1>4, <1>5, <1>9, <2>2
    <3> QED
      BY <1>0, <1>2, <1>6, <3>1
  <2>3. CASE o # r /\ s # r
    BY <1>0, <1>2, <1>4, <1>9, <2>3 DEF Apiece
  <2> QED
    BY <2>1, <2>2, <2>3
<1>10. ASSUME NEW o \in Requests, NEW m \in Names \ NotPromised',
              req'[o].name \notin {None, m}, Configured(m)'
       PROVE  file'[m].live \notin Touches(o)'
  <2>1. m \notin excused' /\ m \notin NotPromised /\ Configured(m)
    BY <1>2, <1>3, <1>10 DEF NotPromised, Configured
  <2>2. CASE o = r
    BY <1>0, <1>2, <1>3, <1>5, <1>7, <1>10, <2>1, <2>2
  <2>3. CASE o # r
    BY <1>0, <1>3, <1>4, <1>10, <2>1, <2>3 DEF Apiece
  <2> QED
    BY <2>2, <2>3
<1> QED
  BY <1>1, <1>2, <1>8, <1>9, <1>10 DEF Apiece

LEMMA ApieceStep == PlaceIInv /\ [Next]_vars => Apiece'
<1> SUFFICES ASSUME PlaceIInv, [Next]_vars PROVE Apiece'
  OBVIOUS
<1>1. ASSUME NEW r \in Requests, Begin(r) PROVE Apiece'
  BY <1>1, BeginBegun, BeginApiece DEF PlaceIInv
<1>2. ASSUME NEW r \in Requests, Onboards(r) \/ Removes(r) \/ Moves(r) \/ Changes(r)
      PROVE  Apiece'
  BY <1>2, ProceedsApiece DEF Proceeds
<1>3. CASE UNCHANGED <<req, file, vanished, excused>>
  BY <1>3 DEF PlaceIInv, Apiece, Touches, NotPromised, Configured
<1>4. ASSUME NEW n \in Names, Around(n) PROVE Apiece'
  BY <1>3, <1>4 DEF Around, StartTask, TaskSaved, TaskWorks, TaskRests, MapBuilt, fileVars
<1>5. CASE Crash
  <2>1. \A r \in Requests : req'[r].name = None /\ Touches(r)' = {}
    BY <1>5 DEF Crash, Idle, Touches
  <2> QED
    BY <2>1 DEF Apiece
<1>6. CASE UNCHANGED vars
  BY <1>3, <1>6 DEF vars
<1> QED
  BY <1>1, <1>2, <1>4, <1>5, <1>6 DEF Next

-----------------------------------------------------------------------------
(* What a request makes of its own project *)

LEMMA HopsTo ==
    ASSUME ReqTyped, NEW r \in Requests, NEW at, Goes(r, at)
    PROVE  /\ req'[r].at = at /\ req'[r].op = req[r].op /\ req'[r].name = req[r].name
           /\ req'[r].dir = req[r].dir /\ req'[r].to = req[r].to
           /\ req'[r].flag = req[r].flag
BY DEF ReqTyped, Requestings, Goes

\* The ways a request stands in its project.
LEMMA AbsentStands ==
    ASSUME NEW n \in Names, NEW q, Absent(n)', known'[n] = file'[n],
           q.at \in {"idle", "make", "github", "detect", "tree", "undo", "rollback", "erase"},
           \/ NoKey(n)'
           \/ q.at \in {"detect", "tree", "undo", "rollback"} /\ q.op = "create" /\ OwnKey(n, q)'
    PROVE  Stands(n, q)'
<1>1. ~Configured(n)'
  BY DEF Absent
<1>2. Copied(n, q)' /\ Placed(n, q)'
  BY <1>1 DEF Copied, Placed
<1>3. Keyed(n, q)'
  BY <1>1 DEF Keyed, Resting, OwnKey, KeyAt, NoKey
<1> QED
  BY <1>2, <1>3 DEF Stands

LEMMA MadeStands ==
    ASSUME NEW n \in Names, NEW q, Made(n, q.dir)', known'[n] = file'[n],
           q.at \in {"entry", "store"}, OwnKey(n, q)'
    PROVE  Stands(n, q)'
BY DEF Stands, Copied, Placed, Keyed, Resting

LEMMA WholeStands ==
    ASSUME NEW n \in Names, NEW q, NEW d, Whole(n, d)', KeyAt(n, d)',
           known'[n] = file'[n] \/ (known'[n] = None /\ q.at = "load"),
           \/ q.at = "idle"
           \/ /\ d = q.dir
              /\ q.at \in {"load", "restore", "collect", "purge", "detach", "parked", "unhook",
                           "key", "read", "fill"}
    PROVE  Stands(n, q)'
<1>1. Configured(n)' /\ file'[n].live = d
  BY DEF Whole
<1>2. (Whole(n, file[n].live) /\ KeyAt(n, file[n].live))'
  BY <1>1 DEF Whole, KeyAt
<1>3. Copied(n, q)' /\ Placed(n, q)'
  BY <1>1, <1>2 DEF Copied, Placed
<1>4. Keyed(n, q)'
  BY <1>1, <1>2 DEF Keyed, Resting
<1> QED
  BY <1>3, <1>4 DEF Stands

LEMMA BareStands ==
    ASSUME NEW n \in Names, NEW q, Bare(n, q.dir)', known'[n] = file'[n],
           \/ q.at \in {"entries", "rehook", "putback"} /\ KeyAt(n, q.dir)'
           \/ q.at = "drop" /\ NoKey(n)'
    PROVE  Stands(n, q)'
BY DEF Stands, Copied, Placed, Keyed, Resting

\* The other way round: what is known of a project whose request is at a place.
LEMMA Standing ==
    ASSUME PlaceIInv, NEW r \in Requests, NEW n \in Names, n = req[r].name,
           NEW p, p = req[r], n \notin NotPromised
    PROVE  /\ Stands(n, p) /\ Fresh(n, r) /\ p \in Requestings /\ Fits(p)
           /\ p.at # "load" => known[n] = file[n]
           /\ \A o \in Requests : o # r => req[o].name # n
<1>1. Settled(n) /\ Typed /\ Apiece /\ None \notin Names
  BY ConstantsAssumption DEF PlaceIInv
<1>2. Stands(n, p) /\ Fresh(n, r)
  BY <1>1 DEF Settled
<1>3. p \in Requestings /\ Fits(p)
  BY <1>1 DEF Typed, ReqTyped
<1>4. \A o \in Requests : o # r => req[o].name # n
  BY <1>1 DEF Apiece, NotPromised
<1> QED
  BY <1>2, <1>3, <1>4 DEF Stands, Copied

LEMMA OnboardsStands ==
    ASSUME PlaceIInv, NEW r \in Requests, NEW n \in Names, n = req[r].name, n \notin NotPromised,
           n \notin excused', NEW p, p = req[r], NEW q, q = req'[r], Onboards(r)
    PROVE  Stands(n, q)'
<1> PICK d : d = p.dir
  OBVIOUS
<1>0. /\ ReqTyped /\ Stands(n, p) /\ None \notin Names
      /\ p.at # "load" => known[n] = file[n]
      /\ file \in Copies /\ known \in Copies
      /\ disk \in [Dirs -> 0..MaxRepos] /\ ws \in [Names -> 0..Torn]
      /\ ssh \in [Dirs -> Names \union {None}]
      /\ p.at # "idle" => d \in Dirs
      /\ Allowed(p, p.at)
  BY Standing, AtWork, ConstantsAssumption DEF PlaceIInv, Typed, DiskTyped, FileTyped, Fits
<1>1. Placed(n, p) /\ Keyed(n, p)
  BY <1>0 DEF Stands
<1>2. \A at : Goes(r, at) => /\ q.at = at /\ q.op = p.op /\ q.dir = d /\ q.flag = p.flag
  BY <1>0, HopsTo
<1>3. Ends(r) => q.at = "idle"
  BY <1>0, ItEnds DEF Idle
<1>4. CASE MakeRepository(r)
  <2>1. Absent(n) /\ NoKey(n) /\ known[n] = file[n]
    BY <1>0, <1>1, <1>4 DEF MakeRepository, Placed, Keyed, Resting
  <2>2. Absent(n)' /\ NoKey(n)' /\ known'[n] = file'[n]
    BY <1>4, <2>1 DEF MakeRepository, fileVars, Absent, Configured, NoKey
  <2>3. q.at \in {"idle", "github", "detect"}
    BY <1>2, <1>3, <1>4 DEF MakeRepository
  <2> QED
    BY <2>2, <2>3, AbsentStands
<1>5. CASE ConnectGithub(r)
  <2>1. /\ Absent(n) /\ NoKey(n) /\ known[n] = file[n]
        /\ p.op = "create" /\ p.flag /\ d \in Dirs /\ p.at = "github"
    BY <1>0, <1>1, <1>5 DEF ConnectGithub, Placed, Keyed, Resting, Allowed
  <2>2. Absent(n)' /\ known'[n] = file'[n]
    BY <1>5, <2>1 DEF ConnectGithub, fileVars, Absent, Configured
  <2>3. CASE /\ keys' = keys \union {n} /\ Goes(r, "detect")
             /\ Uses(n, d) \/ UNCHANGED <<ssh, stale>>
    <3>1. q.at = "detect" /\ q.op = "create" /\ q.flag /\ q.dir = d
      BY <1>2, <2>1, <2>3
    <3>2. KeyAt(n, d)'
      BY <1>0, <2>1, <2>3 DEF Uses, NoKey, KeyAt
    <3>3. OwnKey(n, q)'
      BY <3>1, <3>2 DEF OwnKey
    <3> QED
      BY <2>2, <3>1, <3>3, AbsentStands
  <2>4. CASE UNCHANGED ssh /\ stale \subseteq stale' /\ q.at = "detect"
    <3>1. NoKey(n)'
      BY <2>1, <2>4 DEF NoKey
    <3> QED
      BY <2>2, <2>4, <3>1, AbsentStands
  <2>5. CASE MintFails(n, d) /\ Goes(r, "detect")
    BY <1>2, <2>4, <2>5 DEF MintFails
  <2>6. CASE /\ \E created \in BOOLEAN : req' = [req EXCEPT ![r].at = "detect", ![r].flag = created]
             /\ UNCHANGED <<keys, ssh, stale>>
    <3>1. q.at = "detect"
      BY <1>0, <2>6 DEF ReqTyped, Requestings
    <3> QED
      BY <2>4, <2>6, <3>1
  <2> QED
    BY <1>5, <2>3, <2>5, <2>6 DEF ConnectGithub
<1>6. CASE Detect(r)
  <2>1. p.at = "detect" /\ known[n] = file[n] /\ d \in Dirs
    BY <1>0, <1>6 DEF Detect
  <2>2. UNCHANGED <<disk, ws, keys, ssh, stale, file, known>>
    BY <1>6 DEF Detect, diskVars, fileVars
  <2>3. CASE p.op = "add" /\ Configured(n)
    <3>1. q.at = "idle"
      BY <1>3, <1>6, <2>1, <2>3 DEF Detect, Configured
    <3>2. PICK e : e = file[n].live
      OBVIOUS
    <3>3. Whole(n, e) /\ KeyAt(n, e)
      BY <1>1, <2>1, <2>3, <3>2 DEF Placed, Keyed, Resting
    <3>4. Whole(n, e)' /\ KeyAt(n, e)'
      BY <2>2, <3>3 DEF Whole, KeyAt, Configured
    <3> QED
      BY <2>1, <2>2, <3>1, <3>4, WholeStands
  <2>4. CASE ~(p.op = "add" /\ Configured(n))
    <3>1. Absent(n)
      BY <1>1, <2>1, <2>4 DEF Placed, Resting
    <3>2. Absent(n)' /\ known'[n] = file'[n]
      BY <2>1, <2>2, <3>1 DEF Absent, Configured
    <3>3. \/ q.at = "idle" /\ p.op # "create"
          \/ q.at \in {"tree", "rollback"} /\ q.op = p.op /\ q.dir = d /\ q.flag = p.flag
      BY <1>2, <1>3, <1>6 DEF Detect
    <3>4. NoKey(n) \/ (p.op = "create" /\ p.flag /\ KeyAt(n, d))
      BY <1>1, <2>1, <2>4, <3>1 DEF Keyed, Resting, OwnKey, Absent
    <3>5. NoKey(n)' \/ (p.op = "create" /\ p.flag /\ KeyAt(n, d)')
      BY <2>2, <3>4 DEF NoKey, KeyAt
    <3>6. NoKey(n)' \/ (q.at \in {"tree", "rollback"} /\ q.op = "create" /\ OwnKey(n, q)')
      BY <3>3, <3>5 DEF OwnKey
    <3> QED
      BY <3>2, <3>3, <3>6, AbsentStands
  <2> QED
    BY <2>3, <2>4
<1>7. CASE CreateWorktree(r)
  <2>1. /\ p.at = "tree" /\ known[n] = file[n] /\ d \in Dirs
        /\ Absent(n) /\ OwnKey(n, p)
    BY <1>0, <1>1, <1>7 DEF CreateWorktree, Placed, Keyed, Resting
  <2>2. UNCHANGED <<disk, keys, ssh, stale, file, known>>
    BY <1>7 DEF CreateWorktree, fileVars
  <2>3. CASE disk[d] # 0 /\ Worktree(n, d) /\ Goes(r, "entry")
    <3>1. q.at = "entry" /\ q.op = p.op /\ q.dir = d /\ q.flag = p.flag
      BY <1>2, <2>3
    <3>2. Made(n, d)'
      BY <1>0, <2>1, <2>2, <2>3 DEF Absent, Made, Configured, Worktree
    <3>3. OwnKey(n, q)'
      BY <2>1, <2>2, <3>1 DEF OwnKey, NoKey, KeyAt
    <3> QED
      BY <2>1, <2>2, <3>1, <3>2, <3>3, MadeStands
  <2>4. CASE Goes(r, "undo") /\ UNCHANGED ws
    <3>1. q.at = "undo" /\ q.op = p.op /\ q.dir = d /\ q.flag = p.flag
      BY <1>2, <2>4
    <3>2. Absent(n)'
      BY <2>1, <2>2, <2>4 DEF Absent, Configured
    <3>3. OwnKey(n, q)'
      BY <2>1, <2>2, <3>1 DEF OwnKey, NoKey, KeyAt
    <3> QED
      BY <2>1, <2>2, <3>1, <3>2, <3>3, AbsentStands DEF OwnKey
  <2> QED
    BY <1>7, <2>1, <2>3, <2>4, TornType DEF CreateWorktree, Absent, Tears
<1>8. CASE ReadToAdd(r)
  <2>1. p.at = "entry" /\ known[n] = file[n] /\ d \in Dirs /\ Made(n, d) /\ OwnKey(n, p)
    BY <1>0, <1>1, <1>8 DEF ReadToAdd, Placed, Keyed, Resting
  <2>2. UNCHANGED <<disk, ws, keys, ssh, stale, file, known>>
    BY <1>8 DEF ReadToAdd, diskVars
  <2>3. Goes(r, "store")
    BY <1>8, <2>1 DEF ReadToAdd, Made, Configured
  <2>4. q.at = "store" /\ q.op = p.op /\ q.dir = d /\ q.flag = p.flag
    BY <1>2, <2>3
  <2>5. Made(n, d)'
    BY <2>1, <2>2 DEF Made, Configured
  <2>6. OwnKey(n, q)'
    BY <2>1, <2>2, <2>4 DEF OwnKey, NoKey, KeyAt
  <2> QED
    BY <2>1, <2>2, <2>4, <2>5, <2>6, MadeStands
<1>9. CASE WriteAdded(r)
  <2>1. p.at = "store" /\ known[n] = file[n] /\ d \in Dirs /\ Made(n, d) /\ OwnKey(n, p)
    BY <1>0, <1>1, <1>9 DEF WriteAdded, Placed, Keyed, Resting
  <2>2. UNCHANGED <<disk, ws, keys, ssh, stale, known>> /\ Goes(r, "load")
    BY <1>9 DEF WriteAdded, diskVars
  <2>3. q.at = "load" /\ q.dir = d
    BY <1>2, <2>2
  <2>4. file'[n] = [live |-> d, checks |-> FALSE]
    BY <1>9 DEF WriteAdded, Rewrites, PlaceIInv, Typed, FileTyped, Copies
  <2>5. Configured(n)' /\ file'[n].live = d
    <3>1. file'[n] \in Entries
      BY <2>1, <2>4, EntryType
    <3>2. file'[n].live = d
      BY <2>4
    <3>3. Configured(n)'
      BY <3>1, EntryType DEF Configured
    <3> QED
      BY <3>2, <3>3
  <2>6. Whole(n, d)'
    BY <2>1, <2>2, <2>5 DEF Whole, Made
  <2>7. KeyAt(n, d)'
    BY <2>1, <2>2 DEF OwnKey, KeyAt, NoKey
  <2>8. known'[n] = None
    BY <2>1, <2>2 DEF Made, Configured
  <2> QED
    BY <2>3, <2>6, <2>7, <2>8, WholeStands
<1>10. CASE Load(r) \/ Restore(r)
  <2>1. p.at \in {"load", "restore"} /\ d \in Dirs /\ Whole(n, d) /\ KeyAt(n, d)
    BY <1>0, <1>1, <1>10 DEF Load, Restore, Placed, Keyed, Resting
  <2>2. UNCHANGED <<disk, ws, keys, ssh, stale, file>> /\ known'[n] = file'[n]
    BY <1>0, <1>10 DEF Load, Restore, diskVars, fileVars
  <2>3. q.at = "idle" \/ (q.at = "restore" /\ q.dir = d)
    BY <1>2, <1>3, <1>10 DEF Load, Restore
  <2>4. Whole(n, d)' /\ KeyAt(n, d)'
    BY <2>1, <2>2 DEF Whole, KeyAt, Configured
  <2> QED
    BY <2>2, <2>3, <2>4, WholeStands
<1>11. CASE Undo(r)
  <2>1. p.at = "undo" /\ known[n] = file[n] /\ d \in Dirs /\ Absent(n) /\ OwnKey(n, p)
    BY <1>0, <1>1, <1>11 DEF Undo, Placed, Keyed, Resting
  <2>2. UNCHANGED <<disk, ws, keys, ssh, stale, file, known>>
    BY <1>11 DEF Undo, diskVars, fileVars
  <2>3. Absent(n)'
    BY <2>1, <2>2 DEF Absent, Configured
  <2>4. CASE p.op = "create"
    <3>1. Goes(r, "rollback")
      BY <1>11, <2>1, <2>4 DEF Undo, Absent, Configured
    <3>2. q.at = "rollback" /\ q.op = "create" /\ q.dir = d /\ q.flag = p.flag
      BY <1>2, <2>4, <3>1
    <3>3. OwnKey(n, q)'
      BY <2>1, <2>2, <2>4, <3>2 DEF OwnKey, NoKey, KeyAt
    <3> QED
      BY <2>1, <2>2, <2>3, <3>2, <3>3, AbsentStands
  <2>5. CASE p.op # "create"
    <3>1. q.at = "idle"
      BY <1>3, <1>11, <2>5 DEF Undo
    <3>2. NoKey(n)'
      BY <2>1, <2>2, <2>5 DEF OwnKey, NoKey
    <3> QED
      BY <2>1, <2>2, <2>3, <3>1, <3>2, AbsentStands
  <2> QED
    BY <2>4, <2>5
<1>12. CASE Rollback(r)
  <2>1. /\ p.at = "rollback" /\ known[n] = file[n] /\ d \in Dirs /\ Absent(n)
        /\ OwnKey(n, p) /\ p.op = "create"
    BY <1>0, <1>1, <1>12 DEF Rollback, Placed, Keyed, Resting, Allowed
  <2>2. UNCHANGED <<ws, keys, file, known>> /\ q.at = "idle"
    BY <1>3, <1>12 DEF Rollback, fileVars
  <2>3. Absent(n)'
    BY <2>1, <2>2 DEF Absent, Configured
  <2>4. NoKey(n)'
    <3>1. CASE p.flag
      <4>1. KeyAt(n, d)
        BY <2>1, <3>1 DEF OwnKey
      <4>2. stale' = stale \union {d} /\ UNCHANGED ssh
        BY <1>12, <3>1 DEF Rollback
      <4> QED
        BY <4>1, <4>2 DEF KeyAt, NoKey
    <3>2. CASE ~p.flag
      <4>1. NoKey(n)
        BY <2>1, <3>2 DEF OwnKey
      <4>2. \/ UNCHANGED <<ssh, stale>>
            \/ ssh' = [ssh EXCEPT ![d] = None] /\ stale' = stale \ {d}
        BY <1>12, <3>2 DEF Rollback, Deleted
      <4> QED
        BY <1>0, <4>1, <4>2 DEF NoKey
    <3> QED
      BY <3>1, <3>2
  <2> QED
    BY <2>1, <2>2, <2>3, <2>4, AbsentStands
<1> QED
  BY <1>4, <1>5, <1>6, <1>7, <1>8, <1>9, <1>10, <1>11, <1>12 DEF Onboards

LEMMA RemovesStands ==
    ASSUME PlaceIInv, NEW r \in Requests, NEW n \in Names, n = req[r].name, n \notin NotPromised,
           n \notin excused', NEW p, p = req[r], NEW q, q = req'[r], Removes(r)
    PROVE  Stands(n, q)' /\ (q.at \in {"drop", "fill"} => snap'[r][n] = file'[n])
<1> PICK d : d = p.dir
  OBVIOUS
<1>0. /\ ReqTyped /\ Stands(n, p) /\ None \notin Names
      /\ p.at # "load" => known[n] = file[n]
      /\ file \in Copies /\ known \in Copies /\ snap \in [Requests -> Copies]
      /\ disk \in [Dirs -> 0..MaxRepos] /\ ws \in [Names -> 0..Torn]
      /\ ssh \in [Dirs -> Names \union {None}]
      /\ p.at # "idle" => d \in Dirs
  BY Standing, AtWork, ConstantsAssumption DEF PlaceIInv, Typed, DiskTyped, FileTyped, Fits
<1>1. Placed(n, p) /\ Keyed(n, p)
  BY <1>0 DEF Stands
<1>2. \A at : Goes(r, at) => /\ q.at = at /\ q.op = p.op /\ q.dir = d /\ q.flag = p.flag
  BY <1>0, HopsTo
<1>3. Ends(r) => q.at = "idle"
  BY <1>0, ItEnds DEF Idle
<1>4. CASE Collect(r) \/ Purge(r)
  <2>1. p.at \in {"collect", "purge"} /\ known[n] = file[n] /\ Whole(n, d) /\ KeyAt(n, d)
    BY <1>0, <1>1, <1>4 DEF Collect, Purge, Placed, Keyed
  <2>2. UNCHANGED <<disk, ws, keys, ssh, stale, file, known>>
    BY <1>4 DEF Collect, Purge, diskVars, fileVars
  <2>3. q.at = "idle" \/ (q.at \in {"purge", "detach"} /\ q.dir = d)
    <3>1. CASE Purge(r)
      BY <1>2, <3>1 DEF Purge
    <3>2. CASE Collect(r)
      <4>1. CASE req' = [req EXCEPT ![r].at = "purge", ![r].doc = Page(n)]
        BY <1>0, <4>1 DEF ReqTyped, Requestings
      <4> QED
        BY <1>2, <1>3, <3>2, <4>1 DEF Collect
    <3> QED
      BY <1>4, <3>1, <3>2
  <2>4. Whole(n, d)' /\ KeyAt(n, d)'
    BY <2>1, <2>2 DEF Whole, KeyAt, Configured
  <2> QED
    BY <2>1, <2>2, <2>3, <2>4, WholeStands
<1>5. CASE Detach(r)
  <2>1. p.at = "detach" /\ known[n] = file[n] /\ Whole(n, d) /\ KeyAt(n, d)
    BY <1>0, <1>1, <1>5 DEF Detach, Placed, Keyed
  <2>2. UNCHANGED <<disk, keys, ssh, stale, file, known>> /\ q.at = "entries" /\ q.dir = d
    BY <1>2, <1>5 DEF Detach, Tears, fileVars
  <2>3. ws'[n] = 0
    BY <1>0, <1>5 DEF Detach, Tears
  <2>4. Bare(n, d)' /\ KeyAt(n, d)'
    BY <2>1, <2>2, <2>3 DEF Whole, Bare, KeyAt, Configured
  <2> QED
    BY <2>1, <2>2, <2>4, BareStands
<1>6. CASE ReadToDrop(r)
  <2>1. p.at = "entries" /\ known[n] = file[n] /\ Bare(n, d) /\ KeyAt(n, d) /\ d \in Dirs
    BY <1>0, <1>1, <1>6 DEF ReadToDrop, Placed, Keyed
  <2>2. UNCHANGED <<disk, ws, file>> /\ (Unmint(n, d) \/ UnmintFails(n, d))
    BY <1>6 DEF ReadToDrop
  <2>3. /\ UNCHANGED known /\ q.at = "drop" /\ q.dir = d
        /\ snap' = [snap EXCEPT ![r] = file]
    BY <1>2, <1>6, <2>1 DEF ReadToDrop, Bare, Configured
  <2>4. NoKey(n)'
    <3>1. CASE Unmint(n, d)
      BY <1>0, <2>1, <3>1 DEF Unmint, Unpointed, KeyAt, NoKey
    <3>2. CASE UnmintFails(n, d)
      BY <2>1, <3>2 DEF UnmintFails, KeyAt, NoKey
    <3> QED
      BY <2>2, <3>1, <3>2
  <2>5. Bare(n, d)'
    BY <2>1, <2>2 DEF Bare, Configured
  <2>6. snap'[r][n] = file'[n]
    BY <1>0, <2>2, <2>3
  <2> QED
    BY <2>1, <2>2, <2>3, <2>4, <2>5, <2>6, BareStands
<1>7. CASE WriteDropped(r)
  <2>1. p.at = "drop" /\ Bare(n, d) /\ NoKey(n)
    BY <1>0, <1>1, <1>7 DEF WriteDropped, Placed, Keyed
  <2>2. UNCHANGED <<disk, ws, keys, ssh, stale>> /\ known' = file'
    BY <1>7 DEF WriteDropped, diskVars
  <2>3. file'[n] = None
    BY <1>0, <1>7 DEF WriteDropped, Rewrites, Copies
  <2>4. q.at \in {"erase", "idle"}
    BY <1>2, <1>3, <1>7 DEF WriteDropped, AfterDrop
  <2>5. Absent(n)' /\ NoKey(n)'
    BY <2>1, <2>2, <2>3 DEF Bare, Absent, Configured, NoKey
  <2> QED
    BY <2>2, <2>4, <2>5, AbsentStands
<1>8. CASE Erase(r)
  <2>1. p.at = "erase" /\ known[n] = file[n] /\ Absent(n) /\ NoKey(n) /\ d \in Dirs
    BY <1>0, <1>1, <1>8 DEF Erase, Placed, Keyed, Resting
  <2>2. UNCHANGED <<ws, keys, file, known>> /\ q.at = "idle"
    BY <1>3, <1>8 DEF Erase, fileVars
  <2>3. \/ UNCHANGED <<ssh, stale>>
        \/ ssh' = [ssh EXCEPT ![d] = None] /\ stale' = stale \ {d}
    BY <1>8 DEF Erase, Deleted
  <2>4. Absent(n)' /\ NoKey(n)'
    BY <1>0, <2>1, <2>2, <2>3 DEF Absent, Configured, NoKey
  <2> QED
    BY <2>1, <2>2, <2>4, AbsentStands
<1> QED
  BY <1>4, <1>5, <1>6, <1>7, <1>8 DEF Removes

LEMMA MovesStands ==
    ASSUME PlaceIInv, NEW r \in Requests, NEW n \in Names, n = req[r].name, n \notin NotPromised,
           n \notin excused', NEW p, p = req[r], NEW q, q = req'[r], Moves(r)
    PROVE  Stands(n, q)' /\ q.at \notin {"drop", "fill"}
<1> PICK d : d = p.dir
  OBVIOUS
<1> PICK t : t = p.to
  OBVIOUS
<1>0. /\ ReqTyped /\ Stands(n, p) /\ None \notin Names
      /\ p.at # "load" => known[n] = file[n]
      /\ file \in Copies /\ known \in Copies
      /\ disk \in [Dirs -> 0..MaxRepos] /\ ws \in [Names -> 0..Torn]
      /\ ssh \in [Dirs -> Names \union {None}]
      /\ p.at # "idle" => d \in Dirs
      /\ p.at \in {"parked", "unhook", "rehook", "putback", "point", "follow"} => t \in Dirs
  BY Standing, AtWork, ConstantsAssumption DEF PlaceIInv, Typed, DiskTyped, FileTyped, Fits
<1>1. Placed(n, p) /\ Keyed(n, p)
  BY <1>0 DEF Stands
<1>2. \A at : Goes(r, at) => /\ q.at = at /\ q.op = p.op /\ q.dir = d /\ q.to = t
  BY <1>0, HopsTo
<1>3. Ends(r) => q.at = "idle"
  BY <1>0, ItEnds DEF Idle
<1>4. CASE MoveChecks(r)
  <2>1. p.at = "parked" /\ known[n] = file[n] /\ Whole(n, d) /\ KeyAt(n, d)
    BY <1>0, <1>1, <1>4 DEF MoveChecks, Placed, Keyed
  <2>2. UNCHANGED <<disk, ws, keys, ssh, stale, file, known>>
    BY <1>4 DEF MoveChecks, diskVars, fileVars
  <2>3. q.at = "idle" \/ (q.at = "unhook" /\ q.dir = d)
    BY <1>2, <1>3, <1>4 DEF MoveChecks
  <2>4. Whole(n, d)' /\ KeyAt(n, d)'
    BY <2>1, <2>2 DEF Whole, KeyAt, Configured
  <2> QED
    BY <2>1, <2>2, <2>3, <2>4, WholeStands
<1>5. CASE Unhook(r)
  <2>1. p.at = "unhook" /\ known[n] = file[n] /\ Whole(n, d) /\ KeyAt(n, d)
    BY <1>0, <1>1, <1>5 DEF Unhook, Placed, Keyed
  <2>2. UNCHANGED <<disk, keys, ssh, stale, file, known>>
    BY <1>5 DEF Unhook, fileVars
  <2>3. KeyAt(n, d)'
    BY <2>1, <2>2 DEF KeyAt
  <2>4. CASE ws' = [ws EXCEPT ![n] = 0] /\ Goes(r, "rehook")
    <3>1. q.at = "rehook" /\ q.dir = d
      BY <1>2, <2>4
    <3>2. Bare(n, d)'
      BY <1>0, <2>1, <2>2, <2>4 DEF Whole, Bare, Configured
    <3> QED
      BY <2>1, <2>2, <2>3, <3>1, <3>2, BareStands
  <2>5. CASE Ends(r) /\ UNCHANGED ws
    <3>1. Whole(n, d)'
      BY <2>1, <2>2, <2>5 DEF Whole, Configured
    <3> QED
      BY <1>3, <2>1, <2>2, <2>3, <2>5, <3>1, WholeStands
  <2> QED
    BY <1>5, <2>4, <2>5 DEF Unhook, Tears
<1>6. CASE Rehook(r)
  <2>1. p.at = "rehook" /\ known[n] = file[n] /\ Bare(n, d) /\ KeyAt(n, d) /\ t \in Dirs
    BY <1>0, <1>1, <1>6 DEF Rehook, Placed, Keyed
  <2>2. UNCHANGED <<disk, keys, ssh, stale, file, known>>
    BY <1>6 DEF Rehook, fileVars
  <2>3. KeyAt(n, d)'
    BY <2>1, <2>2 DEF KeyAt
  <2>4. CASE disk[t] # 0 /\ Worktree(n, t) /\ Goes(r, "point")
    <3>1. q.at = "point" /\ q.dir = d /\ q.to = t
      BY <1>2, <2>4
    <3>2. Moved(n, d, t)'
      BY <1>0, <2>1, <2>2, <2>4 DEF Bare, Moved, Configured, Worktree
    <3> QED
      BY <2>1, <2>2, <2>3, <3>1, <3>2 DEF Stands, Copied, Placed, Keyed, Resting
  <2>5. CASE Goes(r, "putback") /\ UNCHANGED ws
    <3>1. q.at = "putback" /\ q.dir = d
      BY <1>2, <2>5
    <3>2. Bare(n, d)'
      BY <2>1, <2>2, <2>5 DEF Bare, Configured
    <3> QED
      BY <2>1, <2>2, <2>3, <3>1, <3>2, BareStands
  <2> QED
    BY <1>6, <2>1, <2>4, <2>5, TornType DEF Rehook, Bare, Tears
<1>7. CASE PutBack(r)
  <2>1. p.at = "putback" /\ known[n] = file[n] /\ Bare(n, d) /\ KeyAt(n, d) /\ d \in Dirs
    BY <1>0, <1>1, <1>7 DEF PutBack, Placed, Keyed
  <2>2. UNCHANGED <<disk, keys, ssh, stale, file, known>> /\ q.at = "idle"
    BY <1>3, <1>7 DEF PutBack, fileVars
  <2>3. ws'[n] = disk[d]
    BY <1>0, <1>7, <2>1 DEF PutBack, OldTree, Bare, Tears
  <2>4. Whole(n, d)' /\ KeyAt(n, d)'
    BY <2>1, <2>2, <2>3 DEF Bare, Whole, KeyAt, Configured
  <2> QED
    BY <2>1, <2>2, <2>4, WholeStands
<1>8. CASE Point(r)
  <2>1. p.at = "point" /\ Moved(n, d, t) /\ KeyAt(n, d) /\ t \in Dirs
    BY <1>0, <1>1, <1>8 DEF Point, Placed, Keyed
  <2>2. UNCHANGED <<disk, ws, keys, ssh>>
    BY <1>8 DEF Point, diskVars
  <2>3. /\ file' = [file EXCEPT ![n].live = t] /\ known' = file' /\ stale' = stale \union {d}
        /\ q.at = "follow" /\ q.dir = d /\ q.to = t
    BY <1>2, <1>8, <2>1 DEF Point, Moved
  <2>4. PICK e : e = file[n]
    OBVIOUS
  <2>5. e \in Entries
    BY <1>0, <2>1, <2>4 DEF Moved, Configured, Copies
  <2>6. file'[n] = [e EXCEPT !.live = t]
    BY <1>0, <2>3, <2>4 DEF Copies
  <2>7. file'[n] \in Entries /\ file'[n].live = t
    BY <2>1, <2>5, <2>6 DEF Entries
  <2>8. Configured(n)'
    BY <2>7, EntryType DEF Configured
  <2>9. Whole(n, t)'
    BY <2>1, <2>2, <2>7, <2>8 DEF Moved, Whole
  <2>10. NoKey(n)'
    BY <2>1, <2>2, <2>3 DEF KeyAt, NoKey
  <2> QED
    BY <2>3, <2>9, <2>10 DEF Stands, Copied, Placed, Keyed, Resting
<1>9. CASE FollowKey(r)
  <2>1. p.at = "follow" /\ known[n] = file[n] /\ Whole(n, t) /\ NoKey(n) /\ t \in Dirs
    BY <1>0, <1>1, <1>9 DEF FollowKey, Placed, Keyed
  <2>2. UNCHANGED <<disk, ws, keys, file, known>> /\ q.at = "idle"
    BY <1>3, <1>9 DEF FollowKey, fileVars
  <2>3. \/ UNCHANGED <<ssh, stale>>
        \/ n \in keys /\ ssh' = [ssh EXCEPT ![t] = n] /\ stale' = stale \ {t}
    BY <1>9 DEF FollowKey, Uses
  <2>4. KeyAt(n, t)'
    BY <1>0, <2>1, <2>2, <2>3 DEF NoKey, KeyAt
  <2>5. Whole(n, t)'
    BY <2>1, <2>2 DEF Whole, Configured
  <2> QED
    BY <2>1, <2>2, <2>4, <2>5, WholeStands
<1> QED
  BY <1>4, <1>5, <1>6, <1>7, <1>8, <1>9 DEF Moves

LEMMA ChangesStands ==
    ASSUME PlaceIInv, NEW r \in Requests, NEW n \in Names, n = req[r].name, n \notin NotPromised,
           n \notin excused', NEW p, p = req[r], NEW q, q = req'[r], Changes(r)
    PROVE  Stands(n, q)' /\ (q.at \in {"drop", "fill"} => snap'[r][n] = file'[n])
<1> PICK d : d = p.dir
  OBVIOUS
<1>0. /\ ReqTyped /\ Stands(n, p) /\ None \notin Names
      /\ p.at # "load" => known[n] = file[n]
      /\ file \in Copies /\ known \in Copies /\ snap \in [Requests -> Copies]
      /\ disk \in [Dirs -> 0..MaxRepos] /\ ws \in [Names -> 0..Torn]
      /\ ssh \in [Dirs -> Names \union {None}]
      /\ p.at # "idle" => d \in Dirs
  BY Standing, AtWork, ConstantsAssumption DEF PlaceIInv, Typed, DiskTyped, FileTyped, Fits
<1>1. Placed(n, p) /\ Keyed(n, p) /\ Fresh(n, r)
  BY <1>0, Standing DEF Stands
<1>2. \A at : Goes(r, at) => /\ q.at = at /\ q.op = p.op /\ q.dir = d
  BY <1>0, HopsTo
<1>3. Ends(r) => q.at = "idle"
  BY <1>0, ItEnds DEF Idle
<1>4. CASE ChangeKey(r)
  <2>1. p.at = "key" /\ known[n] = file[n] /\ Whole(n, d) /\ KeyAt(n, d) /\ d \in Dirs
    BY <1>0, <1>1, <1>4 DEF ChangeKey, Placed, Keyed
  <2>2. UNCHANGED <<disk, ws, file, known>> /\ q.at = "idle"
    BY <1>3, <1>4 DEF ChangeKey, fileVars
  <2>3. Mint(n, d) \/ MintFails(n, d) \/ Unmint(n, d) \/ UnmintFails(n, d)
    BY <1>4 DEF ChangeKey
  <2>4. KeyAt(n, d)'
    <3>1. CASE Mint(n, d)
      BY <1>0, <2>1, <3>1 DEF Mint, Uses, KeyAt
    <3>2. CASE MintFails(n, d) \/ UnmintFails(n, d)
      BY <2>1, <3>2 DEF MintFails, UnmintFails, KeyAt
    <3>3. CASE Unmint(n, d)
      BY <1>0, <2>1, <3>3 DEF Unmint, Unpointed, KeyAt
    <3> QED
      BY <2>3, <3>1, <3>2, <3>3
  <2>5. Whole(n, d)'
    BY <2>1, <2>2 DEF Whole, Configured
  <2> QED
    BY <2>1, <2>2, <2>4, <2>5, WholeStands
<1>5. CASE ReadToFill(r)
  <2>1. p.at = "read" /\ known[n] = file[n] /\ Whole(n, d) /\ KeyAt(n, d)
    BY <1>0, <1>1, <1>5 DEF ReadToFill, Placed, Keyed
  <2>2. UNCHANGED <<disk, ws, keys, ssh, stale, file, known>>
    BY <1>5 DEF ReadToFill, diskVars
  <2>3. \/ q.at = "idle"
        \/ q.at = "fill" /\ q.dir = d /\ snap' = [snap EXCEPT ![r] = file]
    BY <1>2, <1>3, <1>5 DEF ReadToFill
  <2>4. Whole(n, d)' /\ KeyAt(n, d)'
    BY <2>1, <2>2 DEF Whole, KeyAt, Configured
  <2>5. q.at = "fill" => snap'[r][n] = file'[n]
    BY <1>0, <2>2, <2>3
  <2> QED
    BY <2>1, <2>2, <2>3, <2>4, <2>5, WholeStands
<1>6. CASE WriteFilled(r)
  <2>1. p.at = "fill" /\ Whole(n, d) /\ KeyAt(n, d) /\ snap[r][n] = file[n]
    BY <1>0, <1>1, <1>6 DEF WriteFilled, Placed, Keyed, Fresh
  <2>2. UNCHANGED <<disk, ws, keys, ssh, stale>> /\ known' = file' /\ q.at = "idle"
    BY <1>3, <1>6 DEF WriteFilled, diskVars
  <2>3. PICK e : e = file[n]
    OBVIOUS
  <2>4. e \in Entries /\ e.live = d
    BY <1>0, <2>1, <2>3 DEF Whole, Configured, Copies
  <2>5. file'[n] = [e EXCEPT !.checks = TRUE]
    BY <1>0, <1>6, <2>1, <2>3 DEF WriteFilled, Rewrites, Copies
  <2>6. file'[n] \in Entries /\ file'[n].live = d
    BY <2>4, <2>5 DEF Entries
  <2>7. Configured(n)'
    BY <2>6, EntryType DEF Configured
  <2>8. Whole(n, d)' /\ KeyAt(n, d)'
    BY <2>1, <2>2, <2>6, <2>7 DEF Whole, KeyAt
  <2> QED
    BY <2>2, <2>8, WholeStands
<1> QED
  BY <1>4, <1>5, <1>6 DEF Changes

\* r's step on its own project, of whichever kind.
LEMMA OwnSettled ==
    ASSUME PlaceIInv, NEW r \in Requests, Proceeds(r), NEW n \in Names, n = req[r].name,
           n \notin NotPromised'
    PROVE  Settled(n)'
<1> PICK p : p = req[r]
  OBVIOUS
<1> PICK q : q = req'[r]
  OBVIOUS
<1>1. /\ Typed /\ Hopped(r) /\ None \notin Names
      /\ n \notin NotPromised /\ n \notin excused'
  BY StepHops, StepFile, ConstantsAssumption DEF PlaceIInv, FileLeft, NotPromised
<1>2. \A o \in Requests : o # r => req'[o].name # n
  BY <1>1, Standing DEF Hopped
<1>3. Stands(n, q)' /\ (q.at \in {"drop", "fill"} => snap'[r][n] = file'[n])
  <2>1. CASE Onboards(r)
    <3>1. q.at \in Plain \union {"store"}
      BY <1>1, <2>1, OnboardsHop
    <3> QED
      BY <1>1, <2>1, <3>1, OnboardsStands DEF Plain
  <2>2. CASE Removes(r)
    BY <1>1, <2>2, RemovesStands
  <2>3. CASE Moves(r)
    BY <1>1, <2>3, MovesStands
  <2>4. CASE Changes(r)
    BY <1>1, <2>4, ChangesStands
  <2> QED
    BY <2>1, <2>2, <2>3, <2>4 DEF Proceeds
<1>4. ASSUME NEW o \in Requests, NEW x \in {req'[o]}, x.name = n
      PROVE  Stands(n, x)' /\ Fresh(n, o)'
  <2>1. o = r /\ x = q
    BY <1>2, <1>4
  <2> QED
    BY <1>3, <2>1 DEF Fresh
<1>5. ASSUME ~Active(n)' PROVE Stands(n, Idle)'
  <2>1. q = Idle
    BY <1>1, <1>5 DEF Hopped, Active
  <2> QED
    BY <1>3, <2>1
<1> QED
  BY <1>4, <1>5 DEF Settled

\* A request that comes in finds its project at rest.
LEMMA BeginSettled ==
    ASSUME PlaceIInv, NEW r \in Requests, NEW op \in Ops, NEW n \in Names, NEW d \in Dirs,
           NEW to \in Dirs \union {None}, NEW flag \in BOOLEAN, NEW at \in Plain,
           Begun(r, op, n, d, to, flag, at), n \notin NotPromised, n \notin excused'
    PROVE  Settled(n)'
<1> PICK q : q = req'[r]
  OBVIOUS
<1>1. /\ q.op = op /\ q.at = at /\ q.name = n /\ q.dir = d /\ q.to = to
      /\ \A o \in Requests : o # r => req'[o] = req[o]
  BY BegunReq DEF PlaceIInv, Typed
<1>2. ~Active(n) /\ UNCHANGED <<disk, ws, keys, ssh, stale, file, known>>
  BY BeginApiece DEF diskVars, fileVars
<1>3. Stands(n, Idle) /\ known[n] = file[n] /\ Idle.at = "idle"
  BY <1>2 DEF PlaceIInv, Settled, Stands, Copied, Idle
<1>4. Stands(n, q)'
  <2>1. CASE Configured(n)
    <3>1. PICK e : e = file[n].live
      OBVIOUS
    <3>2. Whole(n, e) /\ KeyAt(n, e)
      BY <1>3, <2>1, <3>1 DEF Stands, Placed, Keyed, Resting
    <3>3. Whole(n, e)' /\ KeyAt(n, e)' /\ known'[n] = file'[n]
      BY <1>2, <1>3, <3>2 DEF Whole, KeyAt, Configured
    <3>4. CASE at = "detect"
      <4>1. q.op = "add"
        BY <1>1, <3>4 DEF Begun
      <4>2. file'[n].live = e /\ Configured(n)'
        BY <1>2, <2>1, <3>1 DEF Configured
      <4>3. (Whole(n, file[n].live) /\ KeyAt(n, file[n].live))'
        BY <3>3, <4>2 DEF Whole, KeyAt
      <4> QED
        BY <1>1, <3>3, <3>4, <4>1, <4>2, <4>3 DEF Stands, Copied, Placed, Keyed, Resting
    <3>5. CASE at # "detect"
      <4>1. d = e /\ at \in {"collect", "parked", "key", "read"}
        BY <1>3, <2>1, <3>1, <3>5 DEF Begun, Configured
      <4> QED
        BY <1>1, <3>3, <4>1, WholeStands
    <3> QED
      BY <3>4, <3>5
  <2>2. CASE ~Configured(n)
    <3>1. at \in {"make", "detect"}
      BY <1>3, <2>2 DEF Begun, Configured
    <3>2. Absent(n) /\ NoKey(n)
      BY <1>3, <2>2 DEF Stands, Placed, Keyed, Resting
    <3>3. Absent(n)' /\ NoKey(n)' /\ known'[n] = file'[n]
      BY <1>2, <1>3, <3>2 DEF Absent, NoKey, Configured
    <3> QED
      BY <1>1, <3>1, <3>3, AbsentStands
  <2> QED
    BY <2>1, <2>2
<1>5. ASSUME NEW o \in Requests, NEW x \in {req'[o]}, x.name = n
      PROVE  Stands(n, x)' /\ Fresh(n, o)'
  <2>1. o = r /\ x = q
    BY <1>1, <1>2, <1>5 DEF Active
  <2>2. at \notin {"drop", "fill"}
    BY DEF Plain
  <2> QED
    BY <1>1, <1>4, <2>1, <2>2 DEF Fresh
<1>6. Active(n)'
  BY <1>1 DEF Active
<1> QED
  BY <1>5, <1>6 DEF Settled

LEMMA SettledStep ==
    ASSUME PlaceIInv, [Next]_vars, NEW n \in Names, n \notin NotPromised'
    PROVE  Settled(n)' /\ n \notin NotPromised
<1>0. Typed /\ None \notin Names
  BY ConstantsAssumption DEF PlaceIInv
<1>1. ASSUME NEW r \in Requests, Begin(r) PROVE Settled(n)' /\ n \notin NotPromised
  <2>1. PICK op \in Ops, m \in Names, d \in Dirs, to \in Dirs \union {None}, flag \in BOOLEAN,
             at \in Plain : Begun(r, op, m, d, to, flag, at)
    BY <1>0, <1>1, BeginBegun
  <2>2. /\ UNCHANGED <<diskVars, fileVars, stale>> /\ excused \subseteq excused'
        /\ req[r] = Idle /\ req'[r].name = m
        /\ \A o \in Requests : o # r => req'[o] = req[o]
    BY <1>0, <2>1, BeginApiece, BegunReq DEF Typed
  <2>3. n \notin NotPromised /\ n \notin excused'
    BY <2>2 DEF NotPromised, fileVars
  <2>4. CASE m = n
    BY <2>1, <2>3, <2>4, BeginSettled
  <2>5. CASE m # n
    <3>1. \A o \in Requests : req[o].name = n \/ req'[o].name = n => o # r
      BY <1>0, <2>2, <2>5 DEF Idle
    <3>2. Apart(n)
      BY <2>2, <3>1 DEF Apart, diskVars, fileVars
    <3> QED
      BY <1>0, <2>3, <3>2, SettledApart DEF PlaceIInv
  <2> QED
    BY <2>3, <2>4, <2>5
<1>2. ASSUME NEW r \in Requests, Onboards(r) \/ Removes(r) \/ Moves(r) \/ Changes(r)
      PROVE  Settled(n)' /\ n \notin NotPromised
  <2>1. Proceeds(r)
    BY <1>2 DEF Proceeds
  <2>2. CASE n = req[r].name
    <3>1. n \notin NotPromised
      BY <1>0, <2>1, StepFile DEF FileLeft, NotPromised
    <3> QED
      BY <2>1, <2>2, <3>1, OwnSettled
  <2>3. CASE n # req[r].name
    BY <1>0, <2>1, <2>3, OthersApart, SettledApart DEF PlaceIInv
  <2> QED
    BY <2>2, <2>3
<1>3. ASSUME UNCHANGED <<disk, ws, keys, ssh, stale, fileVars, req, excused>>
      PROVE  Settled(n)' /\ n \notin NotPromised
  <2>1. Apart(n)
    BY <1>3 DEF Apart, fileVars
  <2>2. n \notin NotPromised
    BY <1>3 DEF NotPromised, fileVars
  <2> QED
    BY <1>0, <2>1, <2>2, SettledApart DEF PlaceIInv
<1>4. ASSUME NEW m \in Names, Around(m) PROVE Settled(n)' /\ n \notin NotPromised
  BY <1>3, <1>4 DEF Around, StartTask, TaskSaved, TaskWorks, TaskRests, MapBuilt, diskVars
<1>5. CASE Crash
  <2>1. n \notin NotPromised /\ ~Active(n)
    BY <1>5 DEF Crash, NotPromised
  <2>2. \A o \in Requests : req[o].name # n /\ req'[o].name # n
    BY <1>0, <1>5, <2>1 DEF Crash, Active, Idle
  <2>3. Apart(n)
    BY <1>5, <2>2 DEF Apart, Crash, diskVars
  <2> QED
    BY <1>0, <2>1, <2>3, SettledApart DEF PlaceIInv
<1>6. CASE UNCHANGED vars
  BY <1>3, <1>6 DEF vars, fileVars
<1> QED
  BY <1>1, <1>2, <1>4, <1>5, <1>6 DEF Next

-----------------------------------------------------------------------------
(* Tasks under way *)

LEMMA KnownIsConfigured ==
    ASSUME NEW n \in Names, Settled(n), known[n] # None
    PROVE  Configured(n)
<1>1. CASE Active(n)
  <2>1. PICK r \in Requests : req[r].name = n
    BY <1>1 DEF Active
  <2>2. PICK q : q = req[r]
    OBVIOUS
  <2>3. Stands(n, q)
    BY <2>1, <2>2 DEF Settled
  <2> QED
    BY <2>3 DEF Stands, Copied, Configured
<1>2. CASE ~Active(n)
  BY <1>2 DEF Settled, Stands, Copied, Configured
<1> QED
  BY <1>1, <1>2

\* Only a removal takes its project's entry away.
LEMMA OnlyDropped ==
    ASSUME PlaceIInv, NEW r \in Requests, Proceeds(r), NEW n \in Names, n = req[r].name,
           Configured(n), ~Configured(n)'
    PROVE  req[r].op \in Leaving
<1>0. /\ Typed /\ file \in Copies /\ snap \in [Requests -> Copies]
      /\ Allowed(req[r], req[r].at)
  BY AtWork DEF PlaceIInv, Typed, FileTyped
<1>1. file'[n] \notin Entries
  BY EntryType DEF Configured
<1>2. CASE WriteDropped(r)
  BY <1>0, <1>2 DEF WriteDropped, Allowed
<1>3. CASE UNCHANGED file
  BY <1>3 DEF Configured
<1>4. ~WriteAdded(r)
  <2>1. SUFFICES ASSUME WriteAdded(r) PROVE FALSE
    OBVIOUS
  <2>2. file'[n] = [live |-> req[r].dir, checks |-> FALSE] /\ req[r].dir \in Dirs
    BY <1>0, <2>1, StepHops DEF WriteAdded, Rewrites, Copies
  <2>3. file'[n] \in Entries
    BY <2>2, EntryType
  <2> QED
    BY <1>1, <2>3
<1>5. Point(r) => UNCHANGED file
  <2>1. SUFFICES ASSUME Point(r), ~UNCHANGED file PROVE FALSE
    OBVIOUS
  <2>2. PICK e : e = file[n]
    OBVIOUS
  <2>3. e \in Entries /\ req[r].to \in Dirs
    BY <1>0, <2>1, <2>2, AtWork DEF Point, Typed, Configured, Copies
  <2>4. file' = [file EXCEPT ![n].live = req[r].to]
    BY <2>1 DEF Point
  <2>5. file'[n] = [e EXCEPT !.live = req[r].to]
    BY <1>0, <2>2, <2>4 DEF Copies
  <2>6. file'[n] \in Entries
    BY <2>3, <2>5 DEF Entries
  <2> QED
    BY <1>1, <2>6
<1>6. ~WriteFilled(r)
  <2>1. SUFFICES ASSUME WriteFilled(r) PROVE FALSE
    OBVIOUS
  <2>2. PICK e : e = snap[r][n]
    OBVIOUS
  <2>3. e \in Entries
    BY <1>0, <2>1, <2>2 DEF WriteFilled, Typed, FillInv, Copies
  <2>4. file'[n] = [e EXCEPT !.checks = TRUE]
    BY <1>0, <2>1, <2>2 DEF WriteFilled, Rewrites, Copies
  <2>5. file'[n] \in Entries
    BY <2>3, <2>4 DEF Entries
  <2> QED
    BY <1>1, <2>5
<1>7. CASE Onboards(r)
  BY <1>3, <1>4, <1>7 DEF Onboards, MakeRepository, ConnectGithub, Detect, CreateWorktree,
     ReadToAdd, Load, Restore, Undo, Rollback, fileVars
<1>8. CASE Removes(r)
  BY <1>2, <1>3, <1>8 DEF Removes, Collect, Purge, Detach, ReadToDrop, Erase, fileVars
<1>9. CASE Moves(r)
  BY <1>3, <1>5, <1>9 DEF Moves, MoveChecks, Unhook, Rehook, PutBack, FollowKey, fileVars
<1>10. CASE Changes(r)
  BY <1>3, <1>6, <1>10 DEF Changes, ChangeKey, ReadToFill, fileVars
<1> QED
  BY <1>7, <1>8, <1>9, <1>10 DEF Proceeds

LEMMA HousedStep ==
    ASSUME PlaceIInv, [Next]_vars, NEW n \in Names, n \notin NotPromised'
    PROVE  Housed(n)'
<1>0. Typed /\ n \notin NotPromised /\ Settled(n) /\ Housed(n) /\ None \notin Names
  BY SettledStep, ConstantsAssumption DEF PlaceIInv
<1>1. ASSUME NEW r \in Requests, Begin(r) PROVE Housed(n)'
  <2>1. PICK op \in Ops, m \in Names, d \in Dirs, to \in Dirs \union {None}, flag \in BOOLEAN,
             at \in Plain : Begun(r, op, m, d, to, flag, at)
    BY <1>0, <1>1, BeginBegun
  <2>2. /\ UNCHANGED <<file, task>> /\ slipped \subseteq slipped'
        /\ req'[r].name = m /\ req'[r].op = op /\ req'[r].at = at
        /\ \A o \in Requests : o # r => req'[o] = req[o]
        /\ op \in {"remove", "erase"} /\ task[m] = "new" => m \in slipped'
    BY <1>0, <2>1, BeginApiece, BegunReq DEF Typed, fileVars
  <2>3. m = n /\ op \in {"remove", "erase", "move"} =>
            task[n] \notin {"fresh", "working"} /\ (op = "move" => at = "parked")
    BY <2>1 DEF Begun, InFlight, Allowed, Plain
  <2>4. task'[n] \in {"new", "fresh", "working"} /\ n \notin slipped' /\ Leaves(n)' => Leaves(n)
    BY <2>2, <2>3 DEF Leaves
  <2> QED
    BY <1>0, <2>2, <2>4 DEF Housed, Configured
<1>2. ASSUME NEW r \in Requests, Onboards(r) \/ Removes(r) \/ Moves(r) \/ Changes(r)
      PROVE  Housed(n)'
  <2>1. Proceeds(r)
    BY <1>2 DEF Proceeds
  <2>2. Hopped(r) /\ FileLeft(r) /\ UNCHANGED task /\ slipped \subseteq slipped'
    BY <1>0, <2>1, StepHops, StepFile DEF FileLeft
  <2>3. task[n] \in {"new", "fresh", "working"} /\ n \notin slipped' /\ Leaves(n)' => Leaves(n)
    <3>1. CASE req[r].at # "parked"
      BY <1>0, <2>2, <3>1 DEF Hopped, Leaves, Idle
    <3>2. CASE req[r].at = "parked"
      <4>1. MoveChecks(r)
        BY <1>2, <3>2 DEF Onboards, MakeRepository, ConnectGithub, Detect, CreateWorktree,
           ReadToAdd, WriteAdded, Load, Restore, Undo, Rollback, Removes, Collect, Purge, Detach,
           ReadToDrop, WriteDropped, Erase, Moves, Unhook, Rehook, PutBack, Point, FollowKey,
           Changes, ChangeKey, ReadToFill, WriteFilled
      <4>2. CASE Ends(r)
        <5>1. req'[r] = Idle /\ \A o \in Requests : o # r => req'[o] = req[o]
          BY <1>0, <4>2, ItEnds DEF Typed, Hopped
        <5> QED
          BY <1>0, <5>1 DEF Leaves, Idle
      <4>3. CASE ~Ends(r)
        <5>1. n = req[r].name /\ task[n] \in {"new", "fresh", "working"} => n \in slipped'
          BY <4>1, <4>3 DEF MoveChecks
        <5>2. req'[r].name = req[r].name /\ \A o \in Requests : o # r => req'[o] = req[o]
          BY <1>0, <2>2, <4>1, <4>3, HopsTo DEF MoveChecks, Hopped, Typed
        <5> QED
          BY <5>1, <5>2 DEF Leaves
      <4> QED
        BY <4>2, <4>3
    <3> QED
      BY <3>1, <3>2
  <2>4. Configured(n) /\ ~Leaves(n) => Configured(n)'
    <3>1. CASE n = req[r].name
      <4>1. Allowed(req[r], req[r].at)
        BY <1>0, <2>1, AtWork DEF Typed
      <4>2. req[r].op \in Leaving => req[r].at # "parked"
        BY <4>1 DEF Allowed, Leaving
      <4> QED
        BY <2>1, <3>1, <4>2, OnlyDropped DEF Leaves, Leaving
    <3>2. CASE n # req[r].name
      BY <2>2, <3>2 DEF FileLeft, Configured
    <3> QED
      BY <3>1, <3>2
  <2> QED
    BY <1>0, <2>2, <2>3, <2>4 DEF Housed
<1>3. CASE UNCHANGED <<req, file, task, slipped>>
  BY <1>0, <1>3 DEF Housed, Configured, Leaves
<1>4. ASSUME NEW m \in Names, Around(m) PROVE Housed(n)'
  <2>1. task \in [Names -> {"none", "new", "fresh", "working", "parked", "orphan"}]
    BY <1>0 DEF Typed, StoreTyped
  <2>2. UNCHANGED <<req, file>>
    BY <1>4 DEF Around, StartTask, TaskSaved, TaskWorks, TaskRests, MapBuilt, fileVars
  <2>3. (Configured(n)' <=> Configured(n)) /\ (Leaves(n)' <=> Leaves(n))
    BY <2>2 DEF Configured, Leaves
  <2>4. CASE StartTask(m)
    <3>1. CASE m = n
      BY <1>0, <2>3, <2>4, <3>1, KnownIsConfigured DEF StartTask, Housed
    <3>2. CASE m # n
      BY <1>0, <2>1, <2>3, <2>4, <3>2 DEF StartTask, Housed
    <3> QED
      BY <3>1, <3>2
  <2>8. CASE TaskSaved(m)
    BY <1>0, <2>1, <2>3, <2>8 DEF TaskSaved, Housed
  <2>5. CASE TaskWorks(m)
    <3>1. CASE m = n
      BY <1>0, <2>1, <2>3, <2>5, <3>1 DEF TaskWorks, Housed
    <3>2. CASE m # n
      <4>1. task'[n] = task[n] /\ (n \in slipped' <=> n \in slipped)
        BY <2>1, <2>5, <3>2 DEF TaskWorks
      <4> QED
        BY <1>0, <2>3, <4>1 DEF Housed
    <3> QED
      BY <3>1, <3>2
  <2>6. CASE TaskRests(m)
    <3>1. CASE m = n
      BY <2>1, <2>6, <3>1 DEF TaskRests, Housed
    <3>2. CASE m # n
      <4>1. task'[n] = task[n] /\ (n \in slipped' <=> n \in slipped)
        BY <2>1, <2>6, <3>2 DEF TaskRests
      <4> QED
        BY <1>0, <2>3, <4>1 DEF Housed
    <3> QED
      BY <3>1, <3>2
  <2>7. CASE MapBuilt(m)
    BY <1>3, <2>7 DEF MapBuilt, taskVars, fileVars
  <2> QED
    BY <1>4, <2>4, <2>5, <2>6, <2>7, <2>8 DEF Around
<1>5. CASE Crash
  <2>1. task'[n] \notin {"new", "fresh", "working"}
    <3>1. PICK w : w = task[n]
      OBVIOUS
    <3>2. task'[n] = CASE w = "new" -> "none" [] w \in {"fresh", "working"} -> "orphan"
                       [] OTHER -> w
      BY <1>5, <3>1 DEF Crash
    <3> QED
      BY <3>2
  <2> QED
    BY <2>1 DEF Housed
<1>6. CASE UNCHANGED vars
  BY <1>3, <1>6 DEF vars
<1> QED
  BY <1>1, <1>2, <1>4, <1>5, <1>6 DEF Next

-----------------------------------------------------------------------------
(* The theorems *)

LEMMA PlaceInit == Init => PlaceIInv
<1> SUFFICES ASSUME Init PROVE PlaceIInv
  OBVIOUS
<1> PICK own : own = Basename[First]
  OBVIOUS
<1>0. /\ own \in Names /\ First \in Dirs /\ First \in Cloned /\ None \notin Names
      /\ None \notin Dirs /\ Cloned \subseteq Dirs
  BY ConstantsAssumption
<1>1. /\ \A r \in Requests : req[r] = Idle
      /\ file = [n \in Names |-> IF n = own THEN [live |-> First, checks |-> FALSE] ELSE None]
      /\ known = file
      /\ disk = [d \in Dirs |-> IF d \in Cloned THEN Number[d] ELSE 0]
      /\ ws = [n \in Names |-> IF n = own THEN Number[First] ELSE 0]
      /\ keys = {own} /\ ssh = [d \in Dirs |-> IF d = First THEN own ELSE None]
      /\ task = [n \in Names |-> "none"]
  BY DEF Init
<1>2. Apiece
  BY <1>1 DEF Apiece, Touches, Idle
<1>3. Number[First] # 0 /\ disk[First] = Number[First]
  <2>1. Number[First] \in 1..Cardinality(Cloned) /\ Cardinality(Cloned) \in Nat
    BY <1>0, NumberType
  <2> QED
    BY <1>0, <1>1, <2>1
<1>4. ASSUME NEW n \in Names PROVE Settled(n) /\ Housed(n)
  <2>1. \A r \in Requests : req[r].name # n
    BY <1>0, <1>1 DEF Idle
  <2>2. Stands(n, Idle)
    <3>1. CASE n = own
      <4>1. file[n] = [live |-> First, checks |-> FALSE]
        BY <1>1, <3>1
      <4>2. Configured(n)
        BY <1>0, <4>1, EntryType DEF Configured
      <4>3. Whole(n, First) /\ file[n].live = First
        BY <1>1, <1>3, <3>1, <4>1, <4>2 DEF Whole
      <4>4. KeyAt(n, First)
        BY <1>0, <1>1, <3>1 DEF KeyAt
      <4> QED
        BY <1>1, <4>2, <4>3, <4>4 DEF Stands, Copied, Placed, Keyed, Resting, Idle
    <3>2. CASE n # own
      <4>1. Absent(n)
        BY <1>1, <3>2 DEF Absent, Configured
      <4>2. NoKey(n)
        BY <1>0, <1>1, <3>2 DEF NoKey
      <4> QED
        BY <1>1, <4>1, <4>2 DEF Stands, Copied, Placed, Keyed, Resting, Idle, Absent
    <3> QED
      BY <3>1, <3>2
  <2>3. Settled(n)
    BY <2>1, <2>2 DEF Settled
  <2> QED
    BY <1>1, <2>3 DEF Housed
<1> QED
  BY <1>2, <1>4, InitTyped DEF PlaceIInv

LEMMA PlaceStep == PlaceIInv /\ [Next]_vars => PlaceIInv'
<1> SUFFICES ASSUME PlaceIInv, [Next]_vars PROVE PlaceIInv'
  OBVIOUS
<1>1. Typed' /\ Apiece'
  BY StepTyped, ApieceStep DEF PlaceIInv
<1>2. ASSUME NEW n \in Names \ NotPromised' PROVE Settled(n)' /\ Housed(n)'
  BY <1>2, SettledStep, HousedStep
<1> QED
  BY <1>1, <1>2 DEF PlaceIInv

\* Wherever the request of a project is, the project's key is where it says or nowhere.
LEMMA KeyIsThere ==
    ASSUME Typed, NEW n \in Names, Settled(n), NEW d \in Dirs \ stale, ssh[d] = n
    PROVE  n \in keys
<1>1. CASE Active(n)
  <2>1. PICK r \in Requests : req[r].name = n
    BY <1>1 DEF Active
  <2>2. PICK q : q = req[r]
    OBVIOUS
  <2>3. Keyed(n, q) /\ q.at \in Places /\ q.at # "idle"
    BY <2>1, <2>2, ConstantsAssumption
       DEF Settled, Stands, Typed, ReqTyped, Requestings, Fits, Idle
  <2>4. NoKey(n) \/ \E e : KeyAt(n, e)
    BY <2>3 DEF Keyed, OwnKey, Places
  <2> QED
    BY <2>4 DEF NoKey, KeyAt
<1>2. CASE ~Active(n)
  <2>1. Keyed(n, Idle)
    BY <1>2 DEF Settled, Stands
  <2>2. NoKey(n) \/ \E e : KeyAt(n, e)
    BY <2>1 DEF Keyed, Resting, Idle
  <2> QED
    BY <2>2 DEF NoKey, KeyAt
<1> QED
  BY <1>1, <1>2

\* A project that is configured and that no request takes away is whole.
LEMMA KeptIsWhole ==
    ASSUME Typed, NEW n \in Names, Settled(n), Configured(n), ~Leaves(n)
    PROVE  disk[file[n].live] # 0 /\ ws[n] = disk[file[n].live]
<1>1. CASE Active(n)
  <2>1. PICK r \in Requests : req[r].name = n
    BY <1>1 DEF Active
  <2>2. PICK q : q = req[r]
    OBVIOUS
  <2>3. Placed(n, q) /\ q.at \in Places /\ q.at # "idle" /\ Allowed(q, q.at)
    BY <2>1, <2>2, ConstantsAssumption
       DEF Settled, Stands, Typed, ReqTyped, Requestings, Fits, Idle
  <2>4. q.op \notin {"remove", "erase", "move"} \/ q.at = "parked"
    BY <2>1, <2>2 DEF Leaves
  <2>5. q.at \in {"parked", "make", "github", "detect", "tree", "undo", "rollback", "entry", "store",
                  "load", "restore", "key", "read", "fill"}
    BY <2>3, <2>4 DEF Allowed, Places, Leaving
  <2>6. Whole(n, file[n].live) \/ Whole(n, q.dir)
    BY <2>3, <2>5 DEF Placed, Absent, Made
  <2> QED
    BY <2>6 DEF Whole
<1>2. CASE ~Active(n)
  <2>1. Placed(n, Idle)
    BY <1>2 DEF Settled, Stands
  <2> QED
    BY <2>1 DEF Placed, Resting, Idle, Whole
<1> QED
  BY <1>1, <1>2

\* A project that nobody is changing has its checkout and a workspace of that checkout's
\* repository, whatever onboardings, moves and removals there were.
THEOREM ProjectsAreWhole == Spec => []ConfiguredIsWhole
<1>1. PlaceIInv => ConfiguredIsWhole
  <2> SUFFICES ASSUME PlaceIInv, NEW n \in Names \ NotPromised, Configured(n), ~Active(n)
               PROVE  disk[file[n].live] # 0 /\ ws[n] = disk[file[n].live]
    BY DEF ConfiguredIsWhole
  <2>1. ~Leaves(n)
    BY DEF Active, Leaves
  <2> QED
    BY <2>1, KeptIsWhole DEF PlaceIInv
<1> QED
  BY <1>1, PlaceInit, PlaceStep, PTL DEF Spec

\* Nobody takes a project from under a task that works in it, but behind whose check the
\* task began.
THEOREM WorkIsHoused == Spec => []RunningIsSafe
<1>1. PlaceIInv => RunningIsSafe
  <2> SUFFICES ASSUME PlaceIInv, NEW n \in Names \ (slipped \union NotPromised),
                      task[n] = "working"
               PROVE  Configured(n) /\ disk[file[n].live] # 0 /\ ws[n] \notin {0, Torn}
    BY DEF RunningIsSafe
  <2>1. Configured(n) /\ ~Leaves(n) /\ Settled(n) /\ Typed
    BY DEF PlaceIInv, Housed
  <2>2. disk[file[n].live] # 0 /\ ws[n] = disk[file[n].live]
    BY <2>1, KeptIsWhole
  <2>3. disk[file[n].live] \in 0..MaxRepos
    <3>1. PICK e : e = file[n]
      OBVIOUS
    <3>2. e.live \in Dirs
      BY <2>1, <3>1, EntryType DEF Typed, FileTyped, Copies, Configured
    <3> QED
      BY <2>1, <3>1, <3>2 DEF Typed, DiskTyped
  <2>4. Torn \notin 0..MaxRepos
    BY ConstantsAssumption DEF Torn
  <2> QED
    BY <2>1, <2>2, <2>3, <2>4
<1> QED
  BY <1>1, PlaceInit, PlaceStep, PTL DEF Spec

\* No checkout's git points at a key file that is gone.
THEOREM KeysAreThere == Spec => []KeysExist
<1>1. PlaceIInv => KeysExist
  <2> SUFFICES ASSUME PlaceIInv, NEW d \in Dirs \ stale
               PROVE  ssh[d] \in keys \union NotPromised \union {None}
    BY DEF KeysExist
  <2>1. PICK n : n = ssh[d]
    OBVIOUS
  <2>2. n \in Names \union {None}
    BY <2>1 DEF PlaceIInv, Typed, DiskTyped
  <2>3. n \in Names \ NotPromised => n \in keys
    BY <2>1, KeyIsThere DEF PlaceIInv
  <2> QED
    BY <2>1, <2>2, <2>3
<1> QED
  BY <1>1, PlaceInit, PlaceStep, PTL DEF Spec
=============================================================================
